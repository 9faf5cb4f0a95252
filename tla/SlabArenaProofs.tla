-------------------------- MODULE SlabArenaProofs --------------------------
(***************************************************************************)
(* Proofs about SlabArena, for any finite set of threads, any slab size,   *)
(* limits and preallocated area.                                           *)
(***************************************************************************)
EXTENDS SlabArena, FiniteSetTheorems, TLAPS

\* After slab_arena_destroy no thread has anything left of the arena.
Over == ~alive => Quiet /\ cache = <<>>

IInv ==
    /\ TypeOK
    /\ OneOwner
    /\ PreallocFirst
    /\ UsedIsLive
    /\ QuotaMatches
    /\ quota.used <= quota.total
    /\ NothingLeft
    /\ Over

-----------------------------------------------------------------------------
\* The first n pieces of the preallocated area are n slabs.
LEMMA SlotsCard ==
    ASSUME NEW n \in Nat
    PROVE  IsFiniteSet(Slots(n)) /\ Cardinality(Slots(n)) = n
<1> DEFINE f == [i \in 1 .. n |-> Slot(i - 1)]
<1>1. f \in Bijection(1 .. n, Slots(n))
  <2>1. f \in [1 .. n -> Slots(n)]
    BY DEF Slots
  <2>2. \A i, j \in 1 .. n : f[i] = f[j] => i = j
    BY DEF Slot
  <2>3. \A s \in Slots(n) : \E i \in 1 .. n : f[i] = s
    <3> TAKE s \in Slots(n)
    <3>1. PICK i \in 0 .. n - 1 : s = Slot(i)
      BY DEF Slots
    <3>2. i + 1 \in 1 .. n /\ f[i + 1] = s
      BY <3>1
    <3> QED
      BY <3>2
  <2> QED
    BY <2>1, <2>2, <2>3 DEF Bijection, Injection, Surjection, IsInjective
<1>2. ExistsBijection(1 .. n, Slots(n))
  BY <1>1 DEF ExistsBijection
<1> QED
  BY <1>2, FS_CountingElements, FS_NatBijection

\* Finitely many slabs are mapped separately at a time.
LEMMA OsFinite == IsFiniteSet(OsSlabs)
<1> DEFINE f == [k \in 1 .. MaxOs |-> <<"os", k>>]
<1>1. MaxOs \in Int /\ 1 \in Int
  BY SlabArenaAssumption
<1>2. IsFiniteSet(1 .. MaxOs)
  BY <1>1, FS_Interval
<1>3. f \in Surjection(1 .. MaxOs, OsSlabs)
  BY DEF Surjection, OsSlabs
<1> QED
  BY <1>2, <1>3, FS_Surjection

\* Pieces of the area are told apart by their number, and differ from the
\* slabs mapped separately.
LEMMA SlotsApart ==
    /\ \A n \in Nat : Slots(n) \cap OsSlabs = {}
    /\ \A n \in Nat, i \in Nat : Slot(i) \in Slots(n) <=> i < n
    /\ \A n \in Nat : Slots(n + 1) = Slots(n) \cup {Slot(n)}
<1>1. ASSUME NEW n \in Nat PROVE Slots(n) \cap OsSlabs = {}
  BY DEF Slots, OsSlabs, Slot
<1>2. ASSUME NEW n \in Nat, NEW i \in Nat PROVE Slot(i) \in Slots(n) <=> i < n
  BY DEF Slots, Slot
<1>3. ASSUME NEW n \in Nat PROVE Slots(n + 1) = Slots(n) \cup {Slot(n)}
  BY DEF Slots
<1> QED
  BY <1>1, <1>2, <1>3

\* A thread enters or leaves a set of threads.
LEMMA CountMove ==
    ASSUME NEW S \in SUBSET Threads, NEW t \in Threads
    PROVE  /\ Cardinality(S) \in Nat
           /\ t \notin S => Cardinality(S \cup {t}) = Cardinality(S) + 1
           /\ t \in S => Cardinality(S \ {t}) = Cardinality(S) - 1
           /\ t \in S => Cardinality(S) >= 1
<1>1. IsFiniteSet(S) /\ Cardinality(S) \in Nat
  BY SlabArenaAssumption, FS_Subset, FS_CardinalityType
<1>2. t \in S => Cardinality(S) >= 1
  BY <1>1, FS_EmptySet
<1> QED
  BY <1>1, <1>2, FS_AddElement, FS_RemoveElement

\* The slabs in existence are finitely many and, once the counter has
\* passed the preallocated area, include all of it.
LEMMA LiveFinite ==
    ASSUME IInv, alive
    PROVE  /\ IsFiniteSet(Live) /\ Cardinality(Live) \in Nat
           /\ used >= prealloc => Cardinality(Live) >= prealloc
<1>1. /\ Live = Slots(MIN(used, prealloc)) \cup os
      /\ MIN(used, prealloc) \in Nat /\ prealloc \in Nat /\ used \in Nat
      /\ os \subseteq OsSlabs
  BY DEF IInv, PreallocFirst, TypeOK, MIN
<1>2. IsFiniteSet(os)
  BY <1>1, OsFinite, FS_Subset
<1>3. IsFiniteSet(Live)
  BY <1>1, <1>2, SlotsCard, FS_Union
<1>4. ASSUME used >= prealloc PROVE Cardinality(Live) >= prealloc
  <2>1. MIN(used, prealloc) = prealloc
    BY <1>1, <1>4 DEF MIN
  <2>2. Slots(prealloc) \in SUBSET Live
    BY <1>1, <2>1
  <2>3. Cardinality(Slots(prealloc)) <= Cardinality(Live)
    BY <1>3, <2>2, FS_Subset
  <2> QED
    BY <1>1, <2>3, SlotsCard
<1>5. Cardinality(Live) \in Nat
  BY <1>3, FS_CardinalityType
<1> QED
  BY <1>3, <1>4, <1>5

-----------------------------------------------------------------------------
\* The units of one slab more.
LEMMA Distribute ==
    ASSUME NEW a \in Nat
    PROVE  /\ SlabUnits * a \in Nat
           /\ SlabUnits * (a + 1) = SlabUnits * a + SlabUnits
  BY SlabArenaAssumption

\* The charged units after a step that moves arena->used by du and the
\* number of unmatched charges by dc.
LEMMA ChargeSteps ==
    ASSUME NEW u \in Nat, NEW c \in Nat, NEW q, NEW o \in Nat,
           q = SlabUnits * (u + c) + o
    PROVE  /\ q \in Nat
           /\ q + SlabUnits = SlabUnits * (u + (c + 1)) + o
           /\ q = SlabUnits * ((u + 1) + (c - 1)) + o
           /\ q = SlabUnits * ((u - 1) + (c + 1)) + o
           /\ c >= 1 => q - SlabUnits = SlabUnits * (u + (c - 1)) + o /\ q >= SlabUnits
<1>1. /\ u + (c + 1) = (u + c) + 1 /\ (u + 1) + (c - 1) = u + c
      /\ (u - 1) + (c + 1) = u + c
  OBVIOUS
<1>2. SlabUnits * (u + c) \in Nat /\ SlabUnits \in Nat
  BY Distribute, SlabArenaAssumption
<1>3. q \in Nat /\ q + SlabUnits = SlabUnits * (u + (c + 1)) + o
  BY <1>1, <1>2, Distribute
<1>4. ASSUME c >= 1
      PROVE  q - SlabUnits = SlabUnits * (u + (c - 1)) + o /\ q >= SlabUnits
  <2>1. u + (c - 1) \in Nat /\ u + c = (u + (c - 1)) + 1
    BY <1>4
  <2>2. SlabUnits * (u + c) = SlabUnits * (u + (c - 1)) + SlabUnits
        /\ SlabUnits * (u + (c - 1)) \in Nat
    BY <2>1, Distribute
  <2> QED
    BY <1>2, <2>2
<1> QED
  BY <1>1, <1>3, <1>4

\* Slabs stay where they are.
LEMMA SameSlabs ==
    ASSUME UNCHANGED <<cache, given>>
    PROVE  Cached' = Cached /\ Live' = Live /\ (OneOwner => OneOwner')
  BY DEF Cached, Live, OneOwner

\* Steps of slab_map that move only the quota's usage, or nothing shared.
LEMMA PcQuotaIInv ==
    ASSUME IInv, NEW t \in Threads,
           \/ MapCall(t) \/ MapPopEmpty(t) \/ MapQuota(t) \/ MapQuotaFail(t)
           \/ MapOsFail(t) \/ MapRelease(t)
    PROVE  IInv'
<1>0. /\ TypeOK /\ OneOwner /\ PreallocFirst /\ UsedIsLive /\ QuotaMatches
      /\ NothingLeft /\ Over /\ quota.used <= quota.total /\ SlabUnits \in Nat \ {0}
      /\ used \in Nat /\ other \in Nat /\ quota.used \in Nat /\ quota.total \in Nat
  BY SlabArenaAssumption DEF IInv, TypeOK
<1>1. UNCHANGED <<prealloc, used, cache, os, area, alive, given, other>>
  BY DEF MapCall, MapPopEmpty, MapQuota, MapQuotaFail, MapOsFail, MapRelease
<1>2. alive
  BY <1>0 DEF Over, Quiet, MapCall, MapPopEmpty, MapQuota, MapQuotaFail,
              MapOsFail, MapRelease
<1>3. PICK label \in PCs : Goto(t, label)
  BY DEF MapCall, MapPopEmpty, MapQuota, MapQuotaFail, MapOsFail, MapRelease, PCs
<1>4. Live' = Live /\ OneOwner'
  BY <1>0, <1>1, SameSlabs
<1>5. Claiming' = Claiming
  BY <1>0 DEF Claiming, TypeOK, Goto, MapCall, MapPopEmpty, MapQuota,
              MapQuotaFail, MapOsFail, MapRelease
<1>6. Charged \in SUBSET Threads /\ Cardinality(Charged) \in Nat
  BY CountMove DEF Charged
<1>8. /\ QuotaMatches' /\ quota' \in [total : Nat, used : Nat]
      /\ quota'.used <= quota'.total
  <2>1. CASE MapCall(t) \/ MapPopEmpty(t) \/ MapQuotaFail(t) \/ MapOsFail(t)
    <3>1. Charged' = Charged /\ quota' = quota
      BY <1>0, <2>1
         DEF Charged, Goto, TypeOK, MapCall, MapPopEmpty, MapQuotaFail, MapOsFail
    <3> QED
      BY <1>0, <1>1, <3>1 DEF QuotaMatches, TypeOK
  <2>2. CASE MapQuota(t)
    <3>0. t \notin Charged /\ Charged' = Charged \cup {t}
      BY <1>0, <2>2 DEF Charged, Goto, TypeOK, MapQuota
    <3>1. Cardinality(Charged') = Cardinality(Charged) + 1
      BY <1>6, <3>0, CountMove
    <3>2. /\ quota' = [quota EXCEPT !.used = quota.used + SlabUnits]
          /\ quota.used + SlabUnits <= quota.total
      BY <2>2 DEF MapQuota
    <3>3. quota'.used = quota.used + SlabUnits /\ quota'.total = quota.total
          /\ quota' \in [total : Nat, used : Nat]
      BY <1>0, <3>2 DEF TypeOK
    <3>4. quota.used + SlabUnits = SlabUnits * (used + (Cardinality(Charged) + 1)) + other
      BY <1>0, <1>6, ChargeSteps DEF QuotaMatches
    <3> QED
      BY <1>1, <3>1, <3>2, <3>3, <3>4 DEF QuotaMatches
  <2>3. CASE MapRelease(t)
    <3>0. t \in Charged /\ Charged' = Charged \ {t}
      BY <1>0, <2>3 DEF Charged, Goto, TypeOK, MapRelease
    <3>1. Cardinality(Charged') = Cardinality(Charged) - 1
      BY <1>6, <3>0, CountMove
    <3>3. Cardinality(Charged) >= 1
      BY <1>6, <3>0, CountMove
    <3>4. /\ quota.used - SlabUnits = SlabUnits * (used + (Cardinality(Charged) - 1)) + other
          /\ quota.used >= SlabUnits
      BY <1>0, <1>6, <3>3, ChargeSteps DEF QuotaMatches
    <3>5. quota' = [quota EXCEPT !.used = quota.used - SlabUnits]
      BY <2>3 DEF MapRelease
    <3>6. quota'.used = quota.used - SlabUnits /\ quota'.total = quota.total
          /\ quota' \in [total : Nat, used : Nat]
      BY <1>0, <3>4, <3>5 DEF TypeOK
    <3> QED
      BY <1>0, <1>1, <3>1, <3>4, <3>6 DEF QuotaMatches
  <2> QED
    BY <2>1, <2>2, <2>3
<1>9. TypeOK'
  BY <1>0, <1>1, <1>3, <1>8 DEF TypeOK, Goto
<1> QED
  BY <1>0, <1>1, <1>2, <1>4, <1>5, <1>8, <1>9
     DEF IInv, PreallocFirst, UsedIsLive, NothingLeft, Over

-----------------------------------------------------------------------------
\* Removing the top of a sequence without repetitions.
LEMMA TailSet ==
    ASSUME NEW S, NEW s \in Seq(S), s # <<>>,
           \A i, j \in 1 .. Len(s) : s[i] = s[j] => i = j
    PROVE  /\ Tail(s) \in Seq(S)
           /\ \A i, j \in 1 .. Len(Tail(s)) : Tail(s)[i] = Tail(s)[j] => i = j
           /\ s[1] \in {s[i] : i \in 1 .. Len(s)}
           /\ {Tail(s)[i] : i \in 1 .. Len(Tail(s))} = {s[i] : i \in 1 .. Len(s)} \ {s[1]}
<1>1. /\ Tail(s) \in Seq(S) /\ Len(s) \in Nat \ {0} /\ Len(Tail(s)) = Len(s) - 1
      /\ \A i \in 1 .. Len(Tail(s)) : Tail(s)[i] = s[i + 1]
  OBVIOUS
<1> DEFINE r == Tail(s)
<1> HIDE DEF r
<1>2. /\ r \in Seq(S) /\ Len(r) = Len(s) - 1
      /\ \A i \in 1 .. Len(r) : r[i] = s[i + 1] /\ i + 1 \in 1 .. Len(s)
  BY <1>1 DEF r
<1>3. \A i, j \in 1 .. Len(r) : r[i] = r[j] => i = j
  <2> SUFFICES ASSUME NEW i \in 1 .. Len(r), NEW j \in 1 .. Len(r), r[i] = r[j]
               PROVE  i = j
    OBVIOUS
  <2>1. s[i + 1] = s[j + 1] /\ i + 1 \in 1 .. Len(s) /\ j + 1 \in 1 .. Len(s)
    BY <1>2
  <2>2. i + 1 = j + 1
    BY <2>1
  <2> QED
    BY <1>1, <1>2, <2>2
<1>4. ASSUME NEW x \in {r[i] : i \in 1 .. Len(r)}
      PROVE  x \in {s[i] : i \in 1 .. Len(s)} /\ x # s[1]
  <2>1. PICK i \in 1 .. Len(r) : x = r[i]
    OBVIOUS
  <2>2. i + 1 \in 1 .. Len(s) /\ x = s[i + 1] /\ i + 1 # 1 /\ 1 \in 1 .. Len(s)
    BY <1>1, <1>2, <2>1
  <2> QED
    BY <2>2
<1>5. ASSUME NEW x \in {s[i] : i \in 1 .. Len(s)}, x # s[1]
      PROVE  x \in {r[i] : i \in 1 .. Len(r)}
  <2>1. PICK j \in 1 .. Len(s) : x = s[j]
    OBVIOUS
  <2>2. j - 1 \in 1 .. Len(r) /\ r[j - 1] = s[j]
    BY <1>1, <1>2, <1>5, <2>1
  <2> QED
    BY <2>1, <2>2
<1>6. s[1] \in {s[i] : i \in 1 .. Len(s)}
  <2>1. 1 \in 1 .. Len(s)
    BY <1>1
  <2> QED
    BY <2>1
<1>7. {r[i] : i \in 1 .. Len(r)} = {s[i] : i \in 1 .. Len(s)} \ {s[1]}
  BY <1>4, <1>5
<1> QED
  BY <1>2, <1>3, <1>6, <1>7 DEF r

\* Putting a new element on top.
LEMMA ConsSet ==
    ASSUME NEW S, NEW s \in Seq(S), NEW e \in S,
           e \notin {s[i] : i \in 1 .. Len(s)},
           \A i, j \in 1 .. Len(s) : s[i] = s[j] => i = j
    PROVE  LET r == <<e>> \o s
           IN  /\ r \in Seq(S)
               /\ \A i, j \in 1 .. Len(r) : r[i] = r[j] => i = j
               /\ {r[i] : i \in 1 .. Len(r)} = {s[i] : i \in 1 .. Len(s)} \cup {e}
<1> DEFINE r == <<e>> \o s
<1>1. /\ r \in Seq(S) /\ Len(r) = Len(s) + 1 /\ Len(s) \in Nat
      /\ r[1] = e
      /\ \A i \in 2 .. Len(r) : r[i] = s[i - 1] /\ i - 1 \in 1 .. Len(s)
  OBVIOUS
<1> HIDE DEF r
<1>2. \A i \in 1 .. Len(s) : i + 1 \in 1 .. Len(r) /\ r[i + 1] = s[i]
  <2> TAKE i \in 1 .. Len(s)
  <2>1. i + 1 \in 2 .. Len(r) /\ (i + 1) - 1 = i
    BY <1>1
  <2> QED
    BY <1>1, <2>1
<1>3. \A i, j \in 1 .. Len(r) : r[i] = r[j] => i = j
  <2> SUFFICES ASSUME NEW i \in 1 .. Len(r), NEW j \in 1 .. Len(r), r[i] = r[j]
               PROVE  i = j
    OBVIOUS
  <2>1. CASE i = 1 \/ j = 1
    <3>1. \A k \in 2 .. Len(r) : r[k] # e
      BY <1>1
    <3> QED
      BY <1>1, <2>1, <3>1
  <2>2. CASE i # 1 /\ j # 1
    <3>1. i \in 2 .. Len(r) /\ j \in 2 .. Len(r)
      BY <1>1, <2>2
    <3>2. i - 1 = j - 1
      BY <1>1, <3>1
    <3> QED
      BY <1>1, <3>1, <3>2
  <2> QED
    BY <2>1, <2>2
<1>4. ASSUME NEW x PROVE (\E i \in 1 .. Len(r) : x = r[i])
                           <=> (\E i \in 1 .. Len(s) : x = s[i]) \/ x = e
  <2>1. ASSUME NEW i \in 1 .. Len(r), x = r[i]
        PROVE  (\E j \in 1 .. Len(s) : x = s[j]) \/ x = e
    <3>1. CASE i = 1
      BY <1>1, <2>1, <3>1
    <3>2. CASE i # 1
      <4>1. i \in 2 .. Len(r)
        BY <1>1, <3>2
      <4> QED
        BY <1>1, <2>1, <4>1
    <3> QED
      BY <3>1, <3>2
  <2>2. ASSUME NEW j \in 1 .. Len(s), x = s[j] PROVE \E i \in 1 .. Len(r) : x = r[i]
    BY <1>2, <2>2
  <2>3. ASSUME x = e PROVE \E i \in 1 .. Len(r) : x = r[i]
    <3>1. 1 \in 1 .. Len(r)
      BY <1>1
    <3> QED
      BY <1>1, <2>3, <3>1
  <2> QED
    BY <2>1, <2>2, <2>3
<1>5. {r[i] : i \in 1 .. Len(r)} = {s[i] : i \in 1 .. Len(s)} \cup {e}
  <2>1. ASSUME NEW x \in {r[i] : i \in 1 .. Len(r)}
        PROVE  x \in {s[i] : i \in 1 .. Len(s)} \cup {e}
    <3>1. \E i \in 1 .. Len(r) : x = r[i]
      OBVIOUS
    <3>2. (\E i \in 1 .. Len(s) : x = s[i]) \/ x = e
      BY <1>4, <3>1
    <3> QED
      BY <3>2
  <2>2. ASSUME NEW x \in {s[i] : i \in 1 .. Len(s)} \cup {e}
        PROVE  x \in {r[i] : i \in 1 .. Len(r)}
    <3>1. (\E i \in 1 .. Len(s) : x = s[i]) \/ x = e
      OBVIOUS
    <3>2. \E i \in 1 .. Len(r) : x = r[i]
      BY <1>4, <3>1
    <3> QED
      BY <3>2
  <2> QED
    BY <2>1, <2>2
<1> QED
  BY <1>1, <1>3, <1>5 DEF r

-----------------------------------------------------------------------------
\* Membership in the slabs in existence, before and after a step.
LEMMA InLive ==
    /\ \A x : x \in Live <=> x \in Cached \/ \E u \in Threads : x \in given[u]
    /\ \A x : x \in Live' <=> x \in Cached' \/ \E u \in Threads : x \in given'[u]
  BY DEF Live

\* A step that only moves slabs between the cache and the threads.
LEMMA MoveIInv ==
    ASSUME IInv, alive, TypeOK', OneOwner', Live' = Live,
           Claiming' = Claiming, Charged' = Charged,
           UNCHANGED <<prealloc, used, quota, os, area, alive, other>>
    PROVE  IInv'
  BY DEF IInv, PreallocFirst, UsedIsLive, QuotaMatches, NothingLeft, Over

\* slab_map takes a slab from the cache.
LEMMA MapPopIInv ==
    ASSUME IInv, NEW t \in Threads, MapPop(t)
    PROVE  IInv'
<1>0. TypeOK /\ OneOwner /\ Over
  BY DEF IInv
<1>1. alive
  BY <1>0 DEF Over, Quiet, MapPop
<1> DEFINE S == Slots(prealloc) \cup OsSlabs
<1>2. cache \in Seq(S) /\ cache # <<>> /\ cache' = Tail(cache) /\ prealloc' = prealloc
      /\ \A i, j \in 1 .. Len(cache) : cache[i] = cache[j] => i = j
  BY <1>0 DEF TypeOK, OneOwner, MapPop
<1>3. /\ cache' \in Seq(S) /\ cache[1] \in Cached /\ Cached' = Cached \ {cache[1]}
      /\ \A i, j \in 1 .. Len(cache') : cache'[i] = cache'[j] => i = j
  <2> HIDE DEF S
  <2>1. /\ Tail(cache) \in Seq(S)
        /\ \A i, j \in 1 .. Len(Tail(cache)) : Tail(cache)[i] = Tail(cache)[j] => i = j
        /\ cache[1] \in Cached
        /\ {Tail(cache)[i] : i \in 1 .. Len(Tail(cache))} = Cached \ {cache[1]}
    BY <1>2, TailSet DEF Cached
  <2>2. Cached' = {Tail(cache)[i] : i \in 1 .. Len(Tail(cache))}
    BY <1>2 DEF Cached
  <2> QED
    BY <1>2, <2>1, <2>2
<1>4. cache[1] \in S
  BY <1>2
<1>5. \A u \in Threads : given'[u] = IF u = t THEN given[u] \cup {cache[1]} ELSE given[u]
  BY <1>0 DEF MapPop, Give, TypeOK
<1>6. TypeOK'
  BY <1>0, <1>2, <1>3, <1>4 DEF TypeOK, MapPop, Give, Goto, PCs
<1>7. Live' = Live
  <2>1. ASSUME NEW x \in Live' PROVE x \in Live
    <3>1. CASE x \in Cached'
      BY <1>3, <3>1, InLive
    <3>2. CASE \E u \in Threads : x \in given'[u]
      <4>1. PICK u \in Threads : x \in given'[u]
        BY <3>2
      <4>2. x \in given[u] \/ x = cache[1]
        BY <1>5, <4>1
      <4> QED
        BY <1>3, <4>2, InLive
    <3> QED
      BY <3>1, <3>2, InLive
  <2>2. ASSUME NEW x \in Live PROVE x \in Live'
    <3>1. CASE x = cache[1]
      <4>1. x \in given'[t]
        BY <1>5, <3>1
      <4> QED
        BY <4>1, InLive
    <3>2. CASE x \in Cached /\ x # cache[1]
      BY <1>3, <3>2, InLive
    <3>3. CASE \E u \in Threads : x \in given[u]
      BY <1>5, <3>3, InLive
    <3> QED
      BY <3>1, <3>2, <3>3, InLive
  <2> QED
    BY <2>1, <2>2
<1>8. OneOwner'
  <2>1. ASSUME NEW u \in Threads, NEW x \in given'[u] PROVE x \notin Cached'
    BY <1>0, <1>3, <1>5, <2>1 DEF OneOwner
  <2>2. ASSUME NEW u \in Threads, NEW v \in Threads, NEW x \in given'[u], x \in given'[v]
        PROVE  u = v
    <3>1. \A w \in Threads : cache[1] \notin given[w]
      BY <1>0, <1>3 DEF OneOwner
    <3>2. CASE x = cache[1]
      BY <1>5, <2>2, <3>1, <3>2
    <3>3. CASE x # cache[1]
      <4>1. x \in given[u] /\ x \in given[v]
        BY <1>5, <2>2, <3>3
      <4> QED
        BY <1>0, <4>1 DEF OneOwner
    <3> QED
      BY <3>2, <3>3
  <2> QED
    BY <1>3, <2>1, <2>2 DEF OneOwner
<1>9. Claiming' = Claiming /\ Charged' = Charged
  BY <1>0 DEF Claiming, Charged, MapPop, Goto, TypeOK
<1> QED
  BY <1>1, <1>6, <1>7, <1>8, <1>9, MoveIInv DEF MapPop

\* slab_unmap puts a slab into the cache.
LEMMA UnmapIInv ==
    ASSUME IInv, NEW t \in Threads, NEW slab \in given[t], Unmap(t, slab)
    PROVE  IInv'
<1>0. TypeOK /\ OneOwner /\ Over
  BY DEF IInv
<1>1. alive
  BY <1>0 DEF Over, Quiet
<1> DEFINE S == Slots(prealloc) \cup OsSlabs
<1>2. /\ cache \in Seq(S) /\ slab \in S /\ cache' = <<slab>> \o cache
      /\ prealloc' = prealloc /\ slab \notin Cached
      /\ \A i, j \in 1 .. Len(cache) : cache[i] = cache[j] => i = j
  BY <1>0 DEF TypeOK, OneOwner, Unmap
<1>3. /\ cache' \in Seq(S) /\ Cached' = Cached \cup {slab}
      /\ \A i, j \in 1 .. Len(cache') : cache'[i] = cache'[j] => i = j
  <2> HIDE DEF S
  <2>1. slab \notin {cache[i] : i \in 1 .. Len(cache)}
    BY <1>2 DEF Cached
  <2> DEFINE r == <<slab>> \o cache
  <2>2. /\ r \in Seq(S)
        /\ {r[i] : i \in 1 .. Len(r)} = {cache[i] : i \in 1 .. Len(cache)} \cup {slab}
        /\ \A i, j \in 1 .. Len(r) : r[i] = r[j] => i = j
    BY <1>2, <2>1, ConsSet
  <2>3. cache' = r
    BY <1>2
  <2> HIDE DEF r
  <2> QED
    BY <2>2, <2>3 DEF Cached
<1>5. \A u \in Threads : given'[u] = IF u = t THEN given[u] \ {slab} ELSE given[u]
  BY <1>0 DEF Unmap, TypeOK
<1>6. TypeOK'
  BY <1>0, <1>2, <1>3 DEF TypeOK, Unmap
<1>7. Live' = Live
  BY <1>3, <1>5, InLive
<1>8. OneOwner'
  BY <1>0, <1>3, <1>5 DEF OneOwner
<1>9. Claiming' = Claiming /\ Charged' = Charged
  BY DEF Claiming, Charged, Unmap
<1> QED
  BY <1>1, <1>6, <1>7, <1>8, <1>9, MoveIInv DEF Unmap

\* A thread passes a slab on to another one.
LEMMA HandOverIInv ==
    ASSUME IInv, NEW t \in Threads, NEW u \in Threads, NEW slab \in given[t],
           HandOver(t, u, slab)
    PROVE  IInv'
<1>0. TypeOK /\ OneOwner /\ Over
  BY DEF IInv
<1>1. alive
  BY <1>0 DEF Over, Quiet
<1>2. \A v \in Threads : given'[v] = IF v = t THEN given[v] \ {slab}
                                     ELSE IF v = u THEN given[v] \cup {slab} ELSE given[v]
  BY <1>0 DEF HandOver, TypeOK
<1>9. /\ u # t /\ given'[t] = given[t] \ {slab} /\ given'[u] = given[u] \cup {slab}
      /\ \A v \in Threads : v # t /\ v # u => given'[v] = given[v]
  BY <1>2 DEF HandOver
<1>3. TypeOK'
  BY <1>0 DEF TypeOK, HandOver
<1>4. Cached' = Cached /\ cache' = cache
  BY DEF Cached, HandOver
<1>5. Live' = Live
  <2>1. \A x : (\E v \in Threads : x \in given'[v]) <=> (\E v \in Threads : x \in given[v])
    <3> SUFFICES ASSUME NEW x
                 PROVE  (\E v \in Threads : x \in given'[v])
                          <=> (\E v \in Threads : x \in given[v])
      OBVIOUS
    <3>1. CASE x = slab
      <4>1. x \in given[t] /\ x \in given'[u]
        BY <1>9, <3>1
      <4> QED
        BY <4>1
    <3>2. CASE x # slab
      BY <1>2, <3>2
    <3> QED
      BY <3>1, <3>2
  <2> QED
    BY <1>4, <2>1, InLive
<1>6. OneOwner'
  <2>1. ASSUME NEW v \in Threads, NEW x \in given'[v] PROVE x \notin Cached'
    <3>1. \E w \in Threads : x \in given[w]
      BY <1>2, <2>1
    <3> QED
      BY <1>0, <1>4, <3>1 DEF OneOwner
  <2>2. ASSUME NEW v \in Threads, NEW w \in Threads, NEW x \in given'[v], x \in given'[w]
        PROVE  v = w
    <3>1. CASE x = slab
      <4>1. \A z \in Threads : x \in given[z] => z = t
        BY <1>0, <3>1 DEF OneOwner
      <4>2. x \notin given'[t] /\ \A z \in Threads : x \in given'[z] => z = u
        BY <1>9, <3>1, <4>1
      <4> QED
        BY <2>2, <4>2
    <3>2. CASE x # slab
      <4>1. x \in given[v] /\ x \in given[w]
        BY <1>2, <2>2, <3>2
      <4> QED
        BY <1>0, <4>1 DEF OneOwner
    <3> QED
      BY <3>1, <3>2
  <2> QED
    BY <1>0, <1>4, <2>1, <2>2 DEF OneOwner
<1>7. Claiming' = Claiming /\ Charged' = Charged
  BY DEF Claiming, Charged, HandOver
<1> QED
  BY <1>1, <1>3, <1>5, <1>6, <1>7, MoveIInv DEF HandOver

-----------------------------------------------------------------------------
\* A slab that did not exist before is given to a thread.
LEMMA NewSlab ==
    ASSUME IInv, alive, NEW t \in Threads, NEW slab, slab \notin Live,
           Give(t, slab), UNCHANGED cache
    PROVE  /\ OneOwner' /\ Live' = Live \cup {slab}
           /\ Cardinality(Live') = Cardinality(Live) + 1
<1>0. TypeOK /\ OneOwner
  BY DEF IInv
<1>1. /\ given'[t] = given[t] \cup {slab}
      /\ \A u \in Threads : u # t => given'[u] = given[u]
  BY <1>0 DEF Give, TypeOK
<1>2. Cached' = Cached /\ slab \notin Cached /\ \A u \in Threads : slab \notin given[u]
  BY InLive DEF Cached
<1>3. Live' = Live \cup {slab}
  <2>1. ASSUME NEW x \in Live' PROVE x \in Live \cup {slab}
    BY <1>1, <1>2, InLive
  <2>2. ASSUME NEW x \in Live PROVE x \in Live'
    BY <1>1, <1>2, InLive
  <2>3. slab \in Live'
    BY <1>1, InLive
  <2> QED
    BY <2>1, <2>2, <2>3
<1>4. OneOwner'
  <2>1. ASSUME NEW u \in Threads, NEW x \in given'[u] PROVE x \notin Cached'
    BY <1>0, <1>1, <1>2 DEF OneOwner
  <2>2. ASSUME NEW u \in Threads, NEW v \in Threads, NEW x \in given'[u], x \in given'[v]
        PROVE  u = v
    <3>1. CASE x = slab
      BY <1>1, <1>2, <2>2, <3>1
    <3>2. CASE x # slab
      <4>1. x \in given[u] /\ x \in given[v]
        BY <1>1, <2>2, <3>2
      <4> QED
        BY <1>0, <4>1 DEF OneOwner
    <3> QED
      BY <3>1, <3>2
  <2> QED
    BY <1>0, <1>2, <2>1, <2>2 DEF OneOwner
<1>5. Cardinality(Live') = Cardinality(Live) + 1
  BY <1>3, LiveFinite, FS_AddElement
<1> QED
  BY <1>3, <1>4, <1>5

\* The fetch-and-add on arena->used: it gives the thread the next piece of
\* the preallocated area, or sends it to mmap.
LEMMA MapAddIInv ==
    ASSUME IInv, NEW t \in Threads, MapAdd(t)
    PROVE  IInv'
<1>0. /\ TypeOK /\ OneOwner /\ PreallocFirst /\ UsedIsLive /\ QuotaMatches
      /\ NothingLeft /\ Over /\ quota.used <= quota.total
      /\ used \in Nat /\ prealloc \in Nat /\ other \in Nat
  BY DEF IInv, TypeOK
<1>1. /\ UNCHANGED <<prealloc, quota, cache, os, area, alive, other>>
      /\ used' = used + 1 /\ pc[t] = "add"
  BY DEF MapAdd
<1>2. alive /\ t \in Charged /\ t \notin Claiming
  BY <1>0, <1>1 DEF Over, Quiet, Charged, Claiming
<1>3. /\ Charged \in SUBSET Threads /\ Cardinality(Charged) \in Nat
      /\ Claiming \in SUBSET Threads /\ Cardinality(Claiming) \in Nat
      /\ Cardinality(Live) \in Nat
  BY <1>2, CountMove, LiveFinite DEF Charged, Claiming
<1>4. QuotaMatches'
  <2>1. Charged' = Charged \ {t}
    BY <1>0 DEF Charged, MapAdd, Goto, TypeOK
  <2>2. Cardinality(Charged') = Cardinality(Charged) - 1
    BY <1>2, <1>3, <2>1, CountMove
  <2>3. quota.used = SlabUnits * ((used + 1) + (Cardinality(Charged) - 1)) + other
    BY <1>0, <1>3, ChargeSteps DEF QuotaMatches
  <2> QED
    BY <1>1, <2>2, <2>3 DEF QuotaMatches
<1>5. CASE InPrealloc(used + 1)
  <2>1. Give(t, Slot(used)) /\ Goto(t, "idle") /\ used < prealloc
    BY <1>0, <1>5 DEF MapAdd, InPrealloc
  <2>2. /\ Slot(used) \notin Live /\ Slot(used) \in Slots(prealloc)
        /\ MIN(used, prealloc) = used /\ MIN(used + 1, prealloc) = used + 1
        /\ Slot(used) \notin Slots(used)
    <3>1. MIN(used, prealloc) = used /\ MIN(used + 1, prealloc) = used + 1
      BY <1>0, <2>1 DEF MIN
    <3>2. Slot(used) \in Slots(prealloc) /\ Slot(used) \notin Slots(used)
      BY <1>0, <2>1, SlotsApart
    <3> QED
      BY <1>0, <1>2, <3>1, <3>2 DEF PreallocFirst
  <2>3. /\ OneOwner' /\ Live' = Live \cup {Slot(used)}
        /\ Cardinality(Live') = Cardinality(Live) + 1
    BY <1>1, <1>2, <2>1, <2>2, NewSlab
  <2>4. Claiming' = Claiming
    BY <1>0, <1>1, <2>1 DEF Claiming, Goto, TypeOK
  <2>5. TypeOK'
    BY <1>0, <1>1, <2>1, <2>2 DEF TypeOK, Give, Goto, PCs
  <2>6. PreallocFirst'
    <3>1. Live' \cap Slots(prealloc) = Slots(used + 1)
      BY <1>0, <1>2, <2>2, <2>3, SlotsApart DEF PreallocFirst
    <3>2. Live' \ Slots(prealloc) = os
      BY <1>0, <1>2, <2>2, <2>3 DEF PreallocFirst
    <3>3. os = {} /\ Claiming = {}
      BY <1>0, <1>2, <2>1 DEF PreallocFirst
    <3> QED
      BY <1>1, <2>2, <2>4, <3>1, <3>2, <3>3 DEF PreallocFirst
  <2>7. UsedIsLive'
    BY <1>0, <1>1, <1>2, <1>3, <2>3, <2>4 DEF UsedIsLive
  <2> QED
    BY <1>0, <1>1, <1>2, <1>4, <2>3, <2>5, <2>6, <2>7 DEF IInv, NothingLeft, Over
<1>6. CASE ~InPrealloc(used + 1)
  <2>1. UNCHANGED given /\ Goto(t, "mmap") /\ used >= prealloc
    BY <1>0, <1>6 DEF MapAdd, InPrealloc
  <2>2. Live' = Live /\ OneOwner'
    BY <1>0, <1>1, <2>1, SameSlabs
  <2>3. Claiming' = Claiming \cup {t}
    BY <1>0, <1>1, <2>1 DEF Claiming, Goto, TypeOK
  <2>4. Cardinality(Claiming') = Cardinality(Claiming) + 1
    BY <1>2, <1>3, <2>3, CountMove
  <2>5. TypeOK'
    BY <1>0, <1>1, <2>1 DEF TypeOK, Goto, PCs
  <2>6. PreallocFirst'
    <3>1. MIN(used, prealloc) = prealloc /\ MIN(used + 1, prealloc) = prealloc
          /\ used + 1 >= prealloc
      BY <1>0, <2>1 DEF MIN
    <3> QED
      BY <1>0, <1>1, <1>2, <2>2, <3>1 DEF PreallocFirst
  <2>7. UsedIsLive'
    BY <1>0, <1>1, <1>2, <1>3, <2>2, <2>4 DEF UsedIsLive
  <2> QED
    BY <1>0, <1>1, <1>2, <1>4, <2>2, <2>5, <2>6, <2>7 DEF IInv, NothingLeft, Over
<1> QED
  BY <1>5, <1>6

\* mmap gives slab_map a slab outside the area.
LEMMA MapOsIInv ==
    ASSUME IInv, NEW t \in Threads, NEW slab \in OsSlabs \ os, MapOs(t, slab)
    PROVE  IInv'
<1>0. /\ TypeOK /\ OneOwner /\ PreallocFirst /\ UsedIsLive /\ QuotaMatches
      /\ NothingLeft /\ Over /\ quota.used <= quota.total
      /\ used \in Nat /\ prealloc \in Nat
  BY DEF IInv, TypeOK
<1>1. /\ UNCHANGED <<prealloc, used, quota, cache, area, alive, other>>
      /\ os' = os \cup {slab} /\ pc[t] = "mmap"
      /\ Give(t, slab) /\ Goto(t, "idle")
  BY DEF MapOs
<1>2. alive /\ t \in Claiming
  BY <1>0, <1>1 DEF Over, Quiet, Claiming
<1>3. slab \notin Slots(prealloc)
  BY <1>0, SlotsApart
<1>4. slab \notin Live
  BY <1>0, <1>2, <1>3 DEF PreallocFirst
<1>5. /\ OneOwner' /\ Live' = Live \cup {slab}
      /\ Cardinality(Live') = Cardinality(Live) + 1
  BY <1>1, <1>2, <1>4, NewSlab
<1>6. Claiming' = Claiming \ {t} /\ Charged' = Charged
  BY <1>0, <1>1 DEF Claiming, Charged, Goto, TypeOK
<1>7. /\ Cardinality(Claiming') = Cardinality(Claiming) - 1
      /\ Cardinality(Claiming) \in Nat /\ Cardinality(Live) \in Nat
  <2>1. Claiming \in SUBSET Threads
    BY DEF Claiming
  <2> QED
    BY <1>2, <1>6, <2>1, CountMove, LiveFinite
<1>8. TypeOK'
  BY <1>0, <1>1 DEF TypeOK, Give, Goto, PCs
<1>9. PreallocFirst'
  BY <1>0, <1>1, <1>2, <1>3, <1>5 DEF PreallocFirst
<1>10. UsedIsLive'
  BY <1>0, <1>1, <1>2, <1>5, <1>7 DEF UsedIsLive
<1>11. QuotaMatches'
  BY <1>0, <1>1, <1>6 DEF QuotaMatches
<1> QED
  BY <1>0, <1>1, <1>2, <1>5, <1>8, <1>9, <1>10, <1>11 DEF IInv, NothingLeft, Over

\* The claim that is taken back was made beyond the preallocated area, so
\* the counter does not fall back into it.
LEMMA MapSubIInv ==
    ASSUME IInv, NEW t \in Threads, MapSub(t)
    PROVE  IInv'
<1>0. /\ TypeOK /\ OneOwner /\ PreallocFirst /\ UsedIsLive /\ QuotaMatches
      /\ NothingLeft /\ Over /\ quota.used <= quota.total
      /\ used \in Nat /\ prealloc \in Nat /\ other \in Nat
  BY DEF IInv, TypeOK
<1>1. /\ UNCHANGED <<prealloc, quota, cache, os, area, alive, given, other>>
      /\ used' = used - 1 /\ pc[t] = "sub" /\ Goto(t, "release")
  BY DEF MapSub
<1>2. alive /\ t \in Claiming /\ t \notin Charged
  BY <1>0, <1>1 DEF Over, Quiet, Claiming, Charged
<1>3. Live' = Live /\ OneOwner'
  BY <1>0, <1>1, SameSlabs
<1>4. Claiming' = Claiming \ {t} /\ Charged' = Charged \cup {t}
  BY <1>0, <1>1 DEF Claiming, Charged, Goto, TypeOK
<1>5. /\ Cardinality(Claiming') = Cardinality(Claiming) - 1
      /\ Cardinality(Claiming) \in Nat /\ Cardinality(Claiming) >= 1
      /\ Cardinality(Charged') = Cardinality(Charged) + 1
      /\ Cardinality(Charged) \in Nat
  <2>1. Claiming \in SUBSET Threads /\ Charged \in SUBSET Threads
    BY DEF Claiming, Charged
  <2> QED
    BY <1>2, <1>4, <2>1, CountMove
<1>6. used >= prealloc + 1
  <2>1. used >= prealloc
    BY <1>0, <1>2 DEF PreallocFirst
  <2>2. Cardinality(Live) \in Nat /\ Cardinality(Live) >= prealloc
    BY <1>2, <2>1, LiveFinite
  <2> QED
    BY <1>0, <1>2, <1>5, <2>2 DEF UsedIsLive
<1>7. used - 1 \in Nat
  BY <1>0, <1>6
<1>8. TypeOK'
  BY <1>0, <1>1, <1>7 DEF TypeOK, Goto, PCs
<1>9. PreallocFirst'
  <2>1. MIN(used, prealloc) = prealloc /\ MIN(used - 1, prealloc) = prealloc
        /\ used - 1 >= prealloc
    BY <1>0, <1>6 DEF MIN
  <2> QED
    BY <1>0, <1>1, <1>2, <1>3, <2>1 DEF PreallocFirst
<1>10. UsedIsLive'
  <2>1. Cardinality(Live) \in Nat
    BY <1>2, LiveFinite
  <2> QED
    BY <1>0, <1>1, <1>2, <1>3, <1>5, <2>1 DEF UsedIsLive
<1>11. QuotaMatches'
  <2>1. quota.used = SlabUnits * ((used - 1) + (Cardinality(Charged) + 1)) + other
    BY <1>0, <1>5, ChargeSteps DEF QuotaMatches
  <2> QED
    BY <1>1, <1>5, <2>1 DEF QuotaMatches
<1> QED
  BY <1>0, <1>1, <1>2, <1>3, <1>8, <1>9, <1>10, <1>11 DEF IInv, NothingLeft, Over

\* The other users of the quota do not touch the arena.
LEMMA OtherIInv ==
    ASSUME IInv,
           \/ \E n \in OtherUnits : OtherUse(n) \/ OtherRelease(n)
           \/ \E total \in Totals : SetTotal(total)
           \/ UNCHANGED vars
    PROVE  IInv'
<1>0. /\ TypeOK /\ OneOwner /\ PreallocFirst /\ UsedIsLive /\ QuotaMatches
      /\ NothingLeft /\ Over /\ quota.used <= quota.total
      /\ used \in Nat /\ other \in Nat /\ quota.used \in Nat /\ quota.total \in Nat
  BY DEF IInv, TypeOK
<1>1. UNCHANGED <<prealloc, used, cache, os, area, alive, pc, given>>
  BY DEF OtherUse, OtherRelease, SetTotal, vars
<1>2. Live' = Live /\ OneOwner' /\ Claiming' = Claiming /\ Charged' = Charged
  BY <1>0, <1>1, SameSlabs DEF Claiming, Charged
<1>3. SlabUnits * (used + Cardinality(Charged)) \in Nat
  <2>1. Charged \in SUBSET Threads
    BY DEF Charged
  <2>2. IsFiniteSet(Charged)
    BY <2>1, SlabArenaAssumption, FS_Subset
  <2>3. used + Cardinality(Charged) \in Nat
    BY <1>0, <2>2, FS_CardinalityType
  <2> QED
    BY <2>3, Distribute
<1>4. /\ quota' \in [total : Nat, used : Nat] /\ other' \in Nat
      /\ quota'.used <= quota'.total
      /\ quota'.used - other' = quota.used - other
  <2>1. ASSUME NEW n \in OtherUnits, OtherUse(n)
        PROVE  /\ quota' \in [total : Nat, used : Nat] /\ other' = other + n
               /\ quota'.used = quota.used + n /\ quota'.total = quota.total
               /\ quota.used + n <= quota.total /\ n \in Nat
    <3>1. n \in Nat
      BY SlabArenaAssumption
    <3>2. /\ quota' = [quota EXCEPT !.used = quota.used + n] /\ other' = other + n
          /\ quota.used + n <= quota.total
      BY <2>1 DEF OtherUse
    <3> QED
      BY <1>0, <3>1, <3>2 DEF TypeOK
  <2>2. ASSUME NEW n \in OtherUnits, OtherRelease(n)
        PROVE  /\ quota' \in [total : Nat, used : Nat] /\ other' = other - n
               /\ quota'.used = quota.used - n /\ quota'.total = quota.total
               /\ n \in Nat /\ n <= other
    <3>1. n \in Nat /\ n <= other /\ other <= quota.used
      BY <1>0, <1>3, <2>2, SlabArenaAssumption DEF OtherRelease, QuotaMatches
    <3> QED
      BY <1>0, <2>2, <3>1 DEF OtherRelease, TypeOK
  <2>3. ASSUME NEW total \in Totals, SetTotal(total)
        PROVE  /\ quota' \in [total : Nat, used : Nat] /\ other' = other
               /\ quota'.used = quota.used /\ quota'.used <= quota'.total
    BY <1>0, <2>3, SlabArenaAssumption DEF SetTotal, TypeOK
  <2>4. CASE UNCHANGED vars
    BY <1>0, <2>4 DEF vars, TypeOK
  <2>5. ASSUME NEW n \in OtherUnits, OtherUse(n) \/ OtherRelease(n)
        PROVE  /\ quota' \in [total : Nat, used : Nat] /\ other' \in Nat
               /\ quota'.used <= quota'.total
               /\ quota'.used - other' = quota.used - other
    BY <1>0, <2>1, <2>2, <2>5
  <2> QED
    BY <1>0, <2>3, <2>4, <2>5
<1>5. QuotaMatches'
  BY <1>0, <1>1, <1>2, <1>3, <1>4 DEF QuotaMatches
<1>6. TypeOK'
  BY <1>0, <1>1, <1>4 DEF TypeOK
<1> QED
  BY <1>0, <1>1, <1>2, <1>4, <1>5, <1>6
     DEF IInv, PreallocFirst, UsedIsLive, NothingLeft, Over, Quiet

\* slab_arena_destroy, which is called when all slabs are back in the cache.
LEMMA DestroyIInv ==
    ASSUME IInv, slab_arena_destroy
    PROVE  IInv'
<1>0. /\ TypeOK /\ OneOwner /\ PreallocFirst /\ UsedIsLive /\ QuotaMatches
      /\ NothingLeft /\ Over /\ quota.used <= quota.total
  BY DEF IInv
<1>1. /\ alive /\ Quiet /\ alive' = FALSE /\ cache' = <<>> /\ area' = FALSE
      /\ os' = os \ (Cached \ Slots(prealloc))
      /\ UNCHANGED <<prealloc, used, quota, pc, given, other>>
  BY DEF slab_arena_destroy
<1>2. os' = {}
  <2>1. ASSUME NEW x \in os PROVE x \in Cached \ Slots(prealloc)
    BY <1>0, <1>1, InLive DEF PreallocFirst, Quiet
  <2> QED
    BY <1>1, <2>1
<1>3. TypeOK'
  <2>1. cache' \in Seq(Slots(prealloc) \cup OsSlabs)
    BY <1>1
  <2>2. area' \in BOOLEAN /\ alive' \in BOOLEAN
    BY <1>1, Zenon
  <2> QED
    BY <1>0, <1>1, <1>2, <2>1, <2>2 DEF TypeOK
<1>4. OneOwner'
  BY <1>1 DEF OneOwner, Quiet
<1>5. QuotaMatches'
  <2>1. Charged' = Charged
    BY <1>1 DEF Charged
  <2> QED
    BY <1>0, <1>1, <2>1 DEF QuotaMatches
<1> QED
  BY <1>0, <1>1, <1>2, <1>3, <1>4, <1>5
     DEF IInv, PreallocFirst, UsedIsLive, NothingLeft, Over, Quiet

\* The invariant holds after slab_arena_create, whatever prealloc and limit.
LEMMA InitIInv == Init => IInv
<1> SUFFICES ASSUME Init PROVE IInv
  OBVIOUS
<1>1. PICK total \in Totals, arg \in Preallocs :
        prealloc = PreallocSlabs(arg, total) /\ quota = [total |-> total, used |-> 0]
  BY DEF Init
<1>2. prealloc \in Nat
  <2>1. MIN(arg, total) \in Nat /\ SlabUnits \in Nat \ {0}
    BY SlabArenaAssumption DEF MIN
  <2> QED
    BY <1>1, <2>1 DEF PreallocSlabs
<1>3. TypeOK
  BY <1>1, <1>2, SlabArenaAssumption DEF Init, TypeOK, PCs
<1>4. Cached = {} /\ Live = {} /\ Claiming = {} /\ Charged = {}
  BY DEF Init, Cached, Live, Claiming, Charged
<1>5. Slots(MIN(used, prealloc)) = {}
  BY <1>2 DEF Init, Slots, MIN
<1>6. PreallocFirst /\ OneOwner
  BY <1>4, <1>5 DEF Init, PreallocFirst, OneOwner
<1>7. UsedIsLive
  BY <1>4, FS_EmptySet DEF Init, UsedIsLive
<1>8. QuotaMatches
  <2>1. SlabUnits * (0 + 0) + 0 = 0
    BY SlabArenaAssumption
  <2>2. quota.used = 0 /\ used = 0 /\ other = 0 /\ Cardinality(Charged) = 0
    BY <1>1, <1>4, FS_EmptySet DEF Init
  <2> QED
    BY <2>1, <2>2 DEF QuotaMatches
<1> QED
  BY <1>1, <1>3, <1>6, <1>7, <1>8, SlabArenaAssumption DEF IInv, Init, NothingLeft, Over

\* Every step of every thread keeps the invariant.
LEMMA NextIInv == IInv /\ [Next]_vars => IInv'
  BY PcQuotaIInv, MapPopIInv, UnmapIInv, HandOverIInv, MapAddIInv, MapOsIInv,
     MapSubIInv, OtherIInv, DestroyIInv
     DEF Next

-----------------------------------------------------------------------------
\* The inductive invariant holds throughout any run of the arena.
THEOREM Invariance == Spec => []IInv
  BY InitIInv, NextIInv, PTL DEF Spec

\* Type correctness of the arena's fields and the locals of slab_map.
THEOREM TypeCorrect == Spec => []TypeOK
<1>1. IInv => TypeOK
  BY DEF IInv
<1> QED
  BY <1>1, Invariance, PTL

\* slab_map never gives a slab to two callers.
THEOREM SlabHasOneOwner == Spec => []OneOwner
<1>1. IInv => OneOwner
  BY DEF IInv
<1> QED
  BY <1>1, Invariance, PTL

\* arena->used counts the existing slabs and the claims on their way, which
\* is the assertion of slab_arena_destroy once the arena is quiet.
THEOREM UsedCountsSlabs == Spec => []UsedIsLive
<1>1. IInv => UsedIsLive
  BY DEF IInv
<1> QED
  BY <1>1, Invariance, PTL

\* The preallocated area is given out first, each piece of it once.
THEOREM AreaFirst == Spec => []PreallocFirst
<1>1. IInv => PreallocFirst
  BY DEF IInv
<1> QED
  BY <1>1, Invariance, PTL

\* The charged units are those of the arena and of the quota's other users.
THEOREM QuotaIsExact == Spec => []QuotaMatches
<1>1. IInv => QuotaMatches
  BY DEF IInv
<1> QED
  BY <1>1, Invariance, PTL

\* The memory that exists never exceeds the limit of the moment.
THEOREM MemoryWithinLimit == Spec => []WithinLimit
<1>1. IInv => WithinLimit
  <2> SUFFICES ASSUME IInv, alive
               PROVE  SlabUnits * Cardinality(Live) + other <= quota.total
    BY DEF WithinLimit
  <2>1. Cardinality(Live) \in Nat /\ Cardinality(Charged) \in Nat
        /\ Cardinality(Claiming) \in Nat
    <3>1. IsFiniteSet(Charged) /\ IsFiniteSet(Claiming)
      BY SlabArenaAssumption, FS_Subset DEF Charged, Claiming
    <3> QED
      BY <3>1, LiveFinite, FS_CardinalityType
  <2>2. /\ used = Cardinality(Live) + Cardinality(Claiming)
        /\ quota.used = SlabUnits * (used + Cardinality(Charged)) + other
        /\ quota.used <= quota.total /\ other \in Nat
        /\ quota.used \in Nat /\ quota.total \in Nat
    BY DEF IInv, UsedIsLive, QuotaMatches, TypeOK
  <2> DEFINE l == Cardinality(Live)
             r == Cardinality(Claiming) + Cardinality(Charged)
  <2>3. l \in Nat /\ r \in Nat /\ used + Cardinality(Charged) = l + r
    BY <2>1, <2>2
  <2> HIDE DEF l, r
  <2>4. SlabUnits * (l + r) = SlabUnits * l + SlabUnits * r
        /\ SlabUnits * r \in Nat /\ SlabUnits * l \in Nat
    BY <2>3, SlabArenaAssumption
  <2>5. SlabUnits * l + other <= quota.total
    BY <2>2, <2>3, <2>4
  <2> QED
    BY <2>5 DEF l
<1> QED
  BY <1>1, Invariance, PTL

\* slab_arena_destroy of a quiet arena leaves nothing mapped.
THEOREM DestroyUnmapsAll == Spec => []NothingLeft
<1>1. IInv => NothingLeft
  BY DEF IInv
<1> QED
  BY <1>1, Invariance, PTL
=============================================================================
