------------------------------ MODULE Lsregion ------------------------------
(***************************************************************************)
(* The log structured allocator of include/small/lsregion.h and            *)
(* small/lsregion.c: chunks are appended to the last slab of a list and    *)
(* carry ids that never decrease; lsregion_gc drops the oldest slabs by    *)
(* id, and lsregion_to_iovec hands out what has been written since a       *)
(* savepoint.                                                              *)
(*                                                                         *)
(* A slab of the list is a record; base is its address modulo the largest  *)
(* alignment.  Two things are kept for the properties alone: the chunks    *)
(* the caller still needs, and seen, how far a slab has been flushed.      *)
(* slab_map is used as SlabArena promises it.  An lsregion belongs to one  *)
(* thread, so a call is one step.                                          *)
(***************************************************************************)
EXTENDS Integers, Sequences, FiniteSets, FiniteSetsExt, SequencesExt

CONSTANTS slab_size,     \* arena->slab_size
          lslab_sizeof,  \* bytes in the header of a slab
          Sizes,         \* sizes callers ask for
          Alignments,    \* alignments callers ask for
          Bases,         \* what malloc() can return, modulo the largest alignment
          Reserves,      \* sizes reserved without being allocated
          IovCounts,     \* lengths of the iovec arrays
          MaxId,         \* bound: ids of chunks
          MaxSlabId      \* bound: slabs taken into the list

\* What the constants are taken to be.
LsregionAssumption ==
    /\ slab_size \in Nat /\ lslab_sizeof \in Nat /\ lslab_sizeof < slab_size
    /\ Sizes \subseteq Nat /\ Reserves \subseteq Nat
    /\ Alignments \subseteq Nat \ {0} /\ Bases \subseteq Nat
    /\ IovCounts \subseteq Nat \ {0}
    /\ MaxId \in Nat /\ MaxSlabId \in Nat

VARIABLES slabs,    \* lsregion->slabs, oldest first
          cached,   \* lsregion->cached is set
          slab_id,  \* lsregion->slab_id
          total,    \* lsregion->slabs.stats.total
          used,     \* lsregion->slabs.stats.used
          quota,    \* bytes charged to the quota for malloc()ed slabs
          mapped,   \* slabs taken from the arena
          svp,      \* the caller's savepoint
          id,       \* largest id used so far
          chunks,   \* chunks with ids the caller has not given up
          alive     \* lsregion_destroy has not been called

vars == <<slabs, cached, slab_id, total, used, quota, mapped, svp, id, chunks, alive>>

LSLAB_NOT_USED_ID == -1

Slab == [slab_size : Nat, slab_used : Nat, slab_id : Nat, max_id : Int, base : Nat, seen : Nat]

TypeOK ==
    /\ slabs \in Seq(Slab)
    /\ cached \in BOOLEAN
    /\ slab_id \in 0 .. MaxSlabId
    /\ total \in Nat /\ used \in Nat /\ quota \in Nat /\ mapped \in Nat
    /\ svp \in [slab_id : Int, pos : Nat]
    /\ id \in 0 .. MaxId
    /\ chunks \subseteq [id : 1 .. MaxId, slab_id : Nat, from : Nat, to : Nat]
    /\ alive \in BOOLEAN

\* lsregion_create, lsregion_svp_create
Init ==
    /\ slabs = <<>> /\ cached = FALSE /\ slab_id = 0
    /\ total = 0 /\ used = 0 /\ quota = 0 /\ mapped = 0
    /\ svp = [slab_id |-> LSLAB_NOT_USED_ID, pos |-> 0]
    /\ id = 0 /\ chunks = {}
    /\ alive = TRUE

-----------------------------------------------------------------------------
small_align(pos, alignment) == ((pos - 1 + alignment) \div alignment) * alignment

\* The first aligned place in slab s behind what is used, from its start.
Aligned(s, alignment) == small_align(s.base + s.slab_used, alignment) - s.base

Fits(s, size, alignment) == Aligned(s, alignment) + size <= s.slab_size

lslab_create(size, new_id, base) ==
    [slab_size |-> size, slab_used |-> lslab_sizeof, slab_id |-> new_id,
     max_id |-> LSLAB_NOT_USED_ID, base |-> base, seen |-> lslab_sizeof]

\* aligned_size + lslab_sizeof() of lsregion_aligned_reserve_slow
LargeSize(size, alignment) == size + alignment - 1 + lslab_sizeof

HasRoom(size, alignment) == slabs # <<>> /\ Fits(Last(slabs), size, alignment)

\* The slab lsregion_aligned_reserve_slow appends, malloc()ed at base if it
\* is a large one.
NewSlab(size, alignment, base) ==
    LET large == LargeSize(size, alignment)
    IN  IF large > slab_size THEN lslab_create(large, slab_id + 1, base)
        ELSE lslab_create(slab_size, slab_id + 1, 0)

\* The list lsregion_aligned_reserve leaves, with room in its last slab.
List(size, alignment, base) ==
    IF HasRoom(size, alignment) THEN slabs ELSE Append(slabs, NewSlab(size, alignment, base))

\* What else lsregion_aligned_reserve and lsregion_aligned_reserve_slow
\* change.  When the quota, malloc or slab_map fails nothing does.
Reserve(size, alignment, base) ==
    IF HasRoom(size, alignment)
    THEN UNCHANGED <<cached, slab_id, total, quota, mapped>>
    ELSE LET new == NewSlab(size, alignment, base)
             large == new.slab_size > slab_size
         IN  /\ slab_id < MaxSlabId
             /\ slab_id' = slab_id + 1
             /\ quota' = IF large THEN quota + new.slab_size ELSE quota
             /\ mapped' = IF large \/ cached THEN mapped ELSE mapped + 1
             /\ total' = IF ~large /\ cached THEN total ELSE total + new.slab_size
             /\ cached' = (large /\ cached)

\* lsregion_aligned_reserve, lsregion_reserve: not followed by an allocation.
lsregion_aligned_reserve(size, alignment, base) ==
    /\ Reserve(size, alignment, base)
    /\ slabs' = List(size, alignment, base)
    /\ UNCHANGED <<used, svp, id, chunks, alive>>

\* Altered form of lslab_use: the slab keeps its first id.
lslab_useFirstId(s, to, chunk_id) ==
    [s EXCEPT !.slab_used = to,
              !.max_id = IF @ = LSLAB_NOT_USED_ID THEN chunk_id ELSE @]

lslab_use(s, to, chunk_id) == [s EXCEPT !.slab_used = to, !.max_id = chunk_id]

\* lsregion_aligned_alloc, and lsregion_alloc with alignment 1.
lsregion_aligned_alloc(size, alignment, chunk_id, base) ==
    LET list == List(size, alignment, base)
        s == Last(list)
        from == Aligned(s, alignment)
    IN  /\ Reserve(size, alignment, base)
        /\ slabs' = [list EXCEPT ![Len(list)] = lslab_use(s, from + size, chunk_id)]
        /\ used' = used + from + size - s.slab_used
        /\ id' = chunk_id
        /\ chunks' = chunks \cup {[id |-> chunk_id, slab_id |-> s.slab_id,
                                   from |-> from, to |-> from + size]}
        /\ UNCHANGED <<svp, alive>>

-----------------------------------------------------------------------------
Sum(f(_), list) == FoldLeft(LAMBDA acc, s : acc + f(s), 0, list)

\* How many of the oldest slabs lsregion_gc frees.
GcCount(min_id) ==
    Max({n \in 0 .. Len(slabs) : \A i \in 1 .. n : slabs[i].max_id <= min_id})

\* The loop of lsregion_gc: the first slab that is not a large one is cached
\* unless one is cached already.
Gc(min_id) ==
    LET freed == SubSeq(slabs, 1, GcCount(min_id))
        ordinary == SelectSeq(freed, LAMBDA s : s.slab_size <= slab_size)
        large == SelectSeq(freed, LAMBDA s : s.slab_size > slab_size)
        unmapped == IF cached \/ ordinary = <<>> THEN Len(ordinary) ELSE Len(ordinary) - 1
    IN  /\ slabs' = SubSeq(slabs, Len(freed) + 1, Len(slabs))
        /\ used' = used - Sum(LAMBDA s : s.slab_used - lslab_sizeof, freed)
        /\ quota' = quota - Sum(LAMBDA s : s.slab_size, large)
        /\ total' = total - Sum(LAMBDA s : s.slab_size, large) - unmapped * slab_size
        /\ mapped' = mapped - unmapped
        /\ cached' = (cached \/ ordinary # <<>>)

\* By a caller who needs no chunk with this id or a lower one any more.
lsregion_gc(min_id) ==
    /\ Gc(min_id)
    /\ chunks' = {c \in chunks : c.id > min_id}
    /\ UNCHANGED <<slab_id, svp, id, alive>>

\* lsregion_gc of everything, then the cached slab is unmapped too; the
\* fields that tell of it are left as they are.
lsregion_destroy ==
    LET ordinary == SelectSeq(slabs, LAMBDA s : s.slab_size <= slab_size)
        large == SelectSeq(slabs, LAMBDA s : s.slab_size > slab_size)
        last == IF cached \/ ordinary # <<>> THEN 1 ELSE 0
        unmapped == Len(ordinary) + (IF cached THEN 1 ELSE 0)
    IN  /\ slabs' = <<>>
        /\ used' = used - Sum(LAMBDA s : s.slab_used - lslab_sizeof, slabs)
        /\ quota' = quota - Sum(LAMBDA s : s.slab_size, large)
        /\ total' = total - Sum(LAMBDA s : s.slab_size, large) - (unmapped - last) * slab_size
        /\ mapped' = mapped - unmapped
        /\ cached' = (last = 1)
        /\ chunks' = {}
        /\ alive' = FALSE
        /\ UNCHANGED <<slab_id, svp, id>>

-----------------------------------------------------------------------------
\* The slabs lsregion_to_iovec looks at: those before the first unused one.
Used == SubSeq(slabs, 1, Min({Len(slabs)} \cup
           {i - 1 : i \in {j \in 1 .. Len(slabs) : slabs[j].max_id = LSLAB_NOT_USED_ID}}))

\* The slab has allocations behind the savepoint.
IsNew(s) ==
    \/ s.slab_id > svp.slab_id
    \/ s.slab_id = svp.slab_id /\ s.slab_used - lslab_sizeof # svp.pos

\* The slabs that are flushed into an array of max entries, and the offset
\* from which on.
Flushed(max) ==
    LET new == SelectSeq(Used, IsNew)
    IN  SubSeq(new, 1, Min({max, Len(new)}))

FlushedFrom(s) == lslab_sizeof + (IF s.slab_id = svp.slab_id THEN svp.pos ELSE 0)

lsregion_to_iovec(max) ==
    LET flushed == Flushed(max)
    IN  /\ flushed # <<>>
        /\ svp' = [slab_id |-> Last(flushed).slab_id,
                   pos |-> Last(flushed).slab_used - lslab_sizeof]
        /\ slabs' = [i \in 1 .. Len(slabs) |->
                       IF slabs[i] \in ToSet(flushed) THEN [slabs[i] EXCEPT !.seen = slabs[i].slab_used]
                       ELSE slabs[i]]
        /\ UNCHANGED <<cached, slab_id, total, used, quota, mapped, id, chunks, alive>>

Next ==
    /\ alive
    /\ \/ \E alignment \in Alignments, base \in Bases :
             \/ \E size \in Reserves : lsregion_aligned_reserve(size, alignment, base)
             \/ \E size \in Sizes, chunk_id \in Max({1, id}) .. MaxId :
                   lsregion_aligned_alloc(size, alignment, chunk_id, base)
       \/ \E min_id \in 0 .. MaxId : lsregion_gc(min_id)
       \/ \E max \in IovCounts : lsregion_to_iovec(max)
       \/ lsregion_destroy

Spec == Init /\ [][Next]_vars
-----------------------------------------------------------------------------
\* A chunk the caller has not given up by its id is in a slab of the list,
\* within the part in use: lsregion_gc looks at one id per slab and stops at
\* the first slab it keeps.
ChunksKept ==
    \A c \in chunks : \E i \in 1 .. Len(slabs) :
        slabs[i].slab_id = c.slab_id /\ lslab_sizeof <= c.from /\ c.to <= slabs[i].slab_used

\* Chunks do not overlap, also after slabs were dropped, cached and taken
\* again, and lie within their slab: the assert at the end of reserve_slow.
ChunksApart ==
    /\ \A c, d \in chunks : c # d /\ c.slab_id = d.slab_id => c.to <= d.from \/ d.to <= c.from
    /\ \A i \in 1 .. Len(slabs) : slabs[i].slab_used <= slabs[i].slab_size

\* lsregion_used and lsregion_total, the quota and the arena account for the
\* slabs of the list and the cached one, and lsregion_destroy returns all.
StatsMatch ==
    LET large == SelectSeq(slabs, LAMBDA s : s.slab_size > slab_size)
    IN  /\ used = Sum(LAMBDA s : s.slab_used - lslab_sizeof, slabs)
        /\ quota = Sum(LAMBDA s : s.slab_size, large)
        /\ mapped = Len(slabs) - Len(large) + (IF cached /\ alive THEN 1 ELSE 0)
        /\ alive => total = quota + mapped * slab_size

\* Every byte is flushed once: whatever was allocated, dropped or reused
\* since the savepoint, what lsregion_to_iovec hands out starts where it
\* ended before in that slab.
FlushedOnce ==
    \A max \in IovCounts : \A s \in ToSet(Flushed(max)) :
        FlushedFrom(s) = s.seen /\ s.seen <= s.slab_used

\* "Flush all the lsregion contents to the provided iovec": the oldest slabs
\* with bytes not seen yet, as many as there are entries.
FlushesAll ==
    LET unseen == SelectSeq(slabs, LAMBDA s : s.seen < s.slab_used)
    IN  \A max \in IovCounts :
            ToSet(SubSeq(unseen, 1, Min({max, Len(unseen)}))) \subseteq ToSet(Flushed(max))
=============================================================================
