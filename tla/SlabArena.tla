----------------------------- MODULE SlabArena -----------------------------
(***************************************************************************)
(* The slab arena of small/slab_arena.c: the source of large, equal,       *)
(* aligned slabs that all slab caches of a process share.  slab_map takes  *)
(* a slab from the lock-free cache, or else charges the quota, claims a    *)
(* piece of the preallocated area and, when that is used up, asks the      *)
(* operating system.  slab_unmap puts a slab into the cache.               *)
(*                                                                         *)
(* Threads interleave between the atomic operations of slab_map.  One call *)
(* of lf_lifo_push, lf_lifo_pop, quota_use and quota_release is one step:  *)
(* modules LfLifo and Quota show that they are atomic.  arena->used and    *)
(* arena->prealloc are counted in slabs, the quota in its own units.       *)
(***************************************************************************)
EXTENDS Integers, Sequences, FiniteSets

CONSTANTS Threads,
          SlabUnits,   \* slab_size, in units of the quota
          Totals,      \* limits the quota may be given, in units
          Preallocs,   \* prealloc arguments of slab_arena_create, in units
          OtherUnits,  \* amounts another user of the quota takes at once
          MaxOs        \* places where the operating system can map a slab

ASSUME SlabArenaAssumption ==
    /\ IsFiniteSet(Threads)
    /\ SlabUnits \in Nat \ {0}
    /\ Totals \subseteq Nat
    /\ Preallocs \subseteq Nat
    /\ OtherUnits \subseteq Nat \ {0}
    /\ MaxOs \in Nat

VARIABLES prealloc,   \* arena->prealloc
          used,       \* arena->used
          quota,      \* arena->quota: [total, used]
          cache,      \* arena->cache, top first
          os,         \* slabs mapped one by one
          area,       \* whether the preallocated area is mapped
          alive,      \* slab_arena_destroy has not been called
          pc,         \* where each thread is in slab_map
          given,      \* the slabs each thread got and has not returned
          other       \* units charged by the other user of the quota

vars == <<prealloc, used, quota, cache, os, area, alive, pc, given, other>>

\* Addresses: piece i of the preallocated area, or a separate mapping.
Slot(i) == <<"arena", i>>
OsSlabs == {<<"os", k>> : k \in 1 .. MaxOs}
Slots(n) == {Slot(i) : i \in 0 .. n - 1}
Slabs == {Slot(i) : i \in Nat} \cup OsSlabs

PCs == {"idle", "pop", "quota", "add", "mmap", "sub", "release"}

TypeOK ==
    /\ prealloc \in Nat
    /\ used \in Nat
    /\ quota \in [total : Nat, used : Nat]
    /\ cache \in Seq(Slots(prealloc) \cup OsSlabs)
    /\ os \subseteq OsSlabs
    /\ area \in BOOLEAN /\ alive \in BOOLEAN
    /\ pc \in [Threads -> PCs]
    /\ given \in [Threads -> SUBSET (Slots(prealloc) \cup OsSlabs)]
    /\ other \in Nat

MIN(a, b) == IF a < b THEN a ELSE b

\* MIN(prealloc, quota_total(quota)), aligned up to whole slabs.
PreallocSlabs(arg, total) == (MIN(arg, total) + (SlabUnits - 1)) \div SlabUnits

\* A successful slab_arena_create.
Init ==
    /\ \E total \in Totals, arg \in Preallocs :
          /\ prealloc = PreallocSlabs(arg, total)
          /\ quota = [total |-> total, used |-> 0]
    /\ used = 0
    /\ cache = <<>>
    /\ os = {}
    /\ area = (prealloc > 0)
    /\ alive = TRUE
    /\ pc = [t \in Threads |-> "idle"]
    /\ given = [t \in Threads |-> {}]
    /\ other = 0

Goto(t, label) == pc' = [pc EXCEPT ![t] = label]
Give(t, slab) == given' = [given EXCEPT ![t] = @ \cup {slab}]

-----------------------------------------------------------------------------
\* slab_map
MapCall(t) ==
    /\ alive
    /\ pc[t] = "idle"
    /\ Goto(t, "pop")
    /\ UNCHANGED <<prealloc, used, quota, cache, os, area, alive, given, other>>

\* The cache has a slab: take it.
MapPop(t) ==
    /\ pc[t] = "pop"
    /\ cache # <<>>
    /\ cache' = Tail(cache)
    /\ Give(t, cache[1])
    /\ Goto(t, "idle")
    /\ UNCHANGED <<prealloc, used, quota, os, area, alive, other>>

MapPopEmpty(t) ==
    /\ pc[t] = "pop"
    /\ cache = <<>>
    /\ Goto(t, "quota")
    /\ UNCHANGED <<prealloc, used, quota, cache, os, area, alive, given, other>>

MapQuota(t) ==
    /\ pc[t] = "quota"
    /\ quota.used + SlabUnits <= quota.total
    /\ quota' = [quota EXCEPT !.used = @ + SlabUnits]
    /\ Goto(t, "add")
    /\ UNCHANGED <<prealloc, used, cache, os, area, alive, given, other>>

\* Altered form of MapQuotaFail: the claim is taken back before it is made.
MapQuotaFailRollback(t) ==
    /\ pc[t] = "quota"
    /\ quota.used + SlabUnits > quota.total
    /\ used' = used - 1
    /\ Goto(t, "idle")
    /\ UNCHANGED <<prealloc, quota, cache, os, area, alive, given, other>>

\* The limit is reached: return NULL.
MapQuotaFail(t) ==
    /\ pc[t] = "quota"
    /\ quota.used + SlabUnits > quota.total
    /\ Goto(t, "idle")
    /\ UNCHANGED <<prealloc, used, quota, cache, os, area, alive, given, other>>

InPrealloc(n) == n <= prealloc

\* fetch_add on arena->used; what it returns decides where the slab is.
MapAdd(t) ==
    /\ pc[t] = "add"
    /\ used' = used + 1
    /\ IF InPrealloc(used + 1)
       THEN Give(t, Slot(used)) /\ Goto(t, "idle")
       ELSE UNCHANGED given /\ Goto(t, "mmap")
    /\ UNCHANGED <<prealloc, quota, cache, os, area, alive, other>>

MapOs(t, slab) ==
    /\ pc[t] = "mmap"
    /\ os' = os \cup {slab}
    /\ Give(t, slab)
    /\ Goto(t, "idle")
    /\ UNCHANGED <<prealloc, used, quota, cache, area, alive, other>>

MapOsFail(t) ==
    /\ pc[t] = "mmap"
    /\ Goto(t, "sub")
    /\ UNCHANGED <<prealloc, used, quota, cache, os, area, alive, given, other>>

\* Altered form of MapSub: the claim on arena->used is kept.
MapSubMissing(t) ==
    /\ pc[t] = "sub"
    /\ Goto(t, "release")
    /\ UNCHANGED <<prealloc, used, quota, cache, os, area, alive, given, other>>

MapSub(t) ==
    /\ pc[t] = "sub"
    /\ used' = used - 1
    /\ Goto(t, "release")
    /\ UNCHANGED <<prealloc, quota, cache, os, area, alive, given, other>>

\* Altered form of MapRelease: the quota stays charged.
MapReleaseMissing(t) ==
    /\ pc[t] = "release"
    /\ Goto(t, "idle")
    /\ UNCHANGED <<prealloc, used, quota, cache, os, area, alive, given, other>>

MapRelease(t) ==
    /\ pc[t] = "release"
    /\ quota' = [quota EXCEPT !.used = @ - SlabUnits]
    /\ Goto(t, "idle")
    /\ UNCHANGED <<prealloc, used, cache, os, area, alive, given, other>>

\* slab_unmap
Unmap(t, slab) ==
    /\ pc[t] = "idle"
    /\ slab \in given[t]
    /\ given' = [given EXCEPT ![t] = @ \ {slab}]
    /\ cache' = <<slab>> \o cache
    /\ UNCHANGED <<prealloc, used, quota, os, area, alive, pc, other>>

\* A slab may be returned by another thread than the one that got it.
HandOver(t, u, slab) ==
    /\ slab \in given[t]
    /\ u # t
    /\ given' = [given EXCEPT ![t] = @ \ {slab}, ![u] = @ \cup {slab}]
    /\ UNCHANGED <<prealloc, used, quota, cache, os, area, alive, pc, other>>

-----------------------------------------------------------------------------
\* The other users of the quota, and changes of the limit (module Quota).
OtherUse(n) ==
    /\ quota.used + n <= quota.total
    /\ quota' = [quota EXCEPT !.used = @ + n]
    /\ other' = other + n
    /\ UNCHANGED <<prealloc, used, cache, os, area, alive, pc, given>>

OtherRelease(n) ==
    /\ n <= other
    /\ quota' = [quota EXCEPT !.used = @ - n]
    /\ other' = other - n
    /\ UNCHANGED <<prealloc, used, cache, os, area, alive, pc, given>>

\* Altered form of SetTotal: the usage is not looked at.
SetTotalBlind(total) ==
    /\ quota' = [quota EXCEPT !.total = total]
    /\ UNCHANGED <<prealloc, used, cache, os, area, alive, pc, given, other>>

SetTotal(total) ==
    /\ total >= quota.used
    /\ quota' = [quota EXCEPT !.total = total]
    /\ UNCHANGED <<prealloc, used, cache, os, area, alive, pc, given, other>>

\* All slabs have been returned and no call is in progress.
Quiet == \A t \in Threads : pc[t] = "idle" /\ given[t] = {}

Cached == {cache[i] : i \in 1 .. Len(cache)}

\* Altered form of slab_arena_destroy: the cached slabs are only counted.
slab_arena_destroyCountOnly ==
    /\ alive /\ Quiet
    /\ alive' = FALSE
    /\ cache' = <<>>
    /\ area' = FALSE
    /\ UNCHANGED <<prealloc, used, quota, os, pc, given, other>>

\* The cached slabs outside the preallocated area are unmapped one by one,
\* the area as a whole.
slab_arena_destroy ==
    /\ alive /\ Quiet
    /\ alive' = FALSE
    /\ cache' = <<>>
    /\ os' = os \ (Cached \ Slots(prealloc))
    /\ area' = FALSE
    /\ UNCHANGED <<prealloc, used, quota, pc, given, other>>

Next ==
    \/ \E t \in Threads :
          \/ MapCall(t)
          \/ MapPop(t)
          \/ MapPopEmpty(t)
          \/ MapQuota(t)
          \/ MapQuotaFail(t)
          \/ MapAdd(t)
          \/ \E slab \in OsSlabs \ os : MapOs(t, slab)
          \/ MapOsFail(t)
          \/ MapSub(t)
          \/ MapRelease(t)
          \/ \E slab \in given[t] : Unmap(t, slab)
          \/ \E u \in Threads, slab \in given[t] : HandOver(t, u, slab)
    \/ \E n \in OtherUnits : OtherUse(n) \/ OtherRelease(n)
    \/ \E total \in Totals : SetTotal(total)
    \/ slab_arena_destroy

Spec == Init /\ [][Next]_vars
-----------------------------------------------------------------------------
\* The slabs that exist for the users of the arena.
Live == Cached \cup UNION {given[t] : t \in Threads}

\* Threads that have claimed space and do not have a slab yet.
Claiming == {t \in Threads : pc[t] \in {"mmap", "sub"}}
\* Threads whose charge is not (or no longer) matched by arena->used.
Charged == {t \in Threads : pc[t] \in {"add", "release"}}

\* slab_map never gives one slab to two callers, whichever way the callers'
\* pops, claims and failed mappings interleave.
OneOwner ==
    /\ \A i, j \in 1 .. Len(cache) : cache[i] = cache[j] => i = j
    /\ \A t \in Threads : \A slab \in given[t] : slab \notin Cached
    /\ \A t, u \in Threads : \A slab \in given[t] : slab \in given[u] => t = u

\* arena->used counts exactly the slabs that exist and the claims on their
\* way; once a quiet arena is destroyed, every byte of it is in the cache:
\* slab_arena_destroy asserts total == arena->used.
UsedIsLive == alive => used = Cardinality(Live) + Cardinality(Claiming)

\* A charge of the quota is never lost or doubled when a mapping fails.
QuotaMatches ==
    quota.used = SlabUnits * (used + Cardinality(Charged)) + other

\* The memory in use never exceeds the limit of the moment, lowered limits
\* and failing mappings included.
WithinLimit == alive => SlabUnits * Cardinality(Live) + other <= quota.total

\* The preallocated area is used up before the operating system is asked,
\* and a failed mapping neither skips nor repeats a piece of it.
PreallocFirst ==
    alive => /\ Live \cap Slots(prealloc) = Slots(MIN(used, prealloc))
             /\ Live \ Slots(prealloc) = os
             /\ os # {} \/ Claiming # {} => used >= prealloc

\* After slab_arena_destroy nothing stays mapped.
NothingLeft == ~alive => os = {} /\ ~area
=============================================================================
