# A TLA+ verification of `small`

`small` is the memory allocator library of Tarantool: a stack of allocators
that share one memory limit. This directory holds TLA+ models of its parts,
TLC configurations that check them on small instances, and TLAPS proofs of the
most important results for instances of any size.

## The system

| part | files | state | operations |
|---|---|---|---|
| quota | `include/small/quota.h` | one 64-bit word: limit and usage in 1 KiB units | `quota_init`, `quota_set`, `quota_use`, `quota_release` |
| quota_lessor | `include/small/quota_lessor.h` | bytes taken from the quota and bytes leased, per thread | `quota_lease`, `quota_end_lease`, `quota_lessor_destroy` |
| lf_lifo | `include/small/lf_lifo.h` | a head pointer with a 16-bit ABA counter, links inside the elements | `lf_lifo_push`, `lf_lifo_pop` |
| slab_arena | `small/slab_arena.c` | cache of free slabs (lf_lifo), preallocated area, `used` | `create`, `slab_map`, `slab_unmap`, `destroy` |
| slab_cache | `small/slab_cache.c`, `include/small/slab_list.h` | buddy system: free lists per order, the list of arena slabs, statistics | `slab_get*`, `slab_put*`, `destroy` |
| mempool | `small/mempool.c` | slabs of objects of one size: hot tree, cold list, spare, garbage lists | `mempool_alloc`, `mempool_free`, `mempool_free_spare_slab`, `destroy` |
| small_class | `include/small/small_class.h`, `small/small_class.c` | parameters of a size class system | size of a class, class of a size |
| small_alloc | `small/small.c` | pools in groups of one slab order, which are active, waste per class | `smalloc`, `smfree`, `create`, `destroy` |
| lsregion | `small/lsregion.c` | list of slabs with ids, cached slab, statistics | reserve, alloc, `lsregion_gc`, `lsregion_to_iovec` |
| region | `small/region.c` | list of slabs, newest first, callbacks | alloc, reserve, `region_truncate`, `region_join`, `region_reset`, `region_free` |
| ibuf | `small/ibuf.c` | one slab with read and write position | reserve, alloc, consume, discard, truncate, reset, shrink, reinit |
| obuf | `small/obuf.c` | vector of slabs, position, savepoints | reserve, alloc, dup, rollback, reset, destroy |
| static | `include/small/static.h` | thread-local cyclic buffer and its position | reserve, alloc, aligned variants |
| rb | `include/small/rb.h` | left-leaning red-black tree without parent pointers, augmented | insert, remove, searches, iterators, walks |
| rlist | `include/small/rlist.h` | circular doubly linked lists, links inside the entries | add, del, move, swap, splice, cut, loops |
| matras | `small/matras.c` | blocks in extents behind two levels of tables, read views that share extents | alloc, dealloc, touch, reserve, create and destroy views |

The quota, the lock-free stack and the arena are shared by threads; a slab
cache and everything above it belong to one thread each. The arena charges the
quota for slabs it maps and keeps free slabs on an lf_lifo. Slab caches map
slabs from the arena and split them. Mempools, regions and buffers get slabs
from a slab cache, lsregion directly from the arena; small_alloc is a set of
mempools. A mempool keeps its hot slabs in an rb tree, and every list of slabs
is an rlist. Large requests go to `malloc()` and are charged to the quota by the
slab cache or by lsregion. matras has an allocator of extents of its own.

What is hard about it:

- two lock-free structures: a stale load before a compare-exchange, ABA, lost
  updates, reads of an element somebody else already owns;
- `slab_map` is a sequence of atomic steps with errors that are rolled back
  while other threads run;
- in the slab cache and the mempool long sequences of legal calls must never
  bring a slab into two lists, hide free memory, or follow a stale header;
- arithmetic at boundaries: rounding to units, orders, alignment, size classes;
- calls that fail half-way (an allocation in the middle of a copy);
- trees and lists whose every pointer assignment counts, at their smallest
  sizes most of all;
- data that must survive moving, truncation, rollback, and sharing with views.

## Modules

| module | models | notes |
|---|---|---|
| `AtomicQuota`, `AtomicStack` | what quota and lf_lifo promise | each call takes effect in one step |
| `Quota` | `quota.h` at its loads and compare-exchanges | implements `AtomicQuota` |
| `LfLifo` | `lf_lifo.h` at its shared accesses | implements `AtomicStack` |
| `SlabArena` | `slab_arena.c` | composes the atomic stack and quota with the arena's own atomics |
| `SlabCache` | `slab_cache.c`, `slab_list.h` | headers are kept by address, stale ones included |
| `Mempool` | `mempool.c` | over a slab cache that gives a new slab or fails |
| `SmallPools` | `small_class.h`, creation in `small.c` | one behaviour computes the layout of one allocator |
| `SmallAlloc` | use in `small.c` | over mempools, with one memory limit for all pools |
| `QuotaLessor` | `quota_lessor.h` | threads interleave between attempts |
| `Lsregion`, `Region`, `Ibuf`, `Obuf`, `Static` | the files of these names | contents are sequences of small values, so that data moved wrongly is seen |
| `Matras` | `matras.c`, `matras.h` | contents are abstracted to which blocks may be written |
| `RbTree` | `rb.h` | every rotation and recolouring; the augmentation is the set of nodes below |
| `RList` | `rlist.h` | every assignment to `prev` and `next`, next to the sequences the lists are to be |
| `QuotaProofs`, `LfLifoProofs`, `SlabArenaProofs`, `MempoolProofs`, `QuotaLessorProofs`, `SmallAllocProofs`, `StaticProofs` | theorems | see below |
| `NumberLemmas` | lemmas on numbers, finite sets and sums | shared by the last four |
| `MC*` | instances for TLC | `MCBuffers`, `MCContainers`, `MCSmall` and `MCMatras` run several instances; `part` tells which |

Names follow the code: an action is named after its function, a constant after
its macro or field. A call of a single-threaded part is one step, with
everything it calls. Where a call can fail, the failure is a choice inside the
action (`got`, `ok`), with all the effects the code has had by then. Shared
parts have one action per atomic access. An operator called "altered form"
stands next to the one it varies; it is what a plausible mistake there would
look like, and shows that the property named in `PROJECT.json` notices it.

Layers are used by their promises: `SlabArena` uses one step for
`lf_lifo_push`, `lf_lifo_pop`, `quota_use` and `quota_release`, because
`LfLifo` and `Quota` are shown to implement the atomic versions; `SlabCache`
gets from the arena slabs that nobody has (`OneOwner`); `Mempool`, `Region`,
`Ibuf` and `Obuf` get slabs from a slab cache that keeps them apart (`Tiled`);
`SmallAlloc` relies on groups as `SmallPools` shows them to be; a tree is a set
ordered by address and a list a sequence in all of them, which is what
`RbFindsAll` and `RListsAreLinked` say of `RbTree` and `RList`.

## Runs

`tlc -config X.cfg M` with the pairs of `PROJECT.json`. All passing runs are
exhaustive within their bounds.

| run | what it shows | bounds, and why they are enough |
|---|---|---|
| `quota` | usage within the limit, no lost update, linearizability, lock-freedom | 2 threads; 3 limits and 3 sizes, one of them refused by size alone; units of 2 bytes so that rounding shows; one spurious failure a call. Every race here is between one load and one compare-exchange of another thread |
| `containers` | lf_lifo: the list is the stack, an element is in one place, linearizability; rb: order, balance and augmentation kept, searches, iterators and walks right; rlist: the links are the lists, loops survive removals | lf_lifo: 2 threads, 3 elements, a counter of 3 values and at most 2 pushes inside a pop, as ABA needs two pops and a push; rb: every tree that insertions and removals of 10 nodes reach, with 3 nodes a search key, which takes every rotation of insertion and removal; rlist: 2 heads and 3 entries, so that neighbours, single entries and empty lists all occur |
| `slab_arena` | one owner, `used` and quota exact, limit kept, nothing left | 3 threads, limits of 3 and 7 units with slabs of 2, preallocation of 0, 1 and 2 slabs (one of them rounded up past the limit), another user of the quota |
| `mempool` | objects in one place, first hot slab leftmost, one list, failure only when full | 3 slabs of 4 objects: hot from 2 free objects on, so every branch of `mslab_free` is taken |
| `small` | pools fit after any activation and sweep, waste never below zero; layout of pools; slab cache: memory tiled, buddies merged, statistics exact, headers safe, user memory untouched, best order | 4 pools in 2 groups, memory for 3 slabs; 208 choices of granularity, precision and sizes up to 200 bytes, some with more sizes than pools; 2 arena slabs of 3 orders, one large slab, sizes on both sides of each power of two |
| `quota_lessor` | lessors hold back a bounded amount, quota exact, `quota_lease` returns, and refuses only when the quota has less left than twice what is missing | 2 threads, `QUOTA_USE_MIN` of 4 units, sizes below and above it |
| `matras` | no dangling extent, views immutable, nothing lost, reservations suffice | 3 blocks with 1 view and failures, in extents of 1 (2 tables) and of 2; 2 blocks with 2 views in any order |
| `buffers` | lsregion, region, ibuf, obuf, static keep data and accounts | slabs of a few bytes, so that every call may cross a slab or fill it exactly |
| `matras_leak`, `matras_dealloc`, `lsregion_gap`, `small_idle` | disagreements, below | smallest instances that show them |

`CHECK_DEADLOCK FALSE` is said where the system may stop: after `destroy`, or
when the bounded history (ids, bytes, slabs) is used up.

Fairness: in `Quota` a thread inside a call takes its next step eventually (weak
fairness of a thread's step), and no thread has to make a call. That is what a
scheduler that does not stop a thread for ever gives; it does not promise that
a given compare-exchange succeeds, and `LockFree` claims only that some call
completes. `QuotaLessor` assumes the same of a thread inside `quota_lease`. No
other liveness property is claimed; all other operations are bounded loops
modelled as single steps.

## Proofs

Checked by `tlapm` for all values of the constants that satisfy the named
assumptions.

- `QuotaProofs`: type correctness, `UsedWithinTotal`, `UsedIsHeld` and the
  refinement of `AtomicQuota`, for any number of threads and any limits and
  sizes, under `NoWrap` (no limit plus request reaches 2^32 units). The
  invariants are not inductive alone: a compare-exchange that succeeds must be
  known to install what an earlier load justified. `IInv` adds `CallOK`: the
  loaded word of a thread about to exchange did not call for a refusal. The sum
  over threads is a function of running totals, which avoids induction.
- `LfLifoProofs`: type correctness, `OnePlace`, `ListIsStack` and the
  refinement of `AtomicStack`, for any threads and elements, under `NoTurn`
  (fewer pushes than the counter has values succeed inside one pop). `IInv` adds
  `PushOK` (nobody else writes the link of an element being pushed) and
  `PopOK` (the counter counts the pushes a pop has missed; if it has missed
  none and its element is still there, the link it read is still right).
- `SlabArenaProofs`: one inductive invariant that is the conjunction of all
  invariants of the run, `PreallocFirst` (pieces of the area are given out
  once, before any separate mapping) and what holds after `destroy`; each is a
  theorem. The threads are any finite set.
- `MempoolProofs`: type correctness, `ObjectsAccounted`, `FirstHotIsFirst`,
  `OneList`, `FailsOnlyWhenFull`, that the statistics are those of the slabs
  (`StatsMatch`), and that objects lie in their slab and do not overlap
  (`ObjectsApart`), for any number of slabs and any objects that fit a slab.
  The invariant says of each slab what its counters and its place in tree,
  list or spare say about each other, with what `mempool_free` relies on: a
  slab that is not listed is full.
- `QuotaLessorProofs`: `AvailableBounded`, `QuotaMatches` and the action property
  `RefusedOnlyWhenShort`, for any finite set of threads, any unit and any sizes.
  `AvailableBounded` is not inductive: it does not say what a lease under way
  asks for. `IInv` adds `LeaseCovers` (the portion asked for is at least what is
  missing, and if it is more, no more than `QUOTA_USE_MIN`), and that what each
  lessor took is in whole units.
- `SmallAllocProofs`: `RightPool` and, with type correctness, `WasteCovers`, for
  any pools and groups that `SmallAllocAssumption` admits, any memory and any
  number of objects. The invariant behind the first is that the last pool of
  every group stays active, so that `small_mempool_update_group` always finds
  one. The second needs the first: after a sweep `smalloc` counts the waste of
  the pool that would be used now, not of the one the object came from, and
  that is no less, as fewer pools are active.
- `StaticProofs`: allocations lie in the buffer, aligned and apart, and what is
  too large is refused, for a buffer of any size, any sizes and alignments,
  under `NoOverflow` (no sum of the buffer's size, a size and an alignment
  reaches `WordRange`). Without it the claim is false, see below.
- `NumberLemmas`: what takes the place of induction in the above. A set of
  naturals has a least element, so a minimal counterexample can be refuted.
  A sum over a finite set is described by a function that adds up every subset
  (`Adds`); such a function follows a change of one element, and by a minimal
  counterexample it is what `SumFunction` and `MapThenSumSet` compute.

Only model-checked:

- liveness (`LockFree`, `LeaseReturns`), which is out of the prover's reach;
- `SlabCache` and `Ibuf`, `Obuf`: orders and capacities are powers of two, and
  what is true of `2 ^ k` for every `k` needs induction over data;
- `SmallPools` and `RbTree`, which are recursive over data for the same reason;
- `Region`, `Lsregion`, `RList`: their contents are sequences that are cut and
  joined, which would need many lemmas about sequences for little more
  certainty than the bounds give;
- `Matras`: the number of tables and views multiplies the cases.

## Disagreements with the documentation

Four are runs:

- `matras_leak`: `matras_destroy_read_view` returns early when an older view
  has the same root (`matras.c:409`), although that view may have fewer blocks;
  extents only the newer view reaches are lost, and the assertion at the end of
  `matras_destroy` fails (`DestroyFreesAll`).
- `matras_dealloc`: `matras_dealloc` ignores a failed touch (`matras.c:267`) and
  frees the extents of the last block although a read view shows them; the
  memory is handed out again and written to (`ViewsImmutable`).
- `lsregion_gap`: `lsregion_to_iovec` stops at the first slab without
  allocations (`lsregion.c:109`), which need not be the last one: an abandoned
  reservation followed by a larger request hides what is written later
  (`LsregionFlushesAll`).
- `small_idle`: `smalloc` may allocate from the pool its own sweep has just
  deactivated (`small.c:340-360`); once the object is freed, the pool keeps an
  empty slab that later sweeps skip (`InactiveEmpty`).

Others were met with the same models. The property named is in the module, is
not part of a run, and fails when added to the run's configuration with the
change mentioned.

| property | where | what happens |
|---|---|---|
| `Quota` `UseDoesNotWrap` | `quota.h:144` | with a limit near `QUOTA_MAX` (without `NoWrap`), two accepted requests wrap the 32-bit sum that the assertion expects to grow |
| `LfLifo` `OnePlace` | `lf_lifo.h:103` | "grows monotonically": with `MaxWindow = AbaMod`, a pop overtaken by a full turn of the counter installs a stale link |
| `QuotaLessor` `FailsOnlyWithoutQuota` | `quota_lessor.h:116` | the loop tries `QUOTA_USE_MIN` and its halves, never the size required, and refuses a lease that would fit |
| `SmallAlloc` `WasteExact` | `small.c:358` | `used_pool` is read again after the sweep, and waste grows by memory that is not lost |
| `SmallAlloc` `DestroyFreesAll` | `small.h:192` | "Destroy the allocator and all allocated memory": objects above `objsize_max` stay in the slab cache |
| `Region` `ResetEmpties` | `region.h:305` | "Mark region as empty": only the newest slab is emptied (`UsesReset <- TRUE`) |
| `Ibuf` `PosStable` | `ibuf.h:106` | "stable in case of realloc": the position becomes 0 when the buffer moves |
| `Obuf` `VectorsDouble` | `obuf.h:107` | "at least twice as big as the previous one": a buffer enlarged for one request is followed by a smaller one |
| `Static` `TooLargeIsNull` | `static.h:67` | `static_storage_pos + size` may wrap before the size is compared (a size close to `WordRange`) |
| `Mempool` `OneEmptySlab` | `mempool.c:115` | with one object per slab, emptied slabs stay in the hot tree until `mempool_destroy` |
| `Mempool` `LinksApart` | `mempool.c:108` | with objects smaller than a pointer (`ptr_sizeof > objsize`) the link in a freed object reaches into the next one |

| `RbTree` `NsearchMinimal` | `rb.h:385` | "the minimal/maximal among the matching keys": `nsearch` finds the maximal match and `psearch` the minimal one, as the example below the comment says |
| `RbTree` `HeightIsLogarithm` | `rb.h:66` | the height iterators can follow is derived from the number of nodes as if the tree were perfectly balanced; a left-leaning tree may be higher |

## Not modelled

- `lifo.h`: three assignments that nothing else here uses; `LfLifo` models the
  lock-free form.
- the `*_asan` variants: debugging builds without slabs.
- page attributes and mapping flags of the arena (`mprotect`, `madvise`), the
  alignment work around `mmap`, `small_features`, `util`, third-party headers,
  benchmarks and packaging.
- weak memory: atomic operations are single, sequentially consistent steps, as
  the code asks for; plain accesses next to them are modelled where a thread
  may read what another one owns (`LfLifo`).
- statistics functions and iterators that only read.

## Plan

Built: all parts of the table above. What would add most next: a composition
of `SlabCache` with `Mempool` that checks the promises used between them in one
state space; views and failures of `Matras` together with more than one view;
proofs of `Region` and `Lsregion` over lemmas about sequences.
