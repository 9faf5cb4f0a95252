------------------------------- MODULE Region -------------------------------
(***************************************************************************)
(* The region allocator of include/small/region.h and small/region.c:      *)
(* memory is taken from the first slab of a list, a new slab goes to the   *)
(* front, and all that was allocated after some point is released at once. *)
(*                                                                         *)
(* A slab is its size and the bytes its user wrote, used being how many.   *)
(* A byte is the number of bytes in the region when it was written.        *)
(* tracked is what a user of the callbacks believes region_used to be.     *)
(* slab_get is used as SlabCache promises it, and may fail.  A region      *)
(* belongs to one thread, so a call is one step.                           *)
(***************************************************************************)
EXTENDS Integers, Sequences, FiniteSets, FiniteSetsExt, SequencesExt

CONSTANTS OrderSizes,    \* sizes of ordered slabs
          rslab_sizeof,  \* bytes in the header of a slab
          Sizes,         \* sizes callers ask for
          Alignments,    \* alignments callers ask for
          UsesReset,     \* the caller calls region_reset
          MaxUsed        \* bound: bytes in the region

\* What the constants are taken to be.
RegionAssumption ==
    /\ OrderSizes \subseteq Nat /\ rslab_sizeof \in Nat
    /\ Sizes \subseteq Nat \ {0} /\ Alignments \subseteq Nat \ {0}
    /\ UsesReset \in BOOLEAN /\ MaxUsed \in Nat

VARIABLES slabs,     \* region->slabs, newest first
          total,     \* region->slabs.stats.total
          used,      \* region->slabs.stats.used
          reserved,  \* region->reserved
          tracked    \* region_used according to the callbacks

vars == <<slabs, total, used, reserved, tracked>>

TypeOK ==
    /\ slabs \in Seq([size : Nat, data : Seq(Nat)])
    /\ total \in Nat /\ used \in Nat /\ tracked \in Nat
    /\ reserved \in BOOLEAN

\* region_create
Init == slabs = <<>> /\ total = 0 /\ used = 0 /\ reserved = FALSE /\ tracked = 0

-----------------------------------------------------------------------------
rslab_unused(s) == s.size - rslab_sizeof - Len(s.data)

HasRoom(size) == slabs # <<>> /\ size <= rslab_unused(Head(slabs))

\* The size of the slab slab_get gives for size bytes behind an rslab header.
SlabSize(size) ==
    LET real == size + rslab_sizeof
        fit == {o \in OrderSizes : real <= o}
    IN  IF fit = {} THEN real ELSE Min(fit)

\* region_reserve and region_reserve_slow: the slabs they leave.
Reserved(size) ==
    IF HasRoom(size) THEN slabs
    ELSE <<[size |-> SlabSize(size), data |-> <<>>]>> \o slabs

ReservedTotal(size) == IF HasRoom(size) THEN total ELSE total + SlabSize(size)

region_reserve(size) ==
    /\ ~reserved
    /\ slabs' = Reserved(size)
    /\ total' = ReservedTotal(size)
    /\ reserved' = TRUE
    /\ UNCHANGED <<used, tracked>>

\* region_reserve(size) followed by the allocation of data from the slab
\* that is the first one then.
Alloc(size, data) ==
    LET list == Reserved(size)
    IN  /\ slabs' = [list EXCEPT ![1].data = @ \o data]
        /\ total' = ReservedTotal(size)
        /\ used' = used + Len(data)
        /\ tracked' = tracked + Len(data)
        /\ reserved' = FALSE

\* n bytes written now.
Fresh(n) == [i \in 1 .. n |-> used + i]

region_alloc(size) == used + size <= MaxUsed /\ Alloc(size, Fresh(size))

\* region_alloc and region_aligned_alloc when slab_get fails: an earlier
\* reservation is forgotten all the same.
AllocFails(size) ==
    /\ ~HasRoom(size)
    /\ reserved' = FALSE
    /\ UNCHANGED <<slabs, total, used, tracked>>

small_align(pos, alignment) == ((pos - 1 + alignment) \div alignment) * alignment

\* What region_aligned_reserve asks region_reserve for.
AlignedSize(size, alignment) == size + alignment - 1

\* region_aligned_alloc; slabs start at multiples of every alignment.
region_aligned_alloc(size, alignment) ==
    LET wanted == AlignedSize(size, alignment)
        end == rslab_sizeof + Len(Head(Reserved(wanted)).data)
        effective_size == small_align(end, alignment) - end + size
    IN  /\ used + effective_size <= MaxUsed
        /\ Alloc(wanted, Fresh(effective_size))

region_reset ==
    /\ slabs # <<>>
    /\ used' = used - Len(Head(slabs).data)
    /\ slabs' = [slabs EXCEPT ![1].data = <<>>]
    /\ reserved' = FALSE
    /\ UNCHANGED <<total, tracked>>

region_free ==
    /\ slabs' = <<>> /\ total' = 0 /\ used' = 0
    /\ tracked' = 0
    /\ reserved' = FALSE

region_free_after(after) == used > after /\ region_free

\* Bytes in the first n slabs.
Bytes(n) == FoldLeft(LAMBDA acc, s : acc + Len(s.data), 0, SubSeq(slabs, 1, n))

\* How many slabs region_truncate removes entirely to cut this many bytes.
Whole(cut) == Max({n \in 0 .. Len(slabs) : Bytes(n) <= cut})

\* "This is the last slab to trim."
Trim(data, cut) == SubSeq(data, 1, Len(data) - cut)

region_truncate(to) ==
    LET n == Whole(used - to)
        rest == SubSeq(slabs, n + 1, Len(slabs))
        cut == used - to - Bytes(n)
        sizes == FoldLeft(LAMBDA acc, s : acc + s.size, 0, SubSeq(slabs, 1, n))
    IN  /\ to <= used
        /\ slabs' = IF rest = <<>> THEN rest
                    ELSE [rest EXCEPT ![1].data = Trim(@, cut)]
        /\ total' = total - sizes
        /\ used' = to
        /\ tracked' = to
        /\ reserved' = FALSE

-----------------------------------------------------------------------------
\* Altered form of Joined: the beginning of the last slab is copied.
JoinedShort(size) ==
    FoldLeft(LAMBDA acc, s :
               LET offset == size - Len(acc)
               IN  IF Len(s.data) <= offset THEN s.data \o acc
                   ELSE SubSeq(s.data, 1, offset) \o acc,
             <<>>, slabs)

\* The copy loop of region_join: from the newest slab on, whole slabs as
\* long as they fit, then the end of one.
Joined(size) ==
    FoldLeft(LAMBDA acc, s :
               LET offset == size - Len(acc)
               IN  IF Len(s.data) <= offset THEN s.data \o acc
                   ELSE SubSeq(s.data, Len(s.data) - offset + 1, Len(s.data)) \o acc,
             <<>>, slabs)

region_join(size) ==
    /\ ~reserved /\ size <= used
    /\ slabs # <<>> /\ Len(Head(slabs).data) < size   \* otherwise nothing is moved
    /\ used + size <= MaxUsed
    /\ Alloc(size, Joined(size))

Next ==
    \/ \E size \in Sizes :
          \/ region_reserve(size) \/ region_alloc(size) \/ region_join(size)
          \/ AllocFails(size)
          \/ \E alignment \in Alignments :
                \/ region_aligned_alloc(size, alignment)
                \/ AllocFails(AlignedSize(size, alignment))
    \/ UsesReset /\ region_reset
    \/ region_free
    \/ \E n \in 0 .. used : region_free_after(n) \/ region_truncate(n)

Spec == Init /\ [][Next]_vars
-----------------------------------------------------------------------------
\* All bytes of the region, oldest first.
Log == FoldLeft(LAMBDA acc, s : s.data \o acc, <<>>, slabs)

\* region_used and region_total are the bytes in the slabs and the slabs'
\* sizes: the loop of region_truncate relies on it to end with nothing left
\* to cut.
StatsMatch ==
    /\ used = Len(Log)
    /\ total = FoldLeft(LAMBDA acc, s : acc + s.size, 0, slabs)

\* What is allocated fits into its slab, with any padding: the asserts of
\* region_alloc and region_aligned_alloc.
FitsSlab == \A s \in ToSet(slabs) : rslab_sizeof + Len(s.data) <= s.size

\* region_truncate to an earlier region_used releases what came after it,
\* in whatever slabs it is, and nothing that came before.
TruncateKeepsPrefix ==
    [][\A n \in 0 .. used :
          region_truncate(n) => FoldLeft(LAMBDA acc, s : s.data \o acc, <<>>, slabs')
                                = SubSeq(Log, 1, n)]_vars

\* region_join appends a copy of the last size bytes, in one piece.
JoinCopies ==
    [][\A size \in Sizes :
          region_join(size) =>
             LET data == Head(slabs').data
             IN  SubSeq(data, Len(data) - size + 1, Len(data))
                 = SubSeq(Log, Len(Log) - size + 1, Len(Log))]_vars

\* Whoever adds up what on_alloc_cb reports and takes over what
\* on_truncate_cb reports knows region_used.
CallbacksTrack == tracked = used

\* region_reset: "Mark region as empty, but keep the blocks."
ResetEmpties == [][region_reset => used' = 0]_vars
=============================================================================
