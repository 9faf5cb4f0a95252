------------------------------- MODULE Static -------------------------------
(***************************************************************************)
(* The thread-local cyclic buffer of include/small/static.h.               *)
(*                                                                         *)
(* Sums of sizes are computed in a size_t, modulo WordRange.  last is what *)
(* the last call was asked for and returned, an offset into the buffer or  *)
(* Null.  chunks are the allocations since the position was last set to 0, *)
(* after which the buffer is used anew.                                    *)
(***************************************************************************)
EXTENDS Integers

CONSTANTS SMALL_STATIC_SIZE,
          WordRange,          \* SIZE_MAX + 1
          Base,               \* the address of static_storage_buffer
          Sizes,              \* sizes callers ask for
          Alignments,         \* alignments callers ask for
          Null

\* What the constants are taken to be.
StaticAssumption ==
    /\ SMALL_STATIC_SIZE \in Nat \ {0} /\ WordRange \in Nat \ {0} /\ Base \in Nat
    /\ SMALL_STATIC_SIZE < WordRange
    /\ Sizes \subseteq 0 .. WordRange - 1 /\ Alignments \subseteq Nat \ {0}
    /\ Null \notin Nat

VARIABLES static_storage_pos, last, chunks

vars == <<static_storage_pos, last, chunks>>

Chunk == [at : Nat, size : Nat, alignment : Nat]

TypeOK ==
    /\ static_storage_pos \in 0 .. SMALL_STATIC_SIZE
    /\ last \in [at : Nat \cup {Null}, size : Nat, alignment : Nat]
    /\ chunks \subseteq Chunk

Init ==
    /\ static_storage_pos = 0
    /\ last = [at |-> Null, size |-> 0, alignment |-> 1]
    /\ chunks = {}

-----------------------------------------------------------------------------
Recycles(size) == (static_storage_pos + size) % WordRange > SMALL_STATIC_SIZE

\* What static_reserve returns; the position afterwards, unless it is Null.
Reserved(size) ==
    IF Recycles(size) THEN IF size > SMALL_STATIC_SIZE THEN Null ELSE 0
    ELSE static_storage_pos

\* The chunks there are after static_reserve(size).
Kept(size) == IF Recycles(size) /\ size <= SMALL_STATIC_SIZE THEN {} ELSE chunks

static_reset ==
    /\ static_storage_pos' = 0
    /\ chunks' = {}
    /\ UNCHANGED last

static_reserve(size) ==
    LET res == Reserved(size)
    IN  /\ static_storage_pos' = IF res = Null THEN static_storage_pos ELSE res
        /\ chunks' = Kept(size)
        /\ last' = [at |-> res, size |-> size, alignment |-> 1]

\* A chunk of size bytes at res, or no change when res is Null.
Take(res, size, alignment, kept) ==
    LET chunk == [at |-> res, size |-> size, alignment |-> alignment]
    IN  /\ static_storage_pos' = IF res = Null THEN static_storage_pos
                                 ELSE (res + size) % WordRange
        /\ chunks' = IF res = Null THEN chunks ELSE kept \cup {chunk}
        /\ last' = chunk

static_alloc(size) == Take(Reserved(size), size, 1, Kept(size))

\* small_align of the address of an offset.
Aligned(at, alignment) == ((Base + at - 1 + alignment) \div alignment) * alignment - Base

AlignedSize(size, alignment) == (size + alignment - 1) % WordRange

static_aligned_reserve(size, alignment) ==
    LET unaligned == Reserved(AlignedSize(size, alignment))
    IN  /\ static_storage_pos' = IF unaligned = Null THEN static_storage_pos ELSE unaligned
        /\ chunks' = Kept(AlignedSize(size, alignment))
        /\ last' = [at |-> IF unaligned = Null THEN Null ELSE Aligned(unaligned, alignment),
                    size |-> size, alignment |-> alignment]

\* Altered form of static_aligned_alloc: the padding is not skipped.
static_aligned_allocPadded(size, alignment) ==
    LET unaligned == Reserved(AlignedSize(size, alignment))
        res == IF unaligned = Null THEN Null ELSE Aligned(unaligned, alignment)
        chunk == [at |-> res, size |-> size, alignment |-> alignment]
    IN  /\ static_storage_pos' = IF res = Null THEN static_storage_pos ELSE unaligned + size
        /\ chunks' = IF res = Null THEN chunks
                     ELSE Kept(AlignedSize(size, alignment)) \cup {chunk}
        /\ last' = chunk

static_aligned_alloc(size, alignment) ==
    LET unaligned == Reserved(AlignedSize(size, alignment))
    IN  Take(IF unaligned = Null THEN Null ELSE Aligned(unaligned, alignment),
             size, alignment, Kept(AlignedSize(size, alignment)))

Next ==
    \/ static_reset
    \/ \E size \in Sizes :
          \/ static_reserve(size) \/ static_alloc(size)
          \/ \E alignment \in Alignments :
                static_aligned_reserve(size, alignment) \/ static_aligned_alloc(size, alignment)

Spec == Init /\ [][Next]_vars
-----------------------------------------------------------------------------
\* Whatever was reserved or allocated last lies within the buffer and is
\* aligned as asked for.
WithinBuffer ==
    last.at # Null =>
       /\ last.at + last.size <= SMALL_STATIC_SIZE
       /\ (Base + last.at) % last.alignment = 0

\* static_alloc: "next allocations would not get the same pointer until the
\* buffer is recycled", nor any byte of another allocation, and nothing
\* reserved later overlaps them either.
ChunksApart ==
    \A c, d \in chunks \cup ({last} \cap Chunk) : c = d \/ c.at + c.size <= d.at \/ d.at + d.size <= c.at

\* static_reserve: "When size is bigger than the static buffer size, then
\* NULL is returned always."
TooLargeIsNull == last.size > SMALL_STATIC_SIZE => last.at = Null
=============================================================================
