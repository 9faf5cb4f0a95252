---------------------------- MODULE StaticProofs ----------------------------
(***************************************************************************)
(* What the cyclic buffer promises, for a buffer of any size at any        *)
(* address, any sizes and any alignments, as long as the sums the code     *)
(* computes do not wrap round.                                             *)
(***************************************************************************)
EXTENDS Static, TLAPS, NumberLemmas

NoOverflow ==
    \A size \in Sizes :
        /\ SMALL_STATIC_SIZE + size < WordRange
        /\ \A alignment \in Alignments : SMALL_STATIC_SIZE + size + alignment <= WordRange

Numbers ==
    /\ SMALL_STATIC_SIZE \in Nat \ {0} /\ WordRange \in Nat \ {0} /\ Base \in Nat
    /\ SMALL_STATIC_SIZE < WordRange
    /\ Null \notin Nat

\* What static_reserve returns has room for what was asked for; it is the
\* position, or the start of a buffer that is used anew.
LEMMA ReserveFits ==
    ASSUME Numbers, static_storage_pos \in 0 .. SMALL_STATIC_SIZE,
           NEW size \in Nat, SMALL_STATIC_SIZE + size < WordRange
    PROVE  /\ Reserved(size) \in Nat \cup {Null}
           /\ size > SMALL_STATIC_SIZE => Reserved(size) = Null
           /\ Reserved(size) # Null =>
                /\ Reserved(size) + size <= SMALL_STATIC_SIZE
                /\ \/ Reserved(size) = static_storage_pos /\ Kept(size) = chunks
                   \/ Reserved(size) = 0 /\ Kept(size) = {}
           /\ Reserved(size) = Null => Kept(size) = chunks
<1>1. (static_storage_pos + size) % WordRange = static_storage_pos + size
  <2>1. /\ static_storage_pos + size \in Nat /\ static_storage_pos + size < WordRange
        /\ WordRange \in Nat \ {0}
    BY DEF Numbers
  <2> QED
    BY <2>1, SmallMod
<1>2. Recycles(size) <=> static_storage_pos + size > SMALL_STATIC_SIZE
  BY <1>1 DEF Recycles
<1>3. CASE Recycles(size) /\ size > SMALL_STATIC_SIZE
  BY <1>3 DEF Reserved, Kept, Numbers
<1>4. CASE Recycles(size) /\ ~(size > SMALL_STATIC_SIZE)
  <2>1. Reserved(size) = 0 /\ Kept(size) = {} /\ 0 # Null
    BY <1>4 DEF Reserved, Kept, Numbers
  <2> QED
    BY <1>4, <2>1 DEF Numbers
<1>5. CASE ~Recycles(size)
  <2>1. Reserved(size) = static_storage_pos /\ Kept(size) = chunks
    BY <1>5 DEF Reserved, Kept
  <2>2. static_storage_pos \in Nat /\ static_storage_pos # Null
    BY DEF Numbers
  <2> QED
    BY <1>2, <1>5, <2>1, <2>2 DEF Numbers
<1> QED
  BY <1>3, <1>4, <1>5

\* Aligned rounds an address up, by less than the alignment.
LEMMA AlignedUp ==
    ASSUME Numbers, NEW at \in Nat, NEW alignment \in Nat \ {0}
    PROVE  /\ Aligned(at, alignment) \in Nat
           /\ at <= Aligned(at, alignment)
           /\ Aligned(at, alignment) < at + alignment
           /\ (Base + Aligned(at, alignment)) % alignment = 0
<1> DEFINE a == Base + at - 1 + alignment
           q == a \div alignment
<1>1. a \in Nat /\ Base \in Nat
  BY DEF Numbers
<1>2. a = Base + at - 1 + alignment
  OBVIOUS
<1>3. Aligned(at, alignment) = q * alignment - Base
  BY DEF Aligned
<1> HIDE DEF a
<1>4. q \in Nat /\ q * alignment <= a /\ a < q * alignment + alignment
  BY <1>1
<1> HIDE DEF q
<1>5. q * alignment \in Nat
  BY <1>4
<1>6. (q * alignment) % alignment = 0
  BY <1>4, MultipleMod
<1>7. Base + Aligned(at, alignment) = q * alignment
  BY <1>1, <1>3, <1>5
<1> QED
  BY <1>1, <1>2, <1>3, <1>4, <1>5, <1>6, <1>7
-----------------------------------------------------------------------------
Apart(c, d) == c = d \/ c.at + c.size <= d.at \/ d.at + d.size <= c.at

\* The chunks lie below the position, and what was returned last is one of
\* them or not below it.
IInv ==
    /\ TypeOK
    /\ \A c \in chunks : c.at + c.size <= static_storage_pos
    /\ \A c, d \in chunks : Apart(c, d)
    /\ \/ last.at = Null \/ last \in chunks \/ chunks = {}
       \/ last.at >= static_storage_pos
    /\ WithinBuffer
    /\ TooLargeIsNull

\* A reservation at res, which may be Null.
LEMMA ReserveInv ==
    ASSUME Numbers, IInv, NEW res \in Nat \cup {Null}, NEW size \in Nat,
           NEW alignment \in Nat \ {0},
           last' = [at |-> res, size |-> size, alignment |-> alignment],
           \/ chunks' = chunks /\ static_storage_pos' = static_storage_pos
           \/ chunks' = {} /\ static_storage_pos' = 0,
           res # Null => /\ static_storage_pos' <= res
                         /\ res + size <= SMALL_STATIC_SIZE
                         /\ (Base + res) % alignment = 0
    PROVE  IInv'
<1>1. TypeOK'
  BY DEF IInv, TypeOK, Numbers
<1>2. last'.at = res /\ last'.size = size /\ last'.alignment = alignment
  OBVIOUS
<1>3. /\ \A c \in chunks' : c.at + c.size <= static_storage_pos'
      /\ \A c, d \in chunks' : Apart(c, d)
  BY DEF IInv
<1>4. \/ last'.at = Null \/ last' \in chunks' \/ chunks' = {}
      \/ last'.at >= static_storage_pos'
  BY <1>1, <1>2 DEF TypeOK
<1>5. WithinBuffer'
  BY <1>2 DEF WithinBuffer
<1>6. TooLargeIsNull'
  BY <1>2 DEF TooLargeIsNull, Numbers
<1> QED
  BY <1>1, <1>3, <1>4, <1>5, <1>6 DEF IInv

\* A chunk taken at res, not below what was kept of the buffer.
LEMMA TakeInv ==
    ASSUME Numbers, IInv, NEW res \in Nat \cup {Null}, NEW size \in Nat,
           NEW alignment \in Nat \ {0}, NEW kept, NEW from \in Nat,
           \/ kept = chunks /\ from = static_storage_pos
           \/ kept = {} /\ from = 0,
           res # Null => /\ from <= res
                         /\ res + size <= SMALL_STATIC_SIZE
                         /\ (Base + res) % alignment = 0,
           Take(res, size, alignment, kept)
    PROVE  IInv'
<1> DEFINE chunk == [at |-> res, size |-> size, alignment |-> alignment]
<1>1. last' = chunk
  BY DEF Take
<1>2. CASE res = Null
  <2>1. chunks' = chunks /\ static_storage_pos' = static_storage_pos
    BY <1>2 DEF Take
  <2> QED
    BY <1>1, <1>2, <2>1, ReserveInv
<1>3. CASE res # Null
  <2>1. res \in Nat /\ res + size \in Nat /\ res + size < WordRange
    BY <1>3 DEF Numbers
  <2>2. static_storage_pos' = res + size
    <3>1. static_storage_pos' = (res + size) % WordRange
      BY <1>3 DEF Take
    <3> QED
      BY <2>1, <3>1, SmallMod DEF Numbers
  <2>3. chunks' = kept \cup {chunk}
    BY <1>3 DEF Take
  <2>4. chunk \in Chunk /\ chunk.at = res /\ chunk.size = size /\ chunk.alignment = alignment
    BY <2>1 DEF Chunk
  <2>5. kept \subseteq Chunk /\ \A c \in kept : c.at + c.size <= from
    BY DEF IInv, TypeOK
  <2>6. \A c, d \in kept : Apart(c, d)
    BY DEF IInv
  <2> HIDE DEF chunk
  <2>7. \A c \in kept : c.at \in Nat /\ c.size \in Nat /\ c.at + c.size <= res
    BY <1>3, <2>1, <2>5 DEF Chunk
  <2>8. TypeOK'
    <3>1. static_storage_pos' \in 0 .. SMALL_STATIC_SIZE
      BY <1>3, <2>1, <2>2 DEF Numbers
    <3>2. last' \in [at : Nat \cup {Null}, size : Nat, alignment : Nat]
      BY <1>1 DEF chunk
    <3> QED
      BY <2>3, <2>4, <2>5, <3>1, <3>2 DEF TypeOK
  <2>9. \A c \in chunks' : c.at + c.size <= static_storage_pos'
    BY <2>1, <2>2, <2>3, <2>4, <2>7
  <2>10. \A c, d \in chunks' : Apart(c, d)
    <3>1. \A c \in kept : Apart(c, chunk) /\ Apart(chunk, c)
      BY <2>4, <2>7 DEF Apart
    <3>2. Apart(chunk, chunk)
      BY DEF Apart
    <3> QED
      BY <2>3, <2>6, <3>1, <3>2
  <2>11. last' \in chunks'
    BY <1>1, <2>3
  <2>12. WithinBuffer'
    BY <1>1, <1>3, <2>4 DEF WithinBuffer, chunk
  <2>13. TooLargeIsNull'
    BY <1>1, <1>3, <2>1, <2>4 DEF TooLargeIsNull, Numbers, chunk
  <2> QED
    BY <2>8, <2>9, <2>10, <2>11, <2>12, <2>13 DEF IInv
<1> QED
  BY <1>2, <1>3

\* The aligned part of a reservation that is large enough for any padding.
LEMMA AlignedFits ==
    ASSUME Numbers, IInv, NEW size \in Nat, NEW alignment \in Nat \ {0},
           SMALL_STATIC_SIZE + size + alignment <= WordRange,
           NEW unaligned, unaligned = Reserved(AlignedSize(size, alignment)),
           NEW kept, kept = Kept(AlignedSize(size, alignment)),
           NEW res, res = IF unaligned = Null THEN Null ELSE Aligned(unaligned, alignment)
    PROVE  /\ res \in Nat \cup {Null} /\ unaligned \in Nat \cup {Null}
           /\ res = Null <=> unaligned = Null
           /\ unaligned = Null => kept = chunks
           /\ unaligned # Null =>
                /\ unaligned \in Nat
                /\ \/ kept = chunks /\ unaligned = static_storage_pos
                   \/ kept = {} /\ unaligned = 0
                /\ unaligned <= res
                /\ res + size <= SMALL_STATIC_SIZE
                /\ (Base + res) % alignment = 0
<1> DEFINE whole == AlignedSize(size, alignment)
<1>1. whole = size + alignment - 1 /\ whole \in Nat /\ SMALL_STATIC_SIZE + whole < WordRange
  <2>1. /\ size + alignment - 1 \in Nat /\ size + alignment - 1 < WordRange
        /\ WordRange \in Nat \ {0}
    BY DEF Numbers
  <2>2. whole = size + alignment - 1
    BY <2>1, SmallMod DEF AlignedSize
  <2> QED
    BY <2>1, <2>2 DEF Numbers
<1> HIDE DEF whole
<1>2. /\ unaligned \in Nat \cup {Null}
      /\ unaligned # Null =>
                /\ unaligned + whole <= SMALL_STATIC_SIZE
                /\ \/ unaligned = static_storage_pos /\ kept = chunks
                   \/ unaligned = 0 /\ kept = {}
      /\ unaligned = Null => kept = chunks
  <2>1. static_storage_pos \in 0 .. SMALL_STATIC_SIZE
    BY DEF IInv, TypeOK
  <2>2. unaligned = Reserved(whole) /\ kept = Kept(whole)
    BY DEF whole
  <2> QED
    BY <1>1, <2>1, <2>2, ReserveFits
<1>3. CASE unaligned = Null
  BY <1>2, <1>3
<1>4. CASE unaligned # Null
  <2>1. unaligned \in Nat /\ res = Aligned(unaligned, alignment)
    BY <1>2, <1>4
  <2>2. /\ res \in Nat /\ unaligned <= res /\ res < unaligned + alignment
        /\ (Base + res) % alignment = 0
    BY <2>1, AlignedUp
  <2>3. res + size <= SMALL_STATIC_SIZE
    BY <1>1, <1>2, <1>4, <2>1, <2>2 DEF Numbers
  <2>4. res # Null
    BY <2>2 DEF Numbers
  <2> QED
    BY <1>2, <1>4, <2>1, <2>2, <2>3, <2>4
<1> QED
  BY <1>3, <1>4
-----------------------------------------------------------------------------
\* The empty buffer.
LEMMA InitInv == Numbers /\ Init => IInv
BY DEF Numbers, Init, IInv, TypeOK, WithinBuffer, TooLargeIsNull

\* static_reset makes all of the buffer free.
LEMMA ResetInv == ASSUME Numbers, IInv, static_reset PROVE IInv'
BY DEF Numbers, static_reset, IInv, TypeOK, WithinBuffer, TooLargeIsNull

\* static_reserve and static_alloc.
LEMMA UnalignedInv ==
    ASSUME Numbers, IInv, NEW size \in Nat, SMALL_STATIC_SIZE + size < WordRange,
           static_reserve(size) \/ static_alloc(size)
    PROVE  IInv'
<1> DEFINE res == Reserved(size)
           kept == Kept(size)
           from == IF res = Null THEN static_storage_pos ELSE res
<1>1. static_storage_pos \in 0 .. SMALL_STATIC_SIZE
  BY DEF IInv, TypeOK
<1>2. /\ res \in Nat \cup {Null}
      /\ res # Null =>
            /\ res + size <= SMALL_STATIC_SIZE
            /\ \/ res = static_storage_pos /\ kept = chunks
               \/ res = 0 /\ kept = {}
      /\ res = Null => kept = chunks
  BY <1>1, ReserveFits
<1>3. static_reserve(size) =>
         /\ static_storage_pos' = IF res = Null THEN static_storage_pos ELSE res
         /\ chunks' = kept
         /\ last' = [at |-> res, size |-> size, alignment |-> 1]
  BY DEF static_reserve
<1>4. static_alloc(size) => Take(res, size, 1, kept)
  BY DEF static_alloc
<1> HIDE DEF res, kept
<1>5. res # Null => (Base + res) % 1 = 0
  BY <1>2 DEF Numbers
<1>6. /\ from \in Nat
      /\ \/ kept = chunks /\ from = static_storage_pos
         \/ kept = {} /\ from = 0
      /\ res # Null => from = res /\ from <= res
  BY <1>1, <1>2 DEF Numbers
<1>7. CASE static_reserve(size)
  BY <1>2, <1>3, <1>5, <1>6, <1>7, ReserveInv
<1>8. CASE static_alloc(size)
  <2> HIDE DEF from
  <2> QED
    BY <1>2, <1>4, <1>5, <1>6, <1>8, TakeInv
<1> QED
  BY <1>7, <1>8

\* static_aligned_reserve and static_aligned_alloc.
LEMMA AlignedInv ==
    ASSUME Numbers, IInv, NEW size \in Nat, NEW alignment \in Nat \ {0},
           SMALL_STATIC_SIZE + size + alignment <= WordRange,
           static_aligned_reserve(size, alignment) \/ static_aligned_alloc(size, alignment)
    PROVE  IInv'
<1> DEFINE unaligned == Reserved(AlignedSize(size, alignment))
           kept == Kept(AlignedSize(size, alignment))
           res == IF unaligned = Null THEN Null ELSE Aligned(unaligned, alignment)
           from == IF unaligned = Null THEN static_storage_pos ELSE unaligned
<1>1. /\ res \in Nat \cup {Null} /\ unaligned \in Nat \cup {Null}
      /\ res = Null <=> unaligned = Null
      /\ unaligned = Null => kept = chunks
      /\ unaligned # Null =>
            /\ unaligned \in Nat
            /\ \/ kept = chunks /\ unaligned = static_storage_pos
               \/ kept = {} /\ unaligned = 0
            /\ unaligned <= res
            /\ res + size <= SMALL_STATIC_SIZE
            /\ (Base + res) % alignment = 0
  BY AlignedFits
<1>2. static_aligned_reserve(size, alignment) =>
         /\ static_storage_pos' = from
         /\ chunks' = kept
         /\ last' = [at |-> res, size |-> size, alignment |-> alignment]
  BY DEF static_aligned_reserve
<1>3. static_aligned_alloc(size, alignment) => Take(res, size, alignment, kept)
  BY DEF static_aligned_alloc
<1> HIDE DEF res, kept, unaligned
<1>4. /\ from \in Nat
      /\ \/ kept = chunks /\ from = static_storage_pos
         \/ kept = {} /\ from = 0
      /\ res # Null => from <= res
  BY <1>1 DEF IInv, TypeOK, Numbers
<1> HIDE DEF from
<1>5. CASE static_aligned_reserve(size, alignment)
  BY <1>1, <1>2, <1>4, <1>5, ReserveInv
<1>6. CASE static_aligned_alloc(size, alignment)
  BY <1>1, <1>3, <1>4, <1>6, TakeInv
<1> QED
  BY <1>5, <1>6

\* Chunks, and what was reserved last, are apart.
LEMMA InvApart == Numbers /\ IInv => ChunksApart
<1> SUFFICES ASSUME Numbers, IInv,
                    NEW c \in chunks \cup ({last} \cap Chunk),
                    NEW d \in chunks \cup ({last} \cap Chunk)
             PROVE  Apart(c, d)
  BY DEF ChunksApart, Apart
<1>1. ASSUME NEW e \in chunks, last \in Chunk, last \notin chunks
      PROVE  Apart(e, last) /\ Apart(last, e)
  <2>1. e \in Chunk /\ e.at + e.size <= static_storage_pos /\ static_storage_pos \in Nat
    BY <1>1 DEF IInv, TypeOK
  <2>2. last.at >= static_storage_pos
    BY <1>1 DEF IInv, Chunk, Numbers
  <2> QED
    BY <1>1, <2>1, <2>2 DEF Apart, Chunk
<1>2. c \in chunks /\ d \in chunks => Apart(c, d)
  BY DEF IInv
<1>3. c = d => Apart(c, d)
  BY DEF Apart
<1> QED
  BY <1>1, <1>2, <1>3

\* Every call keeps the invariant.
LEMMA NextInv ==
    ASSUME StaticAssumption, NoOverflow
    PROVE  IInv /\ [Next]_vars => IInv'
<1> SUFFICES ASSUME IInv, [Next]_vars PROVE IInv'
  OBVIOUS
<1>1. Numbers
  BY DEF StaticAssumption, Numbers
<1>2. CASE static_reset
  BY <1>1, <1>2, ResetInv
<1>3. ASSUME NEW size \in Sizes, static_reserve(size) \/ static_alloc(size) PROVE IInv'
  <2>1. size \in Nat /\ SMALL_STATIC_SIZE + size < WordRange
    BY DEF StaticAssumption, NoOverflow
  <2> QED
    BY <1>1, <1>3, <2>1, UnalignedInv
<1>4. ASSUME NEW size \in Sizes, NEW alignment \in Alignments,
             static_aligned_reserve(size, alignment) \/ static_aligned_alloc(size, alignment)
      PROVE  IInv'
  <2>1. /\ size \in Nat /\ alignment \in Nat \ {0}
        /\ SMALL_STATIC_SIZE + size + alignment <= WordRange
    BY DEF StaticAssumption, NoOverflow
  <2> QED
    BY <1>1, <1>4, <2>1, AlignedInv
<1>5. CASE UNCHANGED vars
  BY <1>5 DEF vars, IInv, TypeOK, WithinBuffer, TooLargeIsNull
<1> QED
  BY <1>2, <1>3, <1>4, <1>5 DEF Next

\* Every allocation lies within the buffer, aligned as asked for, and apart
\* from every other one until the buffer is used anew; a size beyond the
\* buffer's gives NULL.  Sums of sizes must not wrap round.
THEOREM StaticIsSafe ==
    ASSUME StaticAssumption, NoOverflow
    PROVE  Spec => [](WithinBuffer /\ ChunksApart /\ TooLargeIsNull)
<1>1. Numbers
  BY DEF StaticAssumption, Numbers
<1>2. Init => IInv
  BY <1>1, InitInv
<1>3. IInv /\ [Next]_vars => IInv'
  BY NextInv
<1>4. IInv => WithinBuffer /\ ChunksApart /\ TooLargeIsNull
  BY <1>1, InvApart DEF IInv
<1> QED
  BY <1>2, <1>3, <1>4, PTL DEF Spec
=============================================================================
