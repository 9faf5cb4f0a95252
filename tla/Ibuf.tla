-------------------------------- MODULE Ibuf --------------------------------
(***************************************************************************)
(* The input buffer of include/small/ibuf.h and small/ibuf.c: one slab,    *)
(* written at wpos and read at rpos, that is replaced by a larger one when *)
(* the unread bytes and what is to come do not fit into it.                *)
(*                                                                         *)
(* Positions are offsets from ibuf->buf, mem is the slab behind it, <<>>   *)
(* when there is none.  unread is the queue of bytes the buffer stands     *)
(* for: those written, and neither consumed nor discarded.                 *)
(* slab_get is used as SlabCache promises it, and may fail, which leaves   *)
(* the buffer as it is.  A buffer belongs to one thread.                   *)
(***************************************************************************)
EXTENDS Integers, Sequences, FiniteSetsExt

CONSTANTS OrderSizes,      \* sizes of ordered slabs
          slab_sizeof,     \* bytes in a slab header
          start_capacity,  \* ibuf->start_capacity
          Sizes,           \* sizes callers ask for
          Bytes,           \* values of a byte
          MaxCapacity      \* bound: bytes in the buffer

\* What the constants are taken to be.
IbufAssumption ==
    /\ OrderSizes \subseteq Nat /\ slab_sizeof \in Nat
    /\ start_capacity \in Nat \ {0} /\ Sizes \subseteq Nat /\ MaxCapacity \in Nat

VARIABLES mem,    \* what the slab holds
          rpos,   \* ibuf->rpos - ibuf->buf
          wpos,   \* ibuf->wpos - ibuf->buf
          unread  \* the bytes a reader has yet to see

vars == <<mem, rpos, wpos, unread>>

TypeOK ==
    /\ mem \in Seq(Bytes)
    /\ rpos \in 0 .. wpos /\ wpos \in 0 .. Len(mem)
    /\ unread \in Seq(Bytes)

\* ibuf_create
Init == mem = <<>> /\ rpos = 0 /\ wpos = 0 /\ unread = <<>>

-----------------------------------------------------------------------------
ibuf_used == wpos - rpos
ibuf_capacity == Len(mem)
ibuf_pos == rpos

slab_real_size(size) ==
    LET fit == {o \in OrderSizes : size + slab_sizeof <= o}
    IN  IF fit = {} THEN size + slab_sizeof ELSE Min(fit)

slab_capacity(size) == slab_real_size(size) - slab_sizeof

\* A slab for size bytes with data copied to its start.  What the rest of
\* it holds does not matter.
SlabWith(size, data) ==
    [i \in 1 .. slab_capacity(size) |-> IF i <= Len(data) THEN data[i] ELSE CHOOSE b \in Bytes : TRUE]

Data == SubSeq(mem, rpos + 1, wpos)

\* The capacity ibuf_reserve_slow asks for.
NewCapacity(size) ==
    LET first == Max({ibuf_capacity * 2, start_capacity})
    IN  Min({first * 2 ^ k : k \in {j \in 0 .. size : first * 2 ^ j >= ibuf_used + size}})

\* Altered form of Moved: the unread bytes are taken from the start.
MovedFromStart(size) ==
    IF wpos + size <= Len(mem) THEN [mem |-> mem, rpos |-> rpos, wpos |-> wpos]
    ELSE [mem |-> IF size + ibuf_used <= ibuf_capacity THEN mem
                  ELSE SlabWith(NewCapacity(size), SubSeq(mem, 1, ibuf_used)),
          rpos |-> 0, wpos |-> ibuf_used]

\* ibuf_reserve and ibuf_reserve_slow: nothing to do, the unread bytes moved
\* to the start of the buffer, or to a larger one.
Moved(size) ==
    IF wpos + size <= Len(mem) THEN [mem |-> mem, rpos |-> rpos, wpos |-> wpos]
    ELSE [mem |-> IF size + ibuf_used <= ibuf_capacity
                  THEN [i \in DOMAIN mem |-> IF i <= ibuf_used THEN Data[i] ELSE mem[i]]
                  ELSE SlabWith(NewCapacity(size), Data),
          rpos |-> 0, wpos |-> ibuf_used]

ibuf_reserve(size) ==
    LET m == Moved(size)
    IN  /\ Len(m.mem) <= MaxCapacity
        /\ mem' = m.mem /\ rpos' = m.rpos /\ wpos' = m.wpos
        /\ UNCHANGED unread

\* ibuf_alloc, and the caller who fills what it got with byte.
ibuf_alloc(size, byte) ==
    LET m == Moved(size)
    IN  /\ Len(m.mem) <= MaxCapacity
        /\ mem' = [i \in DOMAIN m.mem |->
                      IF i \in m.wpos + 1 .. m.wpos + size THEN byte ELSE m.mem[i]]
        /\ rpos' = m.rpos
        /\ wpos' = m.wpos + size
        /\ unread' = unread \o [i \in 1 .. size |-> byte]

ibuf_consume(size) ==
    /\ size <= ibuf_used
    /\ rpos' = rpos + size
    /\ unread' = SubSeq(unread, size + 1, Len(unread))
    /\ UNCHANGED <<mem, wpos>>

\* ibuf_discard, and ibuf_truncate to ibuf_used - size.
ibuf_discard(size) ==
    /\ size <= ibuf_used
    /\ wpos' = wpos - size
    /\ unread' = SubSeq(unread, 1, Len(unread) - size)
    /\ UNCHANGED <<mem, rpos>>

ibuf_reset ==
    /\ rpos' = 0 /\ wpos' = 0
    /\ unread' = <<>>
    /\ UNCHANGED mem

\* The capacity ibuf_shrink asks for.
Smallest == Max({start_capacity, ibuf_used})

ibuf_shrink ==
    \/ /\ ibuf_used = 0
       /\ mem' = <<>> /\ rpos' = 0 /\ wpos' = 0
       /\ UNCHANGED unread
    \/ /\ ibuf_used > 0
       /\ slab_real_size(ibuf_capacity) # slab_real_size(Smallest)
       /\ mem' = SlabWith(Smallest, Data)
       /\ rpos' = 0 /\ wpos' = ibuf_used
       /\ UNCHANGED unread

\* ibuf_destroy and ibuf_create.
ibuf_reinit == mem' = <<>> /\ rpos' = 0 /\ wpos' = 0 /\ unread' = <<>>

Next ==
    \/ \E size \in Sizes :
          \/ ibuf_reserve(size) \/ ibuf_consume(size) \/ ibuf_discard(size)
          \/ \E byte \in Bytes : ibuf_alloc(size, byte)
    \/ ibuf_reset \/ ibuf_shrink \/ ibuf_reinit

Spec == Init /\ [][Next]_vars
-----------------------------------------------------------------------------
\* Between rpos and wpos are the bytes written and not taken away, in order,
\* wherever ibuf_reserve_slow and ibuf_shrink have moved them.
DataKept == Data = unread

\* ibuf_shrink never takes a larger slab than the buffer had, and leaves one
\* that is right for the unread bytes: a second ibuf_shrink has nothing to do.
ShrinkShrinks ==
    [][ibuf_shrink => /\ Len(mem') <= Len(mem)
                      /\ (mem' # <<>> =>
                            slab_real_size(Len(mem'))
                            = slab_real_size(Max({start_capacity, wpos' - rpos'})))]_vars

\* ibuf_pos: "Integer value of the position in the buffer - stable in case
\* of realloc."
PosStable == [][\A size \in Sizes : ibuf_reserve(size) => ibuf_pos' = ibuf_pos]_vars
=============================================================================
