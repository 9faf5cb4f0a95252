-------------------------------- MODULE Obuf --------------------------------
(***************************************************************************)
(* The output buffer of include/small/obuf.h and small/obuf.c: a vector of *)
(* slabs that is filled from the first on and handed to writev(), and can  *)
(* be rolled back to a savepoint.                                          *)
(*                                                                         *)
(* iov[i] stands for iov[i] and capacity[i]: the capacity and the bytes up *)
(* to iov_len.  An entry that nothing was written to yet is Garbage.  Each *)
(* call of slab_get may fail, and every caller goes on as the code does.   *)
(* log is the output the buffer stands for; its bytes are numbered.        *)
(* An output buffer belongs to one thread.                                 *)
(***************************************************************************)
EXTENDS Integers, Sequences, FiniteSetsExt, Functions

CONSTANTS SMALL_OBUF_IOV_MAX,
          OrderSizes,          \* sizes of ordered slabs
          slab_sizeof,         \* bytes in a slab header
          start_capacity,      \* buf->start_capacity
          Sizes,               \* sizes callers ask for
          Garbage,             \* an entry never written
          NoSvp,               \* no savepoint has been created
          MaxUsed              \* bound: bytes in the buffer

\* What the constants are taken to be.
ObufAssumption ==
    /\ SMALL_OBUF_IOV_MAX \in Nat \ {0} /\ OrderSizes \subseteq Nat /\ slab_sizeof \in Nat
    /\ start_capacity \in Nat \ {0} /\ Sizes \subseteq Nat \ {0} /\ MaxUsed \in Nat

VARIABLES pos,       \* buf->pos
          n_iov,     \* buf->n_iov
          iov,       \* buf->iov and buf->capacity
          used,      \* buf->used
          reserved,  \* buf->reserved
          svp,       \* a savepoint the caller keeps
          held,      \* slabs taken from the cache and not returned
          log,       \* bytes added and not rolled back
          alive      \* obuf_is_initialized

vars == <<pos, n_iov, iov, used, reserved, svp, held, log, alive>>

Positions == 0 .. SMALL_OBUF_IOV_MAX
Entry == [capacity : Nat, data : Seq(Nat)]
Empty == [capacity |-> 0, data |-> <<>>]

TypeOK ==
    /\ pos \in Positions /\ n_iov \in Positions
    /\ iov \in [Positions -> Entry \cup {Garbage}]
    /\ used \in Nat /\ held \in Nat /\ log \in Seq(Nat)
    /\ reserved \in BOOLEAN /\ alive \in BOOLEAN
    /\ svp \in {NoSvp} \cup [pos : Positions, iov_len : Nat, used : Nat]

\* obuf_create
Init ==
    /\ pos = 0 /\ n_iov = 0 /\ used = 0 /\ held = 0
    /\ iov = [i \in Positions |-> IF i = 0 THEN Empty ELSE Garbage]
    /\ reserved = FALSE /\ alive = TRUE
    /\ svp = NoSvp
    /\ log = <<>>

-----------------------------------------------------------------------------
iov_len(i) == Len(iov[i].data)
Room(i) == iov[i].capacity - iov_len(i)

obuf_iovcnt == IF iov_len(pos) > 0 THEN pos + 1 ELSE pos

slab_capacity(size) ==
    LET fit == {o \in OrderSizes : size + slab_sizeof <= o}
    IN  IF fit = {} THEN size ELSE Min(fit) - slab_sizeof

\* capacity doubled until size fits.
Doubled(capacity, size) ==
    Min({capacity * 2 ^ k : k \in {j \in 0 .. size : capacity * 2 ^ j >= size}})

Fresh(n) == [i \in 1 .. n |-> Len(log) + i]

\* obuf_alloc_pos at position p: the vector it leaves, with a slab for size
\* bytes if slab_get succeeds.
AllocPos(p, size, ok) ==
    LET marked == [iov EXCEPT ![p + 1] = iov[p]]
    IN  IF ok THEN [marked EXCEPT ![p].capacity = slab_capacity(Doubled(start_capacity * 2 ^ p, size))]
        ELSE marked

\* "Simply realloc": the slab of position p is replaced by a larger one.
Grown(p, size) == [iov EXCEPT ![p].capacity = slab_capacity(Doubled(@, size))]

\* Where obuf_reserve_slow puts the data.
NextPos == IF iov_len(pos) > 0 THEN pos + 1 ELSE pos

\* What obuf_reserve, with obuf_reserve_slow, leaves for size bytes when
\* slab_get succeeds or fails as got says.  new counts new slabs.
Reserve(size, got) ==
    LET p == NextPos
        same == [ok |-> TRUE, pos |-> pos, iov |-> iov, new |-> 0]
    IN  IF size <= Room(pos) THEN same
        ELSE IF p = SMALL_OBUF_IOV_MAX THEN [same EXCEPT !.ok = FALSE]
        ELSE IF size <= iov[p].capacity THEN [same EXCEPT !.pos = p]
        ELSE IF iov[p].capacity > 0
        THEN [ok |-> got, pos |-> p, iov |-> IF got THEN Grown(p, size) ELSE iov, new |-> 0]
        ELSE [ok |-> got, pos |-> p, iov |-> AllocPos(p, size, got), new |-> IF got THEN 1 ELSE 0]

obuf_reserve(size, got) ==
    LET r == Reserve(size, got)
    IN  /\ alive /\ ~reserved
        /\ pos' = r.pos /\ iov' = r.iov
        /\ n_iov' = n_iov + r.new /\ held' = held + r.new
        /\ reserved' = r.ok
        /\ UNCHANGED <<used, svp, log, alive>>

\* obuf_alloc, and the caller who fills what it got.
obuf_alloc(size, got) ==
    LET r == Reserve(size, got)
        added == IF r.ok THEN Fresh(size) ELSE <<>>
    IN  /\ alive /\ used + size <= MaxUsed
        /\ pos' = r.pos
        /\ iov' = [r.iov EXCEPT ![r.pos].data = @ \o added]
        /\ n_iov' = n_iov + r.new /\ held' = held + r.new
        /\ used' = used + Len(added)
        /\ log' = log \o added
        /\ reserved' = (reserved /\ ~r.ok)
        /\ UNCHANGED <<svp, alive>>

\* Bytes obuf_dup puts into the positions from pos up to, not including, p.
Filled(p) == SumFunction([i \in pos .. p - 1 |-> Room(i)])

\* The position where the loop of obuf_dup ends: the rest fits, there is no
\* buffer yet, or there is no position left.
LastPos(size) ==
    Min({p \in pos .. SMALL_OBUF_IOV_MAX - 1 :
            \/ p = SMALL_OBUF_IOV_MAX - 1
            \/ iov[p] = Garbage    \* not reached: an empty one comes first
            \/ iov[p].capacity = 0
            \/ size - Filled(p) <= Room(p)})

obuf_dup(size, got) ==
    LET p == LastPos(size)
        rest == size - Filled(p)
        alloc == iov[p].capacity = 0
        v == IF alloc THEN AllocPos(p, rest, got) ELSE iov
        new == IF alloc /\ got THEN 1 ELSE 0
        last == Min({rest, v[p].capacity - Len(v[p].data)})    \* bytes that go to p
        copied == Fresh(Filled(p) + last)
        part(i) == IF i < p THEN SubSeq(copied, Filled(i) + 1, Filled(i) + Room(i))
                   ELSE SubSeq(copied, Filled(p) + 1, Filled(p) + last)
    IN  /\ alive /\ used + size <= MaxUsed
        /\ pos' = p
        /\ iov' = [i \in Positions |->
                      IF i \in pos .. p THEN [v[i] EXCEPT !.data = @ \o part(i)] ELSE v[i]]
        /\ n_iov' = n_iov + new /\ held' = held + new
        /\ used' = used + Len(copied)
        /\ log' = log \o copied
        /\ UNCHANGED <<reserved, svp, alive>>

\* The vector v with the positions in S emptied.
Cleared(v, S) == [i \in Positions |-> IF i \in S THEN [v[i] EXCEPT !.data = <<>>] ELSE v[i]]

obuf_reset ==
    /\ alive
    /\ iov' = Cleared(iov, 0 .. obuf_iovcnt - 1)
    /\ pos' = 0 /\ used' = 0
    /\ reserved' = FALSE
    /\ svp' = NoSvp /\ log' = <<>>
    /\ UNCHANGED <<n_iov, held, alive>>

obuf_create_svp ==
    /\ alive
    /\ svp' = [pos |-> pos, iov_len |-> iov_len(pos), used |-> used]
    /\ UNCHANGED <<pos, n_iov, iov, used, reserved, held, log, alive>>

\* Altered form of Beyond: none, as if iovcnt were computed after pos is set.
BeyondNone == {}

\* The positions obuf_rollback_to_svp empties.
Beyond == svp.pos + 1 .. obuf_iovcnt - 1

obuf_rollback_to_svp ==
    /\ alive /\ svp # NoSvp
    /\ pos' = svp.pos
    /\ iov' = [Cleared(iov, Beyond) EXCEPT ![svp.pos].data = SubSeq(@, 1, svp.iov_len)]
    /\ used' = svp.used
    /\ reserved' = FALSE
    /\ log' = SubSeq(log, 1, svp.used)
    /\ UNCHANGED <<n_iov, svp, held, alive>>

obuf_destroy ==
    /\ alive
    /\ held' = held - n_iov
    /\ pos' = 0 /\ n_iov' = 0 /\ used' = 0
    /\ iov' = [i \in Positions |-> Empty]
    /\ reserved' = FALSE /\ svp' = NoSvp /\ log' = <<>> /\ alive' = FALSE

Next ==
    \/ \E size \in Sizes, got \in BOOLEAN :
          obuf_reserve(size, got) \/ obuf_alloc(size, got) \/ obuf_dup(size, got)
    \/ obuf_reset \/ obuf_create_svp \/ obuf_rollback_to_svp \/ obuf_destroy

Spec == Init /\ [][Next]_vars
-----------------------------------------------------------------------------
\* The allocated buffers come first, and the entry after them is zeroed: the
\* asserts of obuf_alloc_pos, and the end the loop of obuf_dup relies on.
EndMarked ==
    /\ pos <= n_iov /\ pos < SMALL_OBUF_IOV_MAX
    /\ \A i \in 0 .. n_iov - 1 : iov[i] # Garbage /\ iov[i].capacity > 0
    /\ iov[n_iov] = Empty

\* What obuf_iovcnt buffers hold, one after the other, is the output, however
\* it was put together, rolled back and added to again; none of them is
\* empty or holds more than its capacity, and none after them holds anything.
OutputKept ==
    /\ used = SumFunction([i \in 0 .. obuf_iovcnt - 1 |-> iov_len(i)])
    /\ used = Len(log)
    /\ \A i \in 0 .. obuf_iovcnt - 1 :
          /\ iov_len(i) \in 1 .. iov[i].capacity
          /\ LET before == SumFunction([j \in 0 .. i - 1 |-> iov_len(j)])
             IN  iov[i].data = SubSeq(log, before + 1, before + iov_len(i))
    /\ \A i \in obuf_iovcnt .. n_iov : iov[i].data = <<>>

\* obuf_destroy returns every slab, also those behind a rolled back position.
SlabsReturned == held = n_iov

\* obuf.h on iov: "each vector is at least twice as big as the previous one".
VectorsDouble ==
    \A i \in 1 .. n_iov - 1 : iov[i].capacity >= 2 * iov[i - 1].capacity
=============================================================================
