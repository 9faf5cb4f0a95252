----------------------------- MODULE MCBuffers -----------------------------
(***************************************************************************)
(* Small instances of the allocators and buffers that keep data in order:  *)
(* lsregion, region, ibuf, obuf and static.  They share no state, so a     *)
(* behaviour is one of one of them: part tells which.                      *)
(***************************************************************************)
EXTENDS Integers, Sequences

CONSTANTS Parts,          \* the components to run
          Null, Garbage, NoSvp

VARIABLES part,
          l_slabs, l_cached, l_slab_id, l_total, l_used, l_quota, l_mapped, l_svp, l_id,
          l_chunks, l_alive,
          r_slabs, r_total, r_used, r_reserved, r_tracked,
          i_mem, i_rpos, i_wpos, i_unread,
          o_pos, o_n_iov, o_iov, o_used, o_reserved, o_svp, o_held, o_log, o_alive,
          s_pos, s_last, s_chunks

l_vars == <<l_slabs, l_cached, l_slab_id, l_total, l_used, l_quota, l_mapped, l_svp, l_id,
            l_chunks, l_alive>>
r_vars == <<r_slabs, r_total, r_used, r_reserved, r_tracked>>
i_vars == <<i_mem, i_rpos, i_wpos, i_unread>>
o_vars == <<o_pos, o_n_iov, o_iov, o_used, o_reserved, o_svp, o_held, o_log, o_alive>>
s_vars == <<s_pos, s_last, s_chunks>>
vars == <<part, l_vars, r_vars, i_vars, o_vars, s_vars>>

\* Slabs of four bytes behind a header of two, chunks of one and three bytes
\* and a large one; a size that is reserved and not used.
L == INSTANCE Lsregion WITH
       slab_size <- 6, lslab_sizeof <- 2, Sizes <- {1, 3, 5}, Alignments <- {1, 2},
       Bases <- {1}, Reserves <- {3}, IovCounts <- {1, 3}, MaxId <- 2, MaxSlabId <- 3,
       slabs <- l_slabs, cached <- l_cached, slab_id <- l_slab_id, total <- l_total,
       used <- l_used, quota <- l_quota, mapped <- l_mapped, svp <- l_svp, id <- l_id,
       chunks <- l_chunks, alive <- l_alive

\* Slabs with room for two and for four bytes, and large ones.
R == INSTANCE Region WITH
       OrderSizes <- {5, 7}, rslab_sizeof <- 3, Sizes <- {1, 3}, Alignments <- {4},
       UsesReset <- FALSE, MaxUsed <- 6,
       slabs <- r_slabs, total <- r_total, used <- r_used, reserved <- r_reserved,
       tracked <- r_tracked

\* Buffers of two and four bytes in ordered slabs, and larger ones.
I == INSTANCE Ibuf WITH
       OrderSizes <- {3, 5}, slab_sizeof <- 1, start_capacity <- 1, Sizes <- {1, 2, 3},
       Bytes <- {1, 2}, MaxCapacity <- 8,
       mem <- i_mem, rpos <- i_rpos, wpos <- i_wpos, unread <- i_unread

\* Three positions; ordered slabs for one and three bytes, and large ones.
O == INSTANCE Obuf WITH
       SMALL_OBUF_IOV_MAX <- 3, OrderSizes <- {2, 4}, slab_sizeof <- 1, start_capacity <- 1,
       Sizes <- {1, 2, 5}, MaxUsed <- 7,
       pos <- o_pos, n_iov <- o_n_iov, iov <- o_iov, used <- o_used, reserved <- o_reserved,
       svp <- o_svp, held <- o_held, log <- o_log, alive <- o_alive

\* A buffer of eight bytes at an odd address.
S == INSTANCE Static WITH
       SMALL_STATIC_SIZE <- 8, WordRange <- 32, Base <- 5, Sizes <- {1, 3, 8, 9},
       Alignments <- {2, 4},
       static_storage_pos <- s_pos, last <- s_last, chunks <- s_chunks

ASSUME /\ L!LsregionAssumption /\ R!RegionAssumption /\ I!IbufAssumption
       /\ O!ObufAssumption /\ S!StaticAssumption

Init == part \in Parts /\ L!Init /\ R!Init /\ I!Init /\ O!Init /\ S!Init

Next ==
    \/ part = "lsregion" /\ L!Next /\ UNCHANGED <<part, r_vars, i_vars, o_vars, s_vars>>
    \/ part = "region" /\ R!Next /\ UNCHANGED <<part, l_vars, i_vars, o_vars, s_vars>>
    \/ part = "ibuf" /\ I!Next /\ UNCHANGED <<part, l_vars, r_vars, o_vars, s_vars>>
    \/ part = "obuf" /\ O!Next /\ UNCHANGED <<part, l_vars, r_vars, i_vars, s_vars>>
    \/ part = "static" /\ S!Next /\ UNCHANGED <<part, l_vars, r_vars, i_vars, o_vars>>

Spec == Init /\ [][Next]_vars
-----------------------------------------------------------------------------
\* lsregion_gc drops a slab only when all its chunks are given up, chunks
\* of lsregion_aligned_alloc never overlap, the statistics, the quota and
\* the arena account for all slabs, and lsregion_to_iovec hands out no byte
\* twice.
LsregionKeepsChunks ==
    L!TypeOK /\ L!ChunksKept /\ L!ChunksApart /\ L!StatsMatch /\ L!FlushedOnce

\* lsregion_to_iovec: "Flush all the lsregion contents to the provided
\* iovec".
LsregionFlushesAll == L!FlushesAll

\* region_truncate keeps exactly the bytes before it, region_join copies the
\* last ones, across any slabs; what region_alloc and region_aligned_alloc
\* take fits into the slab, and the statistics and the callbacks tell what
\* is there.
RegionKeepsBytes ==
    /\ [](R!TypeOK /\ R!StatsMatch /\ R!FitsSlab /\ R!CallbacksTrack)
    /\ R!TruncateKeepsPrefix
    /\ R!JoinCopies

\* The unread bytes of an ibuf are those written and not taken away, however
\* ibuf_reserve and ibuf_shrink move them, and always lie in the buffer; and
\* ibuf_shrink leaves a slab that is no larger than it has to be.
IbufKeepsData == [](I!TypeOK /\ I!DataKept) /\ I!ShrinkShrinks

\* The buffers of an obuf hold its output in order, whatever was rolled
\* back, the vector ends with a zeroed entry, and no slab is lost.
ObufKeepsOutput == O!TypeOK /\ O!OutputKept /\ O!EndMarked /\ O!SlabsReturned

\* Chunks of the static buffer lie in it, are aligned, and do not overlap
\* until it is recycled; what does not fit is refused.
StaticChunksApart == S!TypeOK /\ S!ChunksApart /\ S!WithinBuffer /\ S!TooLargeIsNull
=============================================================================
