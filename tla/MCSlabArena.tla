---------------------------- MODULE MCSlabArena ----------------------------
(***************************************************************************)
(* Three threads and another user of the quota.  A slab is two units: the  *)
(* limits 3 and 7 are not whole numbers of slabs, and prealloc 3 is        *)
(* aligned up past the limit 3.                                            *)
(***************************************************************************)
EXTENDS SlabArena, TLC

MCTotals == {3, 7}
MCPreallocs == {0, 2, 3}
MCOtherUnits == {1}
Symmetry == Permutations(Threads)
=============================================================================
