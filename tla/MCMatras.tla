------------------------------ MODULE MCMatras ------------------------------
(***************************************************************************)
(* Small instances of Matras, told apart by part:                          *)
(*   - tables: three blocks, each in an extent of its own, and one read    *)
(*     view.  The third block needs a second table;                        *)
(*   - extents: three blocks in extents of two, so that a view shares a    *)
(*     half-filled extent with head;                                       *)
(*   - views: two blocks, each in an extent of its own, and two read views *)
(*     that are created and destroyed in any order.                        *)
(***************************************************************************)
EXTENDS Matras

CONSTANT Parts

VARIABLE part

\* A caller that reserves before it deallocates.
MCDeallocReserved == {"touch", "alloc"}

E == INSTANCE Matras WITH BlocksInExt <- 2

V == INSTANCE Matras WITH
       BlocksInExt <- 1, MaxBlocks <- 2, MaxViews <- 2, MaxNumber <- 3, MaxReserve <- 0,
       MayFail <- {}

MCInit ==
    /\ part \in Parts
    /\ \/ part = "tables" /\ Init
       \/ part = "extents" /\ E!Init
       \/ part = "views" /\ V!Init

MCNext ==
    \/ part = "tables" /\ Next /\ UNCHANGED part
    \/ part = "extents" /\ E!Next /\ UNCHANGED part
    \/ part = "views" /\ V!Next /\ UNCHANGED part

MCSpec == MCInit /\ [][MCNext]_<<part, vars>>
-----------------------------------------------------------------------------
\* No call leaves a freed extent in reach of head or of a read view; for two
\* views, although a view that is destroyed is compared with its neighbours
\* only.
MCNoDangling ==
    /\ part = "tables" => NoDangling
    /\ part = "extents" => E!NoDangling
    /\ part = "views" => V!NoDangling

\* Views stay as they were created, whatever head and the other views do.
MCViewsImmutable ==
    /\ part = "tables" => ViewsImmutable
    /\ part = "extents" => E!ViewsImmutable
    /\ part = "views" => V!ViewsImmutable

\* With one view no extent is lost (with two, one may be: DestroyFreesAll).
MCNoLeak ==
    /\ part = "tables" => NoLeak
    /\ part = "extents" => E!NoLeak

\* matras_touch_reserve reserves enough, on top of earlier reservations.
MCReserveSuffices ==
    /\ part = "tables" => ReserveSuffices
    /\ part = "extents" => E!ReserveSuffices
=============================================================================
