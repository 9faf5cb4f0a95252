CONSTANTS
    Parts = {"tables", "extents", "views"}
    PtrsInExt = 2
    BlocksInExt = 1
    MaxBlocks = 3
    MaxViews = 1
    MaxNumber = 2
    MaxReserve = 1
    MayFail <- MCDeallocReserved
SPECIFICATION MCSpec
INVARIANT MCNoDangling
INVARIANT MCViewsImmutable
INVARIANT MCNoLeak
 
