CONSTANTS
    Parts = {"tables"}
    PtrsInExt = 2
    BlocksInExt = 2
    MaxBlocks = 3
    MaxViews = 1
    MaxNumber = 2
    MaxReserve = 0
    MayFail = {"dealloc"}
SPECIFICATION MCSpec
INVARIANT ViewsImmutable
