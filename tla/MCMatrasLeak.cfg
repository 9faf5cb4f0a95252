CONSTANTS
    Parts = {"tables"}
    PtrsInExt = 2
    BlocksInExt = 2
    MaxBlocks = 3
    MaxViews = 2
    MaxNumber = 3
    MaxReserve = 0
    MayFail = {}
SPECIFICATION MCSpec
PROPERTY DestroyFreesAll
