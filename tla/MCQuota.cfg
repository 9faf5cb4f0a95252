CONSTANTS
    NThreads = 2
    QUOTA_UNIT_SIZE = 2
    UINT32_MAX = 7
    Totals <- MCTotals
    Sizes <- MCSizes
    MaxSpurious = 1
SPECIFICATION Spec
INVARIANT UsedWithinTotal
INVARIANT UsedIsHeld
PROPERTY RefinesAtomicQuota
PROPERTY LockFree
