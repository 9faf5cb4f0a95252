CONSTANTS
    Threads = {t1, t2}
    QUOTA_UNIT_SIZE = 2
    USE_MIN_UNITS = 4
    Totals <- MCTotals
    Sizes <- MCSizes
SPECIFICATION Spec
INVARIANT AvailableBounded
INVARIANT QuotaMatches
PROPERTY LeaseReturns
PROPERTY RefusedOnlyWhenShort
