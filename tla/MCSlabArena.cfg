CONSTANTS
    Threads = {t1, t2, t3}
    SlabUnits = 2
    Totals <- MCTotals
    Preallocs <- MCPreallocs
    OtherUnits <- MCOtherUnits
    MaxOs = 3
SYMMETRY Symmetry
SPECIFICATION Spec
INVARIANT OneOwner
INVARIANT UsedIsLive
INVARIANT QuotaMatches
INVARIANT WithinLimit
INVARIANT NothingLeft
