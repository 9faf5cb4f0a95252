CONSTANTS
    Slabs <- MCSlabs
    slab_size = 15
    mslab_sizeof = 2
    objsize = 3
    ptr_sizeof = 3
    MAX_COLD_FRACTION_LB = 1
SPECIFICATION Spec
CHECK_DEADLOCK FALSE
INVARIANT ObjectsAccounted
INVARIANT FirstHotIsFirst
INVARIANT OneList
INVARIANT FailsOnlyWhenFull
