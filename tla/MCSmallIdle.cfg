CONSTANTS
    Parts = {"use"}
    Pools <- MCPools
    objsize <- MCObjsize
    slab_size <- MCSlabSize
    mslab_sizeof = 2
    Groups <- MCGroups
    LargeSizes = {22}
    Memory = 66
    MaxObjects = 6
SPECIFICATION MCSpec
CHECK_DEADLOCK FALSE
INVARIANT InactiveEmpty
