CONSTANTS
    Parts = {"lf_lifo", "rb", "rlist"}
    Threads = {t1, t2}
    Elems = {a, b, c}
    NULL = NULL
    AbaMod = 3
    MaxWindow = 2
    MaxNode = 10
    Heads = {h1, h2}
    Items = {a, b, c}
    None = None
SYMMETRY Symmetry
SPECIFICATION MCSpec
INVARIANT ListIsStack
INVARIANT OnePlace
INVARIANT RbStaysBalanced
INVARIANT RbStaysAugmented
INVARIANT RbFindsAll
INVARIANT RListsAreLinked
PROPERTY RefinesAtomicStack
