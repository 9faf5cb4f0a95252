CONSTANTS
    Parts = {"lsregion"}
    Null = Null
    Garbage = Garbage
    NoSvp = NoSvp
SPECIFICATION Spec
CHECK_DEADLOCK FALSE
INVARIANT LsregionFlushesAll
