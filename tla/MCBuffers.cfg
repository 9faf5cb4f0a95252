CONSTANTS
    Parts = {"lsregion", "region", "ibuf", "obuf", "static"}
    Null = Null
    Garbage = Garbage
    NoSvp = NoSvp
SPECIFICATION Spec
CHECK_DEADLOCK FALSE
INVARIANT LsregionKeepsChunks
INVARIANT ObufKeepsOutput
INVARIANT StaticChunksApart
 
PROPERTY IbufKeepsData
