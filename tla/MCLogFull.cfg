SPECIFICATION Spec
CONSTANTS
    p1 = p1
    p2 = p2
    p3 = p3
    b1 = b1
    b2 = b2
    b3 = b3
    b4 = b4
    b5 = b5
    v0 = v0
    v1 = v1
    Proc <- MCThree
    First = p1
    NoBlock = NoBlock
    Block <- MCBlocks
    Data <- MCOneData
    MAXOPBLOCKS = 1
    LOGSIZE = 3
    NLOG = 3
    OpBlocks = 1
INVARIANT NoPanic
