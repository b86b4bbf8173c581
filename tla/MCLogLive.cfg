SPECIFICATION FairSpec
CONSTANTS
    p1 = p1
    p2 = p2
    p3 = p3
    b1 = b1
    b2 = b2
    b3 = b3
    b4 = b4
    b5 = b5
    v0 = v0
    v1 = v1
    Proc <- MCThree
    First = p1
    NoBlock = NoBlock
    Block <- MCTwoBlocks
    Data <- MCOneData
    MAXOPBLOCKS = 2
    LOGSIZE = 5
    NLOG = 5
    OpBlocks = 1
PROPERTIES SleeperWoken RecoveryEnds
