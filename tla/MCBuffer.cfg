SPECIFICATION Spec
CONSTANTS
    p1 = p1
    p2 = p2
    p3 = p3
    k1 = k1
    k2 = k2
    k3 = k3
    v0 = v0
    v1 = v1
    Proc <- MCProc
    Block <- MCBlock
    NoBlock = NoBlock
    Value <- MCValue
    Zero = v0
    Written <- MCOneWritten
    NBUF = 2
    MaxPinned = 1
    Nobody = Nobody
INVARIANTS LockSleeperBlocked OneBufferPerBlock RequestsQueued
PROPERTIES ImplementsBlockStore
PROPERTY IoCompletes
