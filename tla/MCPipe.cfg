SPECIFICATION Spec
CONSTANTS
    p1 = p1
    p2 = p2
    q1 = q1
    Proc <- MCProc
    First = p1
    NFILE = 3
    NOFILE = 2
    Page <- MCPage
    NoPage = NoPage
    PIPESIZE = 2
    WRAP = 4
    Byte = {0, 1}
    Junk = 1
    Payload <- MCPayload
CHECK_DEADLOCK FALSE
INVARIANTS TypeOK EndsCounted SleeperBlocked
PROPERTIES OnlyKillLosesWakeups ImplementsByteStream
