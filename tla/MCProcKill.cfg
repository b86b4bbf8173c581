SPECIFICATION Spec
CONSTANTS
    NPROC = 3
    NCPU = 1
    MaxPid = 3
    Naps <- MCNaps
    KillPids <- MCKillPids
PROPERTY NewbornNotKilled
