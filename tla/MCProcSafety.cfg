SPECIFICATION Spec
CONSTANTS
    NPROC = 4
    NCPU = 2
    MaxPid = 4
    Naps <- MCOneNap
    KillPids <- MCKillPids
INVARIANTS TypeOK StackExclusive SchedDiscipline UserHoldsNoLock WaiterHasReason ParentAlive
PROPERTY ZombieIsFinal
