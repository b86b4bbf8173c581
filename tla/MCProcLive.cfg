SPECIFICATION FairSpec
CONSTANTS
    NPROC = 3
    NCPU = 1
    MaxPid = 3
    Naps <- MCNaps
    KillPids <- MCOwnPids
PROPERTIES RunnableRuns KilledExits SleepReturns OrphanReaped
