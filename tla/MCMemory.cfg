SPECIFICATION Spec
CONSTANTS
    NPROC = 3
    NPAGES = 16
    PGSIZE = 2
    SPAN = 2
    KTABS = 1
    KERNBASE = 8
    UINT = 64
    Image = {1, 3}
    Delta <- MCDelta
    MAX_LIMIT = 2
    MaxPid = 4
    None = 0
INVARIANTS PagesConserved ImageWhole HistoryComplete
