SPECIFICATION Spec
CONSTANTS
    NPROC = 4
    Key = {"C", "B", "F", "newline"}
    ShellExits = FALSE
    INPUT_BUF = 1
    None = 0
INVARIANT NoZombieExit
