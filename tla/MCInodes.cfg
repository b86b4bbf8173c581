SPECIFICATION Spec
CONSTANTS
    p1 = p1
    p2 = p2
    a = a
    b = b
    Proc <- MCProc
    NoProc = NoProc
    NINODES = 3
    Name = {a, b}
    Dot = Dot
    DotDot = DotDot
    Request <- MCRequest
    MaxLink = 2
CHECK_DEADLOCK FALSE
SYMMETRY ProcSymmetry
INVARIANTS LinksCounted RefsHeld HeldStays
