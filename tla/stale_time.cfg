SPECIFICATION Spec
CONSTANTS
    None = None
    Procs = {p1, p2}
    Unit = 1
    Refill = 1
    Burst = 2
    MaxInt = 63
    Counts = {1, 2}
    MaxWaits = {0, 63}
    Cancels = FALSE
    Start = 1
    MaxClock = 5
    MaxUsed = 6
CHECK_DEADLOCK FALSE
INVARIANTS Budget
