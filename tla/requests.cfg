SPECIFICATION Spec
CONSTANTS
    None = None
    Workers = {w1, w2}
    Keys = {k1, k2}
    Types = {"tmproxy"}
    Mins = {9}
    Faults = {"service", "lost", "crash"}
    MaxId = 3
    MaxPort = 65535
    MaxGen = 2
    MaxClock = 1
    Cooldown = 1
SYMMETRY Symmetry
INVARIANTS TableServed
