SPECIFICATION Spec
CONSTANTS
    None = None
    Workers = {w1}
    Keys = {k1}
    Types = {"tmproxy", "kiotproxy"}
    Mins = {0, 1}
    Faults = {"db", "listen", "service", "lost", "malformed", "crash"}
    MaxId = 2
    MaxPort = 10001
    MaxGen = 1
    MaxClock = 1
    Cooldown = 1
SYMMETRY Symmetry
INVARIANTS TypeOK InstanceHasRow AckedGone LastNotInFuture
