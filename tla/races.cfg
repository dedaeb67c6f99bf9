SPECIFICATION Spec
CONSTANTS
    None = None
    Workers = {w1, w2}
    Keys = {k1, k2}
    Types = {"tmproxy"}
    Mins = {0}
    Faults = {}
    MaxId = 3
    MaxPort = 65535
    MaxGen = 2
    MaxClock = 0
    Cooldown = 0
SYMMETRY Symmetry
INVARIANTS UniqueKeys
PROPERTIES ImplementsRegistry
