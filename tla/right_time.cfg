SPECIFICATION Spec
CONSTANTS
    None = None
    Workers = {w1}
    Keys = {k1}
    Types = {"tmproxy"}
    Mins = {2}
    Faults = {}
    MaxId = 1
    MaxPort = 65535
    MaxGen = 2
    MaxClock = 0
    Cooldown = 2
SYMMETRY Symmetry
PROPERTIES ResetAtTheRightTime
