SPECIFICATION LiveSpec
CONSTANTS
    None = None
    Workers = {w1, w2}
    Keys = {k1}
    Types = {"tmproxy"}
    Mins = {0}
    Faults = {"db", "listen", "service", "lost"}
    MaxId = 1
    MaxPort = 65535
    MaxGen = 2
    MaxClock = 0
    Cooldown = 0
PROPERTIES NobodyStuck Repaired
