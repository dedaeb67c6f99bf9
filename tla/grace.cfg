SPECIFICATION ShutSpec
CONSTANTS
    Visitors = {v1, v2}
CHECK_DEADLOCK FALSE
INVARIANTS RequestsHaveGrace
