SPECIFICATION MCSpec
CONSTANTS
    None = None
    Procs = {p1}
    Unit = 2
    Refill = 1
    Burst = 3
    MaxInt = 63
    Counts = {0, 1, 2, 3, 4}
    MaxWaits = {0, 2, 63}
    Cancels = TRUE
    Start = 1
    MaxClock = 12
    MaxUsed = 6
    Nothing = Nothing
    Listener = listener
    Kind = "http"
    Addresses = {a1, a2, a3, a4}
    Requests = {r1, r2, r3}
    Flows = {f1, f2}
    Groups = {g1, g2}
    NoGroup = NoGroup
    Separate = FALSE
    MaxDebt = 1
    MaxChain = 3
    Getters = {c1, c2}
    MaxCert = 2
    TTL = 2
    MaxRead = 1
    MaxText = 4
    MaxTime = 4
    MaxHints = 2
    Base = 2
    MaxBytes = 4
    MaxLine = 5
    MaxLines = 2
    Authors = {w1, w2}
    LinesEach = 3
    QueueLength = 2
CHECK_DEADLOCK FALSE
INVARIANTS Budget OneItemPerGroup DropsForgetNothing RightAnswer WaysAgree
    CacheSound NoneMissed SourcesKept SerialsAgree LinesKept
PROPERTIES RefusedIsLoop LoopRefused
