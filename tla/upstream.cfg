SPECIFICATION MCSpec
CONSTANTS
    MaxHead = 2
    MaxData = 2
    Streams = {s1, s2}
    Targets = {t1}
    MaxLinks = 2
    Garbage = TRUE
    StreamLimit = 1
    Nobody = Nobody
    MaxChunks = 3
    PipeSize = 2
    Dialers = {d1, d2}
    Resolvers = {q1, q2}
    PosTTL = 1
    NegTTL = 1
    Timeout = 1
    Requests = {r1, r2}
    AccessInstances = 1
    RouterInstances = 2
CHECK_DEADLOCK FALSE
INVARIANTS HandedOver PoolSound CleanStreams WrappedSound BoundedAge OneHand OnlyGranted
PROPERTIES DialEnds SharedDials CancelFreesCommand LookupEnds RequestsEnd
