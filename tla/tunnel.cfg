SPECIFICATION MCSpec
CONSTANTS
    Chunks = 2
    UpChunks = 2
    DownChunks = 2
    Visitors = {v1, v2}
CHECK_DEADLOCK FALSE
INVARIANTS TunnelSound  HandlersFirst
PROPERTIES TunnelEnds QuietAfterReturn RequestOver StopEnds
