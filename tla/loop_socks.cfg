SPECIFICATION LoopSpec
CONSTANTS
    Nothing = Nothing
    Listener = listener
    Kind = "socks"
    Addresses = {a1, a2, a3, a4}
    Requests = {r1, r2}
CHECK_DEADLOCK FALSE
PROPERTIES RefusedIsLoop
