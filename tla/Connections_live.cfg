SPECIFICATION FairSpec
CONSTANTS
    Conns = {c1, c2, c3}
    OperatorConns = {c1}
    Requests = {}
    Duplicates = FALSE
    DialFails = FALSE
    LoopFails = FALSE
    EarlyTimer = FALSE
    Tunnels = FALSE
    SlowTracer = FALSE
    MaxLosses = 1
    MaxPings = 1
    Nil = Nil
PROPERTIES LostIsClosed Recovers
CHECK_DEADLOCK FALSE
