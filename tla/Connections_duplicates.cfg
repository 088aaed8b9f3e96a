SPECIFICATION Spec
CONSTANTS
    Conns = {c1, c2, c3}
    OperatorConns = {c1, c2}
    Requests = {}
    Duplicates = TRUE
    DialFails = TRUE
    LoopFails = FALSE
    EarlyTimer = FALSE
    Tunnels = TRUE
    SlowTracer = TRUE
    MaxLosses = 1
    MaxPings = 1
    Nil = Nil
INVARIANTS NoOrphan 
CHECK_DEADLOCK FALSE
