SPECIFICATION Spec
CONSTANTS
    Conns = {c1, c2}
    OperatorConns = {c1}
    Requests = {d1}
    Duplicates = FALSE
    DialFails = FALSE
    LoopFails = TRUE
    EarlyTimer = TRUE
    Tunnels = FALSE
    SlowTracer = FALSE
    MaxLosses = 0
    MaxPings = 1
    Nil = Nil
INVARIANTS OneRemoval TracedIsClosed
CHECK_DEADLOCK FALSE
