SPECIFICATION Spec
CONSTANTS
    Subs = {s1}
    Pubs = {p1, p2}
    Closers = {k1}
    MaxSubs = 1
    FirstTopic = t0
    Registered = FALSE
    Failing = {s1}
    Cancelling = {s1}
    MaxCancels = 2
    SlowConsumers = TRUE
    Nil = Nil
INVARIANTS SoleStopper ClosesOpen
PROPERTIES ImplementsBroadcast
CHECK_DEADLOCK FALSE
