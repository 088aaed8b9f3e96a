SPECIFICATION FairSpec
CONSTANTS
    Subs = {s1, s2}
    Pubs = {p1, p2}
    Closers = {}
    MaxSubs = 1
    FirstTopic = t0
    Registered = TRUE
    Failing = {s1}
    Cancelling = {s2}
    MaxCancels = 1
    SlowConsumers = FALSE
    Nil = Nil
PROPERTIES CancelReturns PostRunCalled ImplementsFairBroadcast
CHECK_DEADLOCK FALSE
