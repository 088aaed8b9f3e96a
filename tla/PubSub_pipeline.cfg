SPECIFICATION Spec
CONSTANTS
    Subs = {s1, s2}
    Pubs = {p1}
    Closers = {k1}
    MaxSubs = 2
    FirstTopic = t0
    Registered = FALSE
    Failing = {s1}
    Cancelling = {s1}
    MaxCancels = 2
    SlowConsumers = TRUE
    Nil = Nil
INVARIANTS AudienceServed SubscriptionReachable OwnSlot
CHECK_DEADLOCK FALSE
