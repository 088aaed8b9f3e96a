SPECIFICATION FairSpec
CONSTANTS
    Services = {listen, trace}
    Closers = {c1}
    Restarters = {r1, r2}
    Fails = TRUE
    MaxRuns = 3
INVARIANTS WaitsForAll NoOverlap PanicCauses
PROPERTIES StopStops FailureEnds
CHECK_DEADLOCK FALSE
