SPECIFICATION FairSpec
CONSTANTS
    Streams <- MCStreams
    Kind <- MCKind
    RunOf <- MCRunOf
    Gateways <- MCGateways
    Stops = {1}
    Casts <- MCCasts
    MaxSubs <- MCMaxSubs
    SlowStreams <- MCSlow
INVARIANTS  CrashCauses
 
CHECK_DEADLOCK FALSE
