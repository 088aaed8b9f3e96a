SPECIFICATION FairSpec
CONSTANTS
    Half = 4
    Clients <- MCClients
    Samples <- MCSamples
    Asks <- MCAsks
    Reachable = {1}
    Silent = {2}
    Refusing = {3}
INVARIANTS Understood OneConnection LoopEndCauses
PROPERTIES Answered
CHECK_DEADLOCK FALSE
