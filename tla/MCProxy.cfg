SPECIFICATION FairSpec
CONSTANTS
    Chunk = 2
    MaxBytes <- MCMaxBytes
    Metered = {"download"}
    Addresses <- MCAddresses
INVARIANTS Told EndDelivers MeterRight
PROPERTIES CutBelowChunk Ended
CHECK_DEADLOCK FALSE
