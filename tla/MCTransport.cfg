SPECIFICATION FairSpec
CONSTANTS
    Senders <- MCSenders
    Hello = "hello"
    Packet <- MCPacket
    Base = 4
INVARIANTS Intact FailsOnlyAtEnd StrandedByFailure
PROPERTIES Delivered
CHECK_DEADLOCK FALSE
