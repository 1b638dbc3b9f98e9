CONSTANTS
    MaxFrames = 4
    MaxCancels = 4
SPECIFICATION FairSpec
CHECK_DEADLOCK FALSE
INVARIANTS
    TypeOK
    NoStrandedFrames
    StopDrains
PROPERTIES
    ImplementsSerialDelivery
    AcceptedIsHanded
    StopEventuallyEnds
