CONSTANTS
    c1 = c1
    c2 = c2
    p1 = p1
    p2 = p2
    NoCred = NoCred
    Creds <- MCCreds
    Publishers <- MCPublishers
    NumTopics = 2
    MaxGen = 5
SPECIFICATION Spec
CHECK_DEADLOCK FALSE
INVARIANTS
    TypeOK
    OneLiveRunner
    ConnectedIsOwned
    ProtocolWaitNotCancelled
    WaitersAreCurrent
    StoppedIsQuiet
PROPERTIES
    StaleRunnerIsSilent
    ImplementsBrokerSession
