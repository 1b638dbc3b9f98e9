CONSTANTS
    c1 = c1
    c2 = c2
    p1 = p1
    p2 = p2
    NoCred = NoCred
    Creds <- MCOneCred
    Publishers <- MCOnePublisher
    NumTopics = 2
    MaxGen = 4
SPECIFICATION Spec
CHECK_DEADLOCK FALSE
INVARIANTS
    StopClears
