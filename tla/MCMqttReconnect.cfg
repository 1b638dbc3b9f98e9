CONSTANTS
    k1 = k1
    c1 = c1
    c2 = c2
    NoCred = NoCred
    Commands <- MCCommands
    Cred <- MCOneCred
    Throttle = 2
    AuthPause = 1
    BackoffSteps <- MCBackoffSteps
SPECIFICATION Spec
INVARIANTS
    TypeOK
PROPERTIES
    LoopIsThrottled
