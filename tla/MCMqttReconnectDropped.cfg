CONSTANTS
    k1 = k1
    c1 = c1
    c2 = c2
    NoCred = NoCred
    Commands = {}
    Cred <- MCCred
    Throttle = 2
    AuthPause = 1
    BackoffSteps <- MCBackoffSteps
SPECIFICATION Spec
PROPERTIES
    DroppedWasRefused
