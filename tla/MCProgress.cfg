CONSTANTS
    r1 = r1
    t1 = t1
    t2 = t2
    t3 = t3
    t4 = t4
    t5 = t5
    c1 = c1
    c2 = c2
    u1 = u1
    u2 = u2
    u3 = u3
    s1 = s1
    s2 = s2
    k1 = k1
    off = off
    onA = onA
    g1 = g1
    w1 = w1
    x1 = x1
    x2 = x2
    Requests <- MCRequests
    Repeating <- MCRequests
    Tokens <- MCTokens
    NoToken = NoToken
    SetupAttempts = 2
    Cooldown = 1
    Coordinators <- MCCoordinators
    NoCoordinator = NoCoordinator
    ShutdownTasks <- MCTasks
    NoShutdown = NoShutdown
    Nobody = Nobody
    ListenerOwners <- MCOwners
    Starters <- MCStarters
    Clients <- MCClients
    Settings <- MCSettings
    NoListener = off
    NoSession = NoSession
    Sessions <- MCSessions
    Writers <- MCWriters
    FrameLimit = 1
    BfDevices = 1
    DayBuckets <- MCDays
    PeriodBuckets <- MCPeriods
    StartupBudget = 3
    CycleBudget = 2
    AttemptLimit = 2
    d1 = d1
    Commands = {}
    Cred <- MCCred
    NoCred = NoCred
    Throttle = 2
    AuthPause = 1
    BackoffSteps <- MCBackoffSteps
    e1 = e1
    Creds <- MCCred
    Publishers <- MCPublishers
    NumTopics = 2
    MaxGen = 4
SPECIFICATION ProgressSpec
PROPERTIES
    SessionProgress
    SetupProgress
    ListenerProgress
    LinkProgress
    BackfillProgress
    ReconnectProgress
    RunnerProgress
    LossProgress
