CONSTANTS
    r1 = r1
    r2 = r2
    t1 = t1
    t2 = t2
    t3 = t3
    t4 = t4
    t5 = t5
    t6 = t6
    t7 = t7
    t8 = t8
    c1 = c1
    c2 = c2
    c3 = c3
    u1 = u1
    u2 = u2
    u3 = u3
    y1 = y1
    y2 = y2
    p1 = p1
    Requests <- MCRequests
    Repeating <- MCRepeating
    Tokens <- MCTokens
    NoToken = NoToken
    SetupAttempts = 2
    Cooldown = 1
    Coordinators <- MCCoordinators
    NoCoordinator = NoCoordinator
    ShutdownTasks <- MCTasks
    NoShutdown = NoShutdown
    BfDevices = 1
    DayBuckets <- MCDays
    PeriodBuckets <- MCPeriods
    StartupBudget = 2
    CycleBudget = 1
    AttemptLimit = 1
    MaxCommands = 2
    MaxGenerations = 2
    LastDay = 3
    LastReading = 2
SPECIFICATION AccountSpec
INVARIANTS
    AccountTypeOK
    OneRuntime
    ImportedIsRecorded
    NewerOutcomeStands
    AnswerIsFinal
PROPERTIES
    FreshTokenKept
    StartupIsComplete
    DailyAnchorStands
CHECK_DEADLOCK FALSE
