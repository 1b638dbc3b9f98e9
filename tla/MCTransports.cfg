CONSTANTS
    c1 = c1
    c2 = c2
    s1 = s1
    s2 = s2
    k1 = k1
    k2 = k2
    off = off
    onA = onA
    g1 = g1
    g2 = g2
    w1 = w1
    w2 = w2
    f1 = f1
    f2 = f2
    v1 = v1
    v2 = v2
    m1 = m1
    m2 = m2
    x1 = x1
    x2 = x2
    q1 = q1
    MessageKeys <- MCKeys
    Lengths <- MCLengths
    Fragments <- MCFragments
    Pages <- MCPages
    MaxPending = 1
    Blank = Blank
    LiveFields <- MCLive
    CanonicalFields <- MCLive
    SettingFields <- MCOther
    PropertyValues <- MCValues
    Pushers = {"cloud_mqtt", "ble"}
    Window = 1
    OverrideTTL = 2
    Nobody = Nobody
    NoSession = NoSession
    ListenerOwners <- MCOwners
    Starters <- MCStarters
    Clients <- MCClients
    Settings <- MCSettings
    NoListener = off
    Sessions <- MCSessions
    Writers <- MCWriters
    FrameLimit = 2
    MaxQueued = 2
    MaxFrames = 4
    MaxCancels = 3
    MaxDrains = 2
SPECIFICATION TransportsSpec
SYMMETRY MCSymmetry
INVARIANTS
    TransportsTypeOK
    OneListener
    OneLink
    AckWaiterOwned
    MessagesAreWhole
PROPERTIES
    BleFifoSpec
    LocalFifoSpec
    ChangesSurvive
CHECK_DEADLOCK FALSE
