CONSTANTS
    m1 = m1
    x1 = x1
    x2 = x2
    q1 = q1
    MessageKeys <- MCKeys
    Lengths <- MCLengths
    Fragments <- MCFragments
    Pages <- MCPages
    MaxPending = 1
SPECIFICATION BrSpec
INVARIANTS
    AcceptedReachesSink
