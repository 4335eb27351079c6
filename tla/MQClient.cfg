SPECIFICATION Spec
CONSTANTS
    h1 = h1
    h2 = h2
    h3 = h3
    h4 = h4
    h5 = h5
    None = None
    Handles <- MCHandles
    NoHandle <- None
    MaxRefused = 2
SYMMETRY MCSymmetry
INVARIANTS
    TypeOK
    NothingLeaks
    OwnersAgree
    SubscriptionKeepsItsQueue
    EarlyReturnIsSafe
