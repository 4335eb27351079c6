SPECIFICATION Spec
CONSTANTS
    app = app
    sys = sys
    mqi = mqi
    None = None
    Configs <- MCUsual
    Queues <- MCQueues
    Application <- mqi
    Matched <- MCQueues
    Excluded <- MCNone
    SystemQueues <- MCSys
    NoSeries <- None
    MaxValue = 1
    MaxWaiting = 1
    MaxAccounting = 1
INVARIANT
    ReportsDisconnection
