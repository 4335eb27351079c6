SPECIFICATION Spec
CONSTANTS
    q1 = q1
    None = None
    Types <- MCTypes
    Elements <- MCElements
    PerQueueTypes <- MCPerQueue
    AppTypes <- MCAppTypes
    Queues <- MCQueues
    Lists <- MCOnce
    QmgrLevel <- None
    Limit = 2
    MaxPublished = 3
INVARIANTS
    TypeOK
    NothingSkipped
    OneViewOfEachType
PROPERTIES
    NeverGoesBack
    BacklogIsRead
CHECK_DEADLOCK FALSE
