SPECIFICATION Spec
CONSTANTS
    app = app
    sys = sys
    mqi = mqi
    None = None
    Configs <- MCConfigs
    Queues <- MCQueues
    Application <- mqi
    Matched <- MCQueues
    Excluded <- MCApp
    SystemQueues <- MCSys
    NoSeries <- None
    MaxValue = 1
    MaxWaiting = 1
    MaxAccounting = 2
INVARIANTS
    TypeOK
    AccountingBalances
    InquiryBeatsMessage
    EverySectionIsTried
    ExcludedNotShown
