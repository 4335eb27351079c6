SPECIFICATION Spec
CONSTANTS
    c1 = c1
    c2 = c2
    n1 = n1
    n2 = n2
    None = None
    Commands <- MCCommands
    NoCommand <- None
    Names <- MCNames
    NoName <- None
    Limit = 3
    MaxReplies = 4
CHECK_DEADLOCK FALSE
INVARIANTS
    TypeOK
    NoForeignReplies
PROPERTIES
    ImplementsInquiry
    CallReturns
