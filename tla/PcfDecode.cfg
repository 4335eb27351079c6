SPECIFICATION Spec
CONSTANTS
    Empty = ""
    Size <- MCSize
    Hidden <- MCHidden
    None = None
    Word <- MCWord
    Inputs <- MCInputs
INVARIANTS
    TypeOK
    WalkInBounds
    ReadsInBounds
    DecodesWhatWasSent
    EachReplyOnItsOwn
    HandlesAreSeparate
    DiscoveryIsExact
    CountersAsSaid
PROPERTIES
    WalkAdvances
    DecodingEnds
