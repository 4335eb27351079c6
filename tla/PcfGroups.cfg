SPECIFICATION Spec
CONSTANTS
    Empty = ""
    Size <- MCSize
    Hidden <- MCHidden
    None = None
    Word <- MCWord
    Inputs <- MCInputs
INVARIANT
    GroupsKeepMembers
