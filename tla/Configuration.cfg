SPECIFICATION Spec
CONSTANTS
    Directories <- MCDirectories
    Environments <- MCEnvironments
    Calls <- MCCalls
    MaxCalls = 2
    Unreadable = Unreadable
    Missing = Missing
    Broken = Broken
    HostPort <- MCHostPort
INVARIANTS
    
    ValidatedConfigurationStarts
    GeneratedFileIsNeutral
