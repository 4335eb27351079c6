SPECIFICATION Spec
CONSTANTS
    Configs <- MCConfigs
    CounterCap = 4
INVARIANTS
    TypeOK
    EndpointUpWhileRunning
    AtMostOneLateCycle
    NothingHeldAtExit
PROPERTIES
    SignalHonouredWhileRunning
    BoundedRunEnds
    FirstConnectRetried
