SPECIFICATION Spec
CONSTANTS
    Configs <- MCShippedConfigs
    CounterCap = 4
INVARIANT
    StopIsThreadSafe
