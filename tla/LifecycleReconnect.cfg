SPECIFICATION Spec
CONSTANTS
    Configs <- MCShippedConfigs
    CounterCap = 4
PROPERTY
    LostConnectionRedialled
