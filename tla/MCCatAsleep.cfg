SPECIFICATION Spec
CONSTANTS
    LogCap = 2
    Setups <- MCSetups
    MaxEvents = 3
    MaxTrouble = 2
    MaxEpochs = 1
    MaxOpen = 2
    MaxClosed = 1
INVARIANT EveryMessageAnswered
