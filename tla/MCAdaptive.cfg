SPECIFICATION Spec
CONSTANTS
    MaxLoss = 1000
    Level <- MCLevel
    BypassLoss = 300
    Samples <- MCSamples
    Unavailable = Unavailable
    RaiseAfter = 2
    LowerAfter = 3
    IdleAfter = 3
    BypassAfter = 3
    CounterMax = 4
INVARIANTS
    TypeOK
    BypassIsQuiet
PROPERTIES
    NeverOvershoots
    SteadyLossSettles
