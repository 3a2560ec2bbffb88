SPECIFICATION Spec
CONSTANTS
    dev_a = dev_a
    Keys = {dev_a}
    MaxSessions = 1
    PerDevice = 16
    TakeoverMax = 1
    IdleAfter = 2
    MaxStarts = 2
    MaxFailures = 0
    MaxUpstream = 0
PROPERTIES
    LateFramesCannotTakeOver
