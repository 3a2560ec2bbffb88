SPECIFICATION FairSpec
CONSTANTS
    dev_a = dev_a
    dev_b = dev_b
    Keys = {dev_a, dev_b}
    MaxSessions = 1
    PerDevice = 16
    TakeoverMax = 1
    IdleAfter = 2
    MaxStarts = 2
    MaxFailures = 1
    MaxUpstream = 1
INVARIANTS
    SessionsBounded
PROPERTIES
    DevicesIsolated
    EstablishedStays
    ClientsServed
