SPECIFICATION Spec
CONSTANTS
    ReorderWindow = 2
    MinSample = 2
    PPM = 100
    MaxSequence = 20
    SeqNums <- MCSequences
    DataShards = 2
    MaxParity = 2
    GroupTTL = 1
    ReassemblyTTL = 2
    MaxGroups = 1
    MaxReassemblies = 3
    MaxDelay = 3
    FragmentCounts = {1, 2, 3}
    MaxDatagrams = 1
    MaxReports = 0
    MaxTime = 3
INVARIANTS
    BoundedTables
    RepeatsAreLate
CHECK_DEADLOCK FALSE
