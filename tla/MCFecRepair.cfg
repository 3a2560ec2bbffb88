SPECIFICATION Spec
CONSTANTS
    ReorderWindow = 2
    MinSample = 2
    PPM = 100
    MaxSequence = 20
    SeqNums <- MCSequences
    DataShards = 2
    MaxParity = 1
    GroupTTL = 2
    ReassemblyTTL = 3
    MaxGroups = 4
    MaxReassemblies = 1
    MaxDelay = 1
    FragmentCounts = {1, 2}
    MaxDatagrams = 2
    MaxReports = 1
    MaxTime = 2
INVARIANTS
    BoundedTables
    RepairWorks
PROPERTIES
    ChannelSpec
CHECK_DEADLOCK FALSE
