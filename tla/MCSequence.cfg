SPECIFICATION FairSpec
CONSTANTS
    ReorderWindow = 3
    MinSample = 2
    PPM = 100
    MaxSequence = 12
    SeqNums <- MCSequences
INVARIANTS
    ProcessedAtMostOnce
    ReorderTolerated
    ReportsAddUp
PROPERTIES
    GapsReported
