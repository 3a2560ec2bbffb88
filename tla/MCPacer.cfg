SPECIFICATION FairSpec
CONSTANTS
    Tasks = {1, 2, 3}
    FrameSizes = {1, 3, 5}
    Batch = 4
    Floor = 3
INVARIANTS
    KeepsRate
PROPERTIES
    EveryoneServed
