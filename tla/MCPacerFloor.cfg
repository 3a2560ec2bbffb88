SPECIFICATION Spec
CONSTANTS
    Tasks = {1}
    FrameSizes = {1419}
    Batch = 500
    Floor = 1392
INVARIANTS
    FrameFits
