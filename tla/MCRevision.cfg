SPECIFICATION Spec
CONSTANTS
    r1 = r1
    r2 = r2
    r3 = r3
    Txns = {r1, r2, r3}
    art = art
    Artifacts = {art}
    None = None
    MaxFaults = 2
INVARIANTS
    CurrentIsValidated
PROPERTIES
    SwapIsOwn
CHECK_DEADLOCK FALSE
