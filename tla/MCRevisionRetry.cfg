SPECIFICATION FairSpec
CONSTANTS
    r1 = r1
    Txns = {r1}
    art = art
    Artifacts = {art}
    None = None
    MaxFaults = 1
PROPERTIES
    RetrySucceeds
CHECK_DEADLOCK FALSE
