SPECIFICATION LinkSpec
CONSTANTS
    Settings <- ShippedSettings
    DeadAfter = 3
    MaxDelay = 4
    MaxLate = 0
CHECK_DEADLOCK FALSE
PROPERTIES
    Reconnects
