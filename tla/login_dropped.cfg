\* A login that is dropped.
CONSTANTS
    Codes = {1}
    Lifetimes = {1}
    Grace = 1
    MaxClock = 3
    MaxStarts = 2
    MaxFaults = 0
SPECIFICATION MCSpec
PROPERTIES
    DroppedLoginIsNotFailed
CHECK_DEADLOCK FALSE
