\* A token that has expired but is within the grace.
CONSTANTS
    Codes = {1}
    Lifetimes = {1}
    Grace = 1
    MaxClock = 3
    MaxStarts = 2
    MaxFaults = 0
SPECIFICATION MCSpec
PROPERTIES
    ExpiredIsNotUsed
CHECK_DEADLOCK FALSE
