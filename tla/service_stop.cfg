\* Ctrl+C or a failed login at any moment ends the process.
CONSTANTS
    Posts = {1}
    Archives = {}
    MaxStarts = 1
    MaxFaults = 0
    MaxCancels = 1
    MaxTroubles = 1
    Failing = {"screenshot"}
SPECIFICATION MCFairSpec
PROPERTIES
    CancelStops
    WorkersWindDown
CHECK_DEADLOCK FALSE
