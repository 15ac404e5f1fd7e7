\* Two posts and the loops of one run of the process; no faults.
CONSTANTS
    Posts = {1, 2}
    Archives = {"outline_com"}
    MaxStarts = 1
    MaxFaults = 0
    MaxCancels = 0
    MaxTroubles = 1
    Failing = {}
SPECIFICATION MCSpec
VIEW MemoryView
INVARIANTS
    NoLostWakeup
    CommentQueueIsReady
PROPERTIES
    OutcomesAreFinal
CHECK_DEADLOCK FALSE
