\* The file and its writer, with failing writes, stops and power losses.
CONSTANTS
    a = a
    b = b
    Change = {a, b}
    Batches <- MCBatches
    MaxLines = 4
SPECIFICATION MCFairSpec
INVARIANTS
    IdleMeansDurable
PROPERTIES
    ImplementsJournal
    EveryAcceptedIsSynced
    CancelEndsWriter
CHECK_DEADLOCK FALSE
