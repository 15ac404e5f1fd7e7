\* A fault at any moment, Ctrl+C or a failed login, and a second start that reads
\* back what is left.
CONSTANTS
    Posts = {1}
    Archives = {"outline_com"}
    MaxStarts = 2
    MaxFaults = 1
    MaxCancels = 1
    MaxTroubles = 1
    Failing = {"screenshot"}
SPECIFICATION MCSpec
INVARIANTS
    TypeOK
    MemoryIsRecoverable
    FileIsWellFormed
PROPERTIES
    NotSubmittedAgain
CHECK_DEADLOCK FALSE
