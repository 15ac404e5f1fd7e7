\* Two posts, each archive in turn, listings of two, and one restart.
CONSTANTS
    MinI64 <- LeastI64
    MaxI64 = 3
    MinUtc = 0
    MaxUtc = 1
    Ids = {1, 2}
    Refs = {1, 2, 3}
    Archives = {"outline_com", "wikiwix", "google_cache"}
    Queried = {1}
    NoWork = NoWork
    MaxTroubles = 1
SPECIFICATION MCSpec
INVARIANTS
    TypeOK
    HeapIsSet
    DataIsShared
PROPERTIES
    OutcomeIsEarned
    ImplementsBacklog
    ImplementsSubmission
    EverySubmissionEnds
CHECK_DEADLOCK FALSE
