\* init and run up to three times, two codes, tokens that last one tick, and one fault.
CONSTANTS
    Codes = {1, 2}
    Lifetimes = {1}
    Grace = 1
    MaxClock = 3
    MaxStarts = 3
    MaxFaults = 1
SPECIFICATION MCFairSpec
INVARIANTS
    TypeOK
    TokenIsRecoverable
    InitIsComplete
    OnlyInitUsesCodes
    FirstLoginStays
PROPERTIES
    LoginEnds
CHECK_DEADLOCK FALSE
