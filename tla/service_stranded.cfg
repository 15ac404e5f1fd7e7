\* The same with Wikiwix, whose queue the replay does not fill, and failing submissions.
CONSTANTS
    Posts = {1}
    Archives = {"wikiwix"}
    MaxStarts = 2
    MaxFaults = 1
    MaxCancels = 0
    MaxTroubles = 1
    Failing = {"screenshot"}
SPECIFICATION MCSpec
INVARIANTS
    NothingStranded
PROPERTIES
    ImplementsSubmissions
CHECK_DEADLOCK FALSE
