\* Nobody stops the service: a post is carried to the comment queue and out of it.
CONSTANTS
    Posts = {1}
    Archives = {"outline_com"}
    MaxStarts = 1
    MaxFaults = 0
    MaxCancels = 0
    MaxTroubles = 1
    Failing = {}
SPECIFICATION MCFairSpec
PROPERTIES
    FoundIsOffered
    OfferedIsTaken
CHECK_DEADLOCK FALSE
