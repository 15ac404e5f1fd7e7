\* One archive beside the other loops, and one post whose data they share.
CONSTANTS
    Posts = {p1}
    NoPost = NoPost
    Archives = {"wikiwix"}
SPECIFICATION FairSpec
INVARIANTS
    NoDeadlock
PROPERTIES
    EveryWaitEnds
    CancelledLoopsEnd
CHECK_DEADLOCK FALSE
