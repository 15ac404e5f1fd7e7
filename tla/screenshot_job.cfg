\* Two posts, as many descriptors as one submission needs, and one restart.
CONSTANTS
    Posts = {p1, p2}
    NoPost = NoPost
    Fds = {f1, f2, f3}
    MaxRestarts = 1
SPECIFICATION MCSpec
INVARIANTS
    StrayMeansFailure
    SuccessIsPosted
    PostedOncePerTake
    PictureIsOfPost
PROPERTIES
    Submits
CHECK_DEADLOCK FALSE
