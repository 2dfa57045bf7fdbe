SPECIFICATION Spec
CONSTANTS
    h1 = h1
    h2 = h2
    p1 = p1
    p2 = p2
    Host = {h1, h2}
    Port = {p1, p2}
    Slot = {1, 2, 3}
    Unnamed = Unnamed
    Orig <- Seeds
    Answers <- Alone
    Rules <- None
    RequireFull = TRUE
    SkipCoverageCheck = FALSE
    FollowCluster = FALSE
    MaxDisagreements = 1
INVARIANT UnnamedIsTheAnswerer
