SPECIFICATION FairSpec
CONSTANTS
    h1 = h1
    h2 = h2
    p1 = p1
    p2 = p2
    Host = {h1, h2}
    Port = {p1, p2}
    Slot = {1, 2, 3}
    Unnamed = Unnamed
    Orig <- Outside
    Answers <- Varied
    Rules <- TwoRules
    RequireFull = TRUE
    SkipCoverageCheck = FALSE
    FollowCluster = TRUE
    MaxDisagreements = 1
INVARIANT AllOrNothing
INVARIANT SlotsAreOfNodes
INVARIANT CoversWhatIsRequired
INVARIANT RowsAreNotMixed
PROPERTY Terminates
