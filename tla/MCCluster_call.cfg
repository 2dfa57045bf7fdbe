SPECIFICATION FairSpec
CONSTANTS
    n1 = n1
    n2 = n2
    n3 = n3
    s1 = s1
    s2 = s2
    Thread = {t1}
    Node = {n1, n2, n3}
    Slot = {s1, s2}
    None = None
    Startup = {n1}
    Shard0 <- OneShard
    RequestTTL = 3
    ConnErrorLimit = 2
    DownRetryAttempts = 2
    ReinitializeSteps = 2
    ReadFromReplicas = TRUE
    FullCoverage = FALSE
    MaxChanges = 3
INVARIANT TypeOK
INVARIANT AskingReachesCommand
INVARIANT MovedCorrectsTable
INVARIANT RetryAfterDownIsFresh
PROPERTY AskIsFollowed
PROPERTY Terminates
