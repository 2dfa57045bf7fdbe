SPECIFICATION Spec
CONSTANTS
    n1 = n1
    n2 = n2
    n3 = n3
    s1 = s1
    s2 = s2
    Thread = {t1}
    Node = {n1, n2, n3}
    Slot = {s1, s2}
    None = None
    Startup = {n1}
    Shard0 <- OneShard
    RequestTTL = 4
    ConnErrorLimit = 2
    DownRetryAttempts = 2
    ReinitializeSteps = 2
    ReadFromReplicas = FALSE
    FullCoverage = FALSE
    MaxChanges = 2
INVARIANT RetryUncoveredIsFresh
