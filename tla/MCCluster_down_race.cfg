SPECIFICATION Spec
CONSTANTS
    n1 = n1
    n2 = n2
    n3 = n3
    s1 = s1
    s2 = s2
    Thread = {t1, t2}
    Node = {n1, n2}
    Slot = {s1, s2}
    None = None
    Startup = {n1}
    Shard0 <- BareShards
    RequestTTL = 3
    ConnErrorLimit = 2
    DownRetryAttempts = 2
    ReinitializeSteps = 2
    ReadFromReplicas = FALSE
    FullCoverage = FALSE
    MaxChanges = 2
INVARIANT RetryAfterDownIsFresh
