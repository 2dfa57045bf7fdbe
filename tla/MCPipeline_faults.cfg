SPECIFICATION FairSpec
CONSTANTS
    A = A
    B = B
    R = R
    a = a
    b = b
    c = c
    None = None
    Node = {A, B, R}
    Slot = {1, 2}
    Key = {a, b, c}
    SlotOf <- SlotOfKey
    Owner <- Masters
    Tables <- Former
    Replicas <- Rows
    Keys <- Evals
    Read = {1}
    Importer <- Resharded
    ReadFromReplicas = TRUE
    OtherThreads = TRUE
    Attempts = 2
    RaiseOnError = {TRUE}
    Fault = {"connection", "down", "error", "route"}
    MaxFaults = 2
INVARIANT NoStaleReplies
INVARIANT OwnReply
PROPERTY Terminates
