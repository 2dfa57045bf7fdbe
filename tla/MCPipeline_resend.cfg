SPECIFICATION Spec
CONSTANTS
    A = A
    B = B
    R = R
    a = a
    b = b
    c = c
    None = None
    Node = {A, B, R}
    Slot = {1, 2}
    Key = {a, b, c}
    SlotOf <- SlotOfKey
    Owner <- Masters
    Tables <- Fresh
    Replicas <- Rows
    Keys <- TwoOf1
    Read = {}
    Importer <- Steady
    ReadFromReplicas = FALSE
    OtherThreads = FALSE
    Attempts = 2
    RaiseOnError = {TRUE}
    Fault = {"connection", "down"}
    MaxFaults = 1
INVARIANT TypeOK
INVARIANT AtMostOnce
PROPERTY ResendIsFresh
PROPERTY DoneIsDone
