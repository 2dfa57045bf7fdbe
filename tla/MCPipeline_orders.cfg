SPECIFICATION Spec
CONSTANTS
    A = A
    B = B
    R = R
    a = a
    b = b
    c = c
    None = None
    Node = {A, B, R}
    Slot = {1, 2}
    Key = {a, b, c}
    SlotOf <- SlotOfKey
    Owner <- Masters
    Tables <- Former
    Replicas <- Rows
    Keys <- Mixed
    Read = {}
    Importer <- Resharded
    ReadFromReplicas = FALSE
    OtherThreads = FALSE
    Attempts = 2
    RaiseOnError = {TRUE, FALSE}
    Fault = {}
    MaxFaults = 0
INVARIANT KeyOrder
INVARIANT AtMostOnce
