SPECIFICATION Spec
CONSTANTS
    A = A
    B = B
    R = R
    a = a
    b = b
    c = c
    None = None
    Node = {A, B, R}
    Slot = {1, 2}
    Key = {a, b, c}
    SlotOf <- SlotOfKey
    Owner <- Masters
    Tables <- Fresh
    Replicas <- Rows
    Keys <- TwoOfA
    Read = {}
    Importer <- Resharded
    ReadFromReplicas = FALSE
    OtherThreads = TRUE
    Attempts = 2
    RaiseOnError = {TRUE}
    Fault = {}
    MaxFaults = 0
INVARIANT KeyOrder
