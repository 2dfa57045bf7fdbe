SPECIFICATION Spec
CONSTANTS
    n1 = n1
    n2 = n2
    n3 = n3
    n4 = n4
    Thread = {t1}
    Node = {n1, n2, n3}
    Name <- OwnName
    Conn = {c1, c2, c3}
    Queue = {q1}
    None = None
    MaxConnections = 2
    PerNode = FALSE
    Timeout = FALSE
    MaxResets = 0
CHECK_DEADLOCK FALSE
INVARIANT WaitsForAnother
