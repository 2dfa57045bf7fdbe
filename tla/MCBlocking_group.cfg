SPECIFICATION FairSpec
CONSTANTS
    n1 = n1
    n2 = n2
    n3 = n3
    n4 = n4
    Thread = {t1, t2}
    Node = {n1, n2, n3}
    Name <- OwnName
    Conn = {c1, c2, c3, c4, c5, c6}
    Queue = {q1, q2, q3}
    None = None
    MaxConnections = 2
    PerNode = FALSE
    Timeout = TRUE
    MaxResets = 1
VIEW View
INVARIANT OpenBound
PROPERTY Terminates
PROPERTY ImplementsPool
PROPERTY OnlyTimeoutsLose
