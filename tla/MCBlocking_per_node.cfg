SPECIFICATION Spec
CONSTANTS
    n1 = n1
    n2 = n2
    n3 = n3
    n4 = n4
    Thread = {t1, t2, t3}
    Node = {n1, n2}
    Name <- SameName
    Conn = {c1, c2, c3, c4, c5}
    Queue = {q1, q2, q3, q4, q5}
    None = None
    MaxConnections = 1
    PerNode = TRUE
    Timeout = TRUE
    MaxResets = 0
VIEW View
SYMMETRY Symmetry
INVARIANT Exclusive
