SPECIFICATION Spec
CONSTANTS
    Thread = {t1, t2}
    Node = {n1, n2}
    Conn = {c1, c2, c3, c4}
    None = None
    Discarded = Discarded
    MaxConnections = 2
    PerNode = FALSE
    Kind = {"keyed", "nodes", "pubsub"}
SYMMETRY Symmetry
VIEW View
INVARIANT TypeOK
INVARIANT Exclusive
INVARIANT NothingLeaks
INVARIANT PerNodeBound
PROPERTY ImplementsPool
