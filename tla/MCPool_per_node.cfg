SPECIFICATION Spec
CONSTANTS
    Thread = {t1}
    Node = {n1, n2}
    Conn = {c1, c2, c3, c4, c5}
    None = None
    Discarded = Discarded
    MaxConnections = 2
    PerNode = TRUE
    Kind = {"keyed", "pubsub", "scan"}
SYMMETRY Symmetry
INVARIANT OpenBound
INVARIANT CounterExact
