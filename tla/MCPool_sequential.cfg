SPECIFICATION Spec
CONSTANTS
    Thread = {t1}
    Node = {n1, n2, n3}
    Conn = {c1, c2, c3, c4}
    None = None
    Discarded = Discarded
    MaxConnections = 2
    PerNode = FALSE
    Kind = {"keyed", "pubsub", "scan"}
SYMMETRY Symmetry
INVARIANT OpenBound
INVARIANT CounterExact
