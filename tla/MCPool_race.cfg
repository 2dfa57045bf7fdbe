SPECIFICATION Spec
CONSTANTS
    Thread = {t1, t2}
    Node = {n1, n2}
    Conn = {c1, c2, c3, c4}
    None = None
    Discarded = Discarded
    MaxConnections = 1
    PerNode = FALSE
    Kind = {"keyed"}
SYMMETRY Symmetry
INVARIANT OpenBound
