SPECIFICATION Spec
CONSTANTS
    Thread = {t1}
    Node = {n1, n2}
    Conn = {c1, c2, c3}
    None = None
    Discarded = Discarded
    MaxConnections = 1
    PerNode = FALSE
    Kind = {"nodes"}
SYMMETRY Symmetry
INVARIANT OpenBound
