SPECIFICATION Spec
CONSTANTS
    Thread = {t1, t2}
    Node = {n1}
    Conn = {c1, c2, c3}
    None = None
    Discarded = Discarded
    MaxConnections = 2
    PerNode = FALSE
    Kind = {"keyed"}
PROPERTY ClosesOthersOnlyToReset
PROPERTY DownDisconnectsAll
