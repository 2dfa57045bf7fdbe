SPECIFICATION Spec
CONSTANTS
    t1 = t1
    p1 = p1
    None = None
    Thread = {t1, t2, t3}
    Conn = {p1, p2, c1, c2, c3}
    Inherited = {p1, p2}
    Parents = {p2}
    HeldAtFork <- OneHeld
INVARIANT OwnSockets
