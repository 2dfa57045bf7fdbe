SPECIFICATION Spec
CONSTANTS
    x = x
    y = y
    c1 = c1
    c2 = c2
    Empty = Empty
    Client = {c1, c2}
    Key <- Keys
    SlotOf <- SlotOfKey
    ServerSlot <- ServerSlotOfKey
    Atom = {x, y, Empty}
    Temp <- Temps
    Loads <- Edges
    MaxFaults = 0
CHECK_DEADLOCK FALSE
INVARIANT TypeOK
PROPERTY AlwaysAtomic
