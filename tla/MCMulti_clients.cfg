SPECIFICATION Spec
CONSTANTS
    x = x
    y = y
    c1 = c1
    c2 = c2
    Empty = Empty
    Client = {c1, c2}
    Key <- Keys
    SlotOf <- SlotOfKey
    ServerSlot <- ServerSlotOfKey
    Atom = {x, y, Empty}
    Temp <- Temps
    Loads <- All
    MaxFaults = 1
PROPERTY AloneIsAtomic
PROPERTY RenameNeverLoses
INVARIANT MovesKeepElements
