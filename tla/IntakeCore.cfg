SPECIFICATION Spec
CONSTANTS
    Items = {1}
    Opening <- Packets
    Inbox <- SameInbox
    Callers = {c1, c2}
    None = None
    NameOf <- OwnNames
    MaxCycles <- Bound
    MaxEdits = 1
INVARIANTS OwnerItemsHeld IntakeTypeOK
PROPERTIES CyclesSettledOnce
SYMMETRY Symmetric
CHECK_DEADLOCK FALSE
