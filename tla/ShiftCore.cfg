SPECIFICATION Spec
SYMMETRY Symmetric
CONSTANTS
    OtherRefs = {own}
    MaxShifts = 2
    Slots = 2
    MaxAttempts = 2
    Ceiling = 2
    None = None
    Owners = {o1, o2}
    Service = service
    DrainSteps = 1
    PerCycle = 1
    MaxMoves = 3
    MaxFaults = 1
INVARIANTS FactoryTypeOK OneFactoryShift StrictlySerial
CHECK_DEADLOCK FALSE
