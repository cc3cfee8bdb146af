SPECIFICATION Spec
CONSTANTS
    Tasks = {1, 2}
    Slots <- OneSlot
    SlotOf <- SameSlot
    HarnessOf <- Harness
    CertifierOf <- Second
    Protected = {2}
    Kept = {2}
    Workers = {w1, w2}
    Roles = {"review"}
    MaxHead = 2
    MaxClaims = 2
    MaxFaults = 1
    None = None
INVARIANTS AweTypeOK SlotHeldOnce ReviewIsCertified
PROPERTIES ClosedByHolder ReviewedStays
SYMMETRY Symmetric
CHECK_DEADLOCK FALSE
