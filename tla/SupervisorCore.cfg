SPECIFICATION Spec
SYMMETRY Symmetric
CONSTANTS
    Projects = {p1}
    Triggers = {r1}
    Backlog = {b1, b2}
    Operators = {op}
    Callers = {c1, c2}
    Owners = {ow}
    None = None
    ProjectOf <- OneProject
    SignatureOf <- OneSignature
    RepairBudget = 2
    Concurrency = 1
    AttemptCeiling = 2
    SuppressionThreshold = 2
    PerCycle = 1
    Admissions = 1
    Threshold = 1
    MaxCycles = 3
    MaxMoves = 1
    MaxFaults = 1
INVARIANTS SupervisorTypeOK EscalationBounds
PROPERTIES CyclesSettledOnce
CHECK_DEADLOCK FALSE
