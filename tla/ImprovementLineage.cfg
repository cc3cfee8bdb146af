SPECIFICATION Spec
CONSTANTS
    Objectives = {o1}
    SelfTargets = {}
    Shas = {s0, s1}
    Readings = {"improved", "regressed"}
    Dispositions = {"accepted", "rejected"}
    Operators = {p1, p2}
    None = None
    Ceiling = 2
    Budget = 2
    Concurrency = 1
    MaxRevisions = 1
INVARIANTS ImprovementTypeOK LineageChained AcceptedWasShown
SYMMETRY Symmetric
CHECK_DEADLOCK FALSE
