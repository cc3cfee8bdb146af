SPECIFICATION SpecProduction
CONSTANTS
    Envs = {"prod"}
    ProductionEnvs = {"prod"}
    Policies <- Twice
    Bundles = {b1, b2}
    Actors = {"owner", "factory"}
    Callers = {c1, c2}
    Grants = {}
    MaxDeployments = 2
    MaxAttempt = 1
    MaxRollbacks = 2
    None = None
INVARIANTS ProductionTypeOK ApprovedBeforeReached DeployedOnce RollbackGoesBack RecoveredWasRestored ForwardBounded
SYMMETRY Symmetric
CHECK_DEADLOCK FALSE
