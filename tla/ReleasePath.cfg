SPECIFICATION Spec
CONSTANTS
    Envs = {"review", "prod"}
    ProductionEnvs = {"prod"}
    Policies <- Registered
    Bundles = {b1, b2}
    Actors = {"owner", "factory"}
    Callers = {c1, c2}
    Candidates = {r1}
    Grants = {v1}
    MaxDeployments = 3
    MaxAttempt = 2
    MaxRollbacks = 1
    MaxFaults = 1
    None = None
INVARIANTS ValidatedWasServed PromotesWhatWasValidated
PROPERTIES AdmittedOnHealthyReview
SYMMETRY Symmetric
CHECK_DEADLOCK FALSE
