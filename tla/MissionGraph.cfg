SPECIFICATION Spec
CONSTANTS
    Missions = {m1, m2, m3}
    Profiles = {}
    Workers = {w1}
    None = None
    MaxAttempts = 1
    MaxFaults = 0
    MaxDeferrals = 0
    MaxLeases = 1
    Answers <- GoodAnswers
    Env <- GraphEnv
INVARIANTS Acyclic ReleasedIffCompleted NoSilentStall
SYMMETRY SymmetricMissions
CHECK_DEADLOCK FALSE
