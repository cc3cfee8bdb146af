SPECIFICATION Spec
CONSTANTS
    Missions = {m1}
    Profiles = {p1, p2}
    Workers = {w1}
    None = None
    MaxAttempts = 2
    MaxFaults = 1
    MaxDeferrals = 0
    MaxLeases = 4
    Answers <- LiveAnswers
    Env <- LiveEnv
INVARIANT OneProcess
CHECK_DEADLOCK FALSE
