SPECIFICATION FairSpec
CONSTANTS
    Missions = {m1}
    Profiles = {p1, p2}
    Workers = {w1, w2}
    None = None
    MaxAttempts = 2
    MaxFaults = 2
    MaxDeferrals = 2
    MaxLeases = 8
    Answers <- LiveAnswers
    Env <- LiveEnv
PROPERTIES EventuallySettled
CHECK_DEADLOCK FALSE
