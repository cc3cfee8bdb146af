SPECIFICATION Spec
CONSTANTS
    Missions = {m1}
    Profiles = {p1, p2}
    Workers = {w1, w2}
    None = None
    MaxAttempts = 2
    MaxFaults = 1
    MaxDeferrals = 1
    MaxLeases = 3
    Answers <- AllAnswers
    Env <- CoreEnv
INVARIANTS TypeOK OneHolder CompletedIsProven OneProcessPerProof
PROPERTIES LeaseNotStolen MemoStable NeverBackward
SYMMETRY Symmetric
CHECK_DEADLOCK FALSE
