SPECIFICATION FairSpec
CONSTANTS
    N = 1
    HostOps = {"leave", "exit", "start", "stealing"}
    JoinTimeouts = TRUE
    PromptSpin = TRUE
    LateStart = FALSE
    AllStarted = TRUE
    MaxProxy = 2
    MaxOps = 2
    MaxSends = 1
    MaxSessions = 2
    MaxStolen = 1
INVARIANTS SessionSafe
PROPERTIES JoinEnds
CHECK_DEADLOCK FALSE
