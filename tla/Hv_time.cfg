SPECIFICATION Spec
CONSTANTS
    N = 1
    HostOps = {}
    JoinTimeouts = FALSE
    PromptSpin = TRUE
    LateStart = FALSE
    AllStarted = TRUE
    MaxProxy = 2
    MaxOps = 1
    MaxSends = 0
    MaxSessions = 1
    MaxStolen = 4
INVARIANTS TimeConsistent
