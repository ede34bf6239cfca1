SPECIFICATION Spec
CONSTANTS
    N = 2
    HostOps = {"leave"}
    JoinTimeouts = FALSE
    PromptSpin = TRUE
    LateStart = FALSE
    AllStarted = TRUE
    MaxProxy = 2
    MaxOps = 1
    MaxSends = 0
    MaxSessions = 1
    MaxStolen = 1
INVARIANTS RendezvousAnswered
