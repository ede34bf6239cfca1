SPECIFICATION FairSpec
CONSTANTS
    N = 1
    HostOps = {"switch", "time", "pin"}
    JoinTimeouts = FALSE
    PromptSpin = TRUE
    LateStart = FALSE
    AllStarted = TRUE
    MaxProxy = 3
    MaxOps = 2
    MaxSends = 0
    MaxSessions = 1
    MaxStolen = 1
PROPERTIES SwitchServed RendezvousEnds
CHECK_DEADLOCK FALSE
