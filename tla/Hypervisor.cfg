SPECIFICATION MCSpec
CONSTANTS
    N = 1
    HostOps = {"pin", "time"}
    JoinTimeouts = FALSE
    PromptSpin = TRUE
    LateStart = FALSE
    AllStarted = TRUE
    MaxProxy = 2
    MaxOps = 1
    MaxSends = 1
    MaxSessions = 1
    MaxStolen = 1
    c1 = c1
    c2 = c2
SYMMETRY Symmetry
INVARIANTS LockedAlone IpiNotLost GuestMemorySound ShadowSound WatchdogSound VirtioSound
