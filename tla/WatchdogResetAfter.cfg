CONSTANTS
    Loop = loop
    Cyclers = {loop}
    Operators = {}
    Prewarmer = prewarmer
    NoProc = none
    PrewarmBackend = FALSE
    FailThreshold = 1
    Commands = {}
    Events <- Wear
    MaxDesktops = 1
    MaxRestarts = 2
    Window = 2
    InitialBackoff = 1
    MaxBackoff = 1
    ResetAfter = 2
    HalfRange = 128
    MaxStale = 1
    MaxStreak = 2
SPECIFICATION Spec
PROPERTY ForgottenWhenStable
