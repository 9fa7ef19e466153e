CONSTANTS
    Loop = loop
    Cyclers = {loop}
    Operators = {op}
    Prewarmer = prewarmer
    NoProc = none
    PrewarmBackend = FALSE
    FailThreshold = 1
    Commands <- AllCommands
    Events <- Faults
    MaxDesktops = 1
    MaxRestarts = 2
    Window = 3
    InitialBackoff = 2
    MaxBackoff = 1
    ResetAfter = 2
    HalfRange = 4
    MaxStale = 1
    MaxStreak = 2
SPECIFICATION Spec
INVARIANTS TypeOK RecoveryAllowed AttemptsSpaced
PROPERTIES LatchHolds BreakerKept
