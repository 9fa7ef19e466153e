CONSTANTS
    Loop = loop
    Cyclers = {loop}
    Operators = {}
    Prewarmer = prewarmer
    NoProc = none
    PrewarmBackend = TRUE
    FailThreshold = 1
    Commands = {}
    Events <- HeldWear
    MaxDesktops = 2
    MaxRestarts = 2
    Window = 4
    InitialBackoff = 1
    MaxBackoff = 1
    ResetAfter = 2
    HalfRange = 128
    MaxStale = 1
    MaxStreak = 2
SPECIFICATION RecoverableSpec
INVARIANTS RecoveryAllowed OneDesktop
PROPERTIES ReadyBackendSpared PauseQuiets SuppressQuiets BackendRecovers DesktopRecovers CrashLoopLatches
