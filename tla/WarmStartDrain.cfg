CONSTANTS
    Callers = {op}
    DrainTimeout = 1
    Cooperates = TRUE
    MaxRuns = 1
    MaxInstance = 2
    MaxEpoch = 2
    MaxSent = 1
SPECIFICATION Spec
INVARIANT SuccessDrained
