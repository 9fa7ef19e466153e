CONSTANTS
    Callers = {op, op2}
    DrainTimeout = 1
    Cooperates = FALSE
    MaxRuns = 1
    MaxInstance = 3
    MaxEpoch = 3
    MaxSent = 1
SPECIFICATION FairSpec
INVARIANTS SequenceInv Replaced
PROPERTIES GateKept LeaseStands RevokedForGood SequencesEnd
