CONSTANTS
    Pids = {p1, p2, p3}
    NoFile = noFile
    Torn = torn
    MaxFaults = 6
SPECIFICATION FairSpec
INVARIANTS TypeOK SoleUnlessRaced LockStands
PROPERTIES StopEnds TakesOver
CHECK_DEADLOCK FALSE
