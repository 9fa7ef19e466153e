CONSTANTS
    Ids = {p1, p2, p3}
    Tokens = {foreign, t1, t2, t3, t4, t5}
    Foreign = foreign
    None = none
    MaxDisturb = 3
SPECIFICATION FairSpec
INVARIANTS TypeOK NoOrphan OneStart
PROPERTIES PublishedVerified Converges
