CONSTANTS
    Ids = {p1, p2}
    Tokens = {foreign, t1, t2, t3}
    Foreign = foreign
    None = none
    MaxDisturb = 1
SPECIFICATION Spec
PROPERTY FreshAfterRefusal
