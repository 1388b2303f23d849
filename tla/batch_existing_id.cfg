SPECIFICATION Spec
CONSTANTS
    r1 = r1
    r2 = r2
    k1 = k1
    k2 = k2
    Requests = {r1}
    Keys = {k1}
    NoKey = NoKey
    MaxItems = 2
    MaxFaults = 0
INVARIANT
    DuplicatesNameRows
CHECK_DEADLOCK FALSE
