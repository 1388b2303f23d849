SPECIFICATION Spec
CONSTANTS
    r1 = r1
    r2 = r2
    k1 = k1
    k2 = k2
    Requests = {r1, r2}
    Keys = {k1}
    NoKey = NoKey
    MaxItems = 2
    MaxFaults = 1
SYMMETRY RequestSymmetry
INVARIANTS
    TypeOK
    OneRowPerKey
    AnswersNameRows
    BatchIsAtomic
    ConflictNeedsRace
    NoPhantomMessages
PROPERTY
    RowsMoveLegally
\* Requests finish, messages are taken: the behaviours end.
CHECK_DEADLOCK FALSE
