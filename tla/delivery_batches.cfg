SPECIFICATION Spec
CONSTANTS
    n1 = n1
    n2 = n2
    h1 = h1
    h2 = h2
    p1 = p1
    p2 = p2
    s1 = s1
    s2 = s2
    NoMessage = NoMessage
    Notifications = {n1, n2}
    Handlers = {h1}
    Processes = {p1}
    ProcessOf <- OneHandler
    Schedulers = {s1, s2}
    ClaimBatchLimit = 1
    MaxAttempts = 1
    MaxCopies = 1
    MaxFaults = 0
    FaultKinds = {}
INVARIANT
    NothingBeforeDue
PROPERTY
    ImplementsLifecycle
SYMMETRY SweepSymmetry
