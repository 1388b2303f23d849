SPECIFICATION FairSpec
CONSTANTS
    n1 = n1
    n2 = n2
    h1 = h1
    h2 = h2
    p1 = p1
    p2 = p2
    s1 = s1
    s2 = s2
    NoMessage = NoMessage
    Notifications = {n1}
    Handlers = {h1, h2}
    Processes = {p1, p2}
    ProcessOf <- TwoProcesses
    Schedulers = {s1}
    ClaimBatchLimit = 2
    MaxAttempts = 2
    MaxCopies = 2
    MaxFaults = 1
    FaultKinds = {"worker.crash", "worker.shutdown", "worker.database", "worker.publish", "provider.response", "worker.slow", "service.database", "service.publish", "service.abandoned"}
INVARIANTS
    RetryingIsCarried
    DeadLetteredOnceFailed
PROPERTY
    EventuallySettled
