SPECIFICATION FairSpec
CONSTANTS
    n1 = n1
    n2 = n2
    h1 = h1
    h2 = h2
    p1 = p1
    p2 = p2
    s1 = s1
    s2 = s2
    NoMessage = NoMessage
    Notifications = {n1}
    Handlers = {h1}
    Processes = {p1}
    ProcessOf <- OneHandler
    Schedulers = {s1}
    ClaimBatchLimit = 2
    MaxAttempts = 2
    MaxCopies = 1
    MaxFaults = 2
    FaultKinds = {"worker.crash", "scheduler.publish"}
PROPERTY
    EventuallySettled
