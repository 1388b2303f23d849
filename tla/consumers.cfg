SPECIFICATION FairSpec
CONSTANTS
    sms = sms
    email = email
    m1 = m1
    m2 = m2
    m3 = m3
    Queues = {sms, email}
    Messages = {m1, m2}
    QueueOf <- TwoOfOne
    Prefetch = 2
    Concurrency = 1
    MaxFaults = 2
    FaultKinds = {"worker.database", "worker.channel", "worker.connection", "worker.shutdown"}
INVARIANTS
    TypeOK
    NothingLeftBehind
    UnackedIsInHand
PROPERTIES
    PauseTakesHold
    ResumeDelivers
    StopEndsRun
