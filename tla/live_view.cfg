SPECIFICATION FairSpec
CONSTANTS
    c1 = c1
    c2 = c2
    n1 = n1
    n2 = n2
    Clients = {c1, c2}
    Notifications = {n1, n2}
    Everything = Everything
    Filter <- OneFiltered
    ClientBuffer = 1
    HubBuffer = 1
    MaxEvents = 2
INVARIANTS
    TypeOK
    HubNeverPanics
    NoClientLeaks
    StreamHasNoGaps
PROPERTIES
    ShutdownReturnsHandlers
    DisconnectReturnsHandler
    SlowClientsStallNobody
CHECK_DEADLOCK FALSE
