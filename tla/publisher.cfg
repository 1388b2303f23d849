SPECIFICATION FairSpec
CONSTANTS
    scheduler = scheduler
    request = request
    batch = batch
    created = created
    cancelled = cancelled
    Singles = {scheduler, request}
    Bursts = {batch}
    Emitters = {created, cancelled}
    Patient = {scheduler}
    Rounds <- Encounters
    BurstSize = 2
    Nobody = Nobody
INVARIANTS
    TypeOK
PROPERTIES
    ConfirmsAreHonest
    StopFreesPublishers
    OnlyThePatientBlock
    EventsNeverWait
CHECK_DEADLOCK FALSE
