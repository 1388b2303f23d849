SPECIFICATION FairSpec
CONSTANTS
    h1 = h1
    h2 = h2
    u1 = u1
    Handlers = {h1, h2}
    RatePerChannel = 1
    Overrides = {u1}
    Default = Default
    CacheTTL = 2
    Transit = 1
    Window = 2
INVARIANTS
    TypeOK
    CallsAreBounded
PROPERTIES
    SendsAreRecent
    HandlersGetThrough
