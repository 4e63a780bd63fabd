SPECIFICATION MCSpec
CONSTANTS
    Parts = {"proxy", "plugin"}
    Client = {c1, c2}
    Session = {c1}
    p = p
    c1 = c1
    c2 = c2
    p1 = p1
    p2 = p2
    Asks <- MCAsks
    Models = 2
    Provider = {p}
    ProviderOf <- MCProviderOf
    MaxRetries = 0
    Failures = 2
    None = None
    Err <- MCErr
    Poller = {p1, p2}
    Fallback = TRUE
    IsFlagship = FALSE
INVARIANTS
    TypesOK
    NoSplice
PROPERTIES
    BreakerHolds
    RequestEnds
    NotLeftParked
CHECK_DEADLOCK FALSE
