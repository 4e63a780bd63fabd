SPECIFICATION DeliverySpec
CONSTANTS
    Message = {m1}
    Poller = {p1}
    Turn = {t1}
    NoMessage = NoMessage
    MaxDeaths = 1
    MaxLapses = 1
    MaxRejects = 1
INVARIANT CommandsAreNotInjected

