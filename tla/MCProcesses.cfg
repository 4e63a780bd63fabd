CONSTANTS
    Parts = {"ships", "stops", "daemons"}
    Pool = 1
    Launcher = {w1, c1}
    Web = {w1}
    Procs = 2
    Stopper = {s1}
    None = None
    Pid = {x1, x2, x3}
    Caller = {cron, hand}
    Cron = {cron}
    Crews <- MCCrews
    Clicks = FALSE
SPECIFICATION MCSpec
INVARIANTS
    TypesOK
    OneShipPerName
PROPERTIES
    StopIsHonoured
    NamesComeFree
    ServesAgain
CHECK_DEADLOCK FALSE
