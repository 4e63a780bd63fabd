CONSTANTS
    Parts = {"stops"}
    Pool = 1
    Launcher = {w1, c1}
    Web = {w1}
    Procs = 2
    Stopper = {s1}
    None = None
    Pid = {x1, x2, x3}
    Caller = {cron, hand}
    Cron = {cron}
    Crews <- MCCrews
    Clicks = FALSE
SPECIFICATION MCSpec
PROPERTIES
    MarkerTellsStop
CHECK_DEADLOCK FALSE
