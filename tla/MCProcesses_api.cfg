CONSTANTS
    Parts = {"daemons"}
    Pool = 1
    Launcher = {w1, c1}
    Web = {w1}
    Procs = 2
    Stopper = {s1}
    None = None
    Pid = {x1, x2, x3}
    Caller = {cron, hand}
    Cron = {}
    Crews <- ClickCrews
    Clicks = TRUE
SPECIFICATION MCSpec
PROPERTIES
    RestartComesBack
CHECK_DEADLOCK FALSE
