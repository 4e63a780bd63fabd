CONSTANTS
    Parts = {"store", "names", "status"}
    a = a
    b = b
    cli = cli
    plugin = plugin
    Nobody = Nobody
    NoTask = NoTask
    NoProc = NoProc
    Proc <- MCProc
    Task = {}
    BusTTL = 1
    MaxNow = 1
    Ship <- MCShip
    MaxPost = 2
    MaxTime = 1
    TTL = 1
    Idleness = {TRUE, FALSE}
    IOErrors = TRUE
SPECIFICATION MCSpec
INVARIANTS
    PostReaches
    IdNamesOneMessage
    LockedReadsLast
    PruneIsRight
PROPERTIES
    UnreadIsKept
    MailboxSpec
SYMMETRY MCSymmetry
