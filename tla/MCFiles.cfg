CONSTANTS
    Parts = {"timers", "health", "store", "reports", "settings"}
    c1 = c1
    c2 = c2
    m1 = m1
    m2 = m2
    n1 = n1
    a = a
    b = b
    k1 = k1
    k2 = k2
    k3 = k3
    None = None
    NoFile = NoFile
    Broken = Broken
    Client = {c1, c2}
    Worker = w
    Id = {t1}
    Plan <- SomePlans
    Store = {"conf"}
    Interval = 1
    MaxTime = 1
    MaxCommands = 2
    Model = {m1, m2}
    Loop = Loop
    Checker = {c1}
    Probing = {Loop}
    Worlds <- MCWorlds
    MaxTries = 2
    MaxChecks = 1
    MaxChanges = 1
    Name = {n1}
    User = {c1, c2}
    Data = {a, b}
    Attached = {}
    Crews <- MCCrews
    MaxTTL = 1
    MaxAge = 2
    ReportId = {k1, k2, k3}
    Sender = {c1, c2}
    Drafts <- MCDrafts
    Olds = {k3}
    Key = {k1, k2}
    Sub = {k1}
    Scalar = {a, b}
    Item = {a, b}
    Page = {c1, c2}
    Comment = {n1}
    Texts <- MCTexts
    Yamls <- MCYamls
    Others <- MCYamls
    MaxSaves = 3
SPECIFICATION MCSpec
INVARIANTS
    TypesOK
    UserWins
    OnceFiresOnce
    ReportReadsBack
    DeletedIsGone
    SaveTakesEffect
PROPERTIES
    DueFires
    FileCatchesUp
CHECK_DEADLOCK FALSE
