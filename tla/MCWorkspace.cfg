CONSTANTS
    Parts = {"tasks", "sops", "bootstrap"}
    s1 = s1
    ui = ui
    wk = wk
    t1 = t1
    t2 = t2
    f1 = f1
    f2 = f2
    None = None
    Slug = {t1, t2}
    Base <- MCBase
    Crews <- MCCrews
    Ship = {s1}
    Actor = {s1, ui, wk}
    SopSlug = {f1, f2}
    SopActor = {s1, ui}
    SopCrews <- MCSopCrews
    MaxVersion = 4
    Finds <- MCFinds
    Runner = {p1}
    MaxRun = 2
    MaxEdit = 1
    MaxCrash = 1
SPECIFICATION MCSpec
INVARIANTS
    TypesOK
    NothingUncommitted
    IndexIsTrue
    ConsoleCommits
    RepairSuffices
    UsersAreKept
PROPERTIES
    StuckIsInterrupted
CHECK_DEADLOCK FALSE
