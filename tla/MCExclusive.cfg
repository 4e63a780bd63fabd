CONSTANTS
    a = a
    b = b
    w = w
    p1 = p1
    p2 = p2
    poll1 = poll1
    poll2 = poll2
    Nobody = Nobody
    Proc = {a, b, w}
    Labelled = {a, b}
    Wrapper = {w}
    Timed = {a, b}
    None = None
    NoName = NoName
    Agent = {a, b}
    PR = {p1, p2}
    Branch <- MCBranch
    Clone = {repair}
    Crews <- MCCrews
    MaxCommit = 4
    MaxRun = 2
    Server = {d1, d2}
    Request = {r1, r2}
    Ship = {s1}
    Message = {m1, m2}
    Poller = {poll1, poll2}
    Turn = {t1}
    NoMessage = NoMessage
    MaxDeaths = 1
    MaxLapses = 1
    MaxRejects = 1
SPECIFICATION MCSpec
INVARIANTS
    ClaimsExclude
    TipKeepsRun
    IdentityIsOwn
    NotStranded
    OnceOnly
PROPERTIES
    SectionSpec
    PushAmendsTip
    EachReaches
CHECK_DEADLOCK FALSE
