SPECIFICATION FairSpec
CONSTANTS
    Users = {u1}
    Pairs = {a, b}
    Handlers = {p1, p2}
    None = None
    Ops <- LivenessOps
    RedisMayFail = FALSE
    PostgresMayFail = FALSE
    MayCrash = FALSE
INVARIANTS
    RevocationIsFinal
PROPERTIES
    RevocationEndsSessions
