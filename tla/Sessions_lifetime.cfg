SPECIFICATION Spec
CONSTANTS
    Users = {u1}
    Pairs = {a, b}
    Handlers = {p1, p2}
    None = None
    Ops <- LifetimeOps
    RedisMayFail = FALSE
    PostgresMayFail = TRUE
    MayCrash = FALSE
SYMMETRY Symmetry
CONSTRAINT OneLogout
INVARIANTS
    TypeOK
    HeirReplacesParent
PROPERTIES
    DeadStaysDead
    EndedForCause
CHECK_DEADLOCK FALSE
