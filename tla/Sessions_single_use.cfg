SPECIFICATION Spec
CONSTANTS
    Users = {u1}
    Pairs = {a, b, c}
    Handlers = {p1, p2}
    None = None
    Ops <- RefreshOps
    RedisMayFail = FALSE
    PostgresMayFail = FALSE
    MayCrash = FALSE
INVARIANTS
    SingleUse
CHECK_DEADLOCK FALSE
