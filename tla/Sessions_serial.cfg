SPECIFICATION Spec
CONSTANTS
    Users = {u1}
    Pairs = {a, b, c}
    Handlers = {p1}
    None = None
    Ops <- SerialOps
    RedisMayFail = FALSE
    PostgresMayFail = TRUE
    MayCrash = TRUE
SYMMETRY Symmetry
PROPERTIES
    ImplementsSingleUse
