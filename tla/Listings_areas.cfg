SPECIFICATION Spec
CONSTANTS
    Listings = {m}
    Facts = {f1, f2}
    Areas = {x, y}
    Users = {u1}
    Handlers = {p1}
    None = None
    Ops <- UpdateOps
    Keys = {"id", "slug"}
    PostgresOutcomes <- OnlyOk
    MongoOutcomes <- OnlyOk
    RedisMayFail = FALSE
    MayCrash = FALSE
INVARIANTS
    AreasCounted
