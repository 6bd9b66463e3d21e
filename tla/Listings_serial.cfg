SPECIFICATION Spec
CONSTANTS
    Listings = {m}
    Facts = {f1, f2}
    Areas = {x, y}
    Users = {u1}
    Handlers = {p1}
    None = None
    Ops <- SerialOps
    Keys = {"id", "slug", "hex"}
    PostgresOutcomes <- OkOrRefused
    MongoOutcomes <- OnlyOk
    RedisMayFail = FALSE
    MayCrash = FALSE
SYMMETRY Symmetry
INVARIANTS
    TypeOK
    StoresAgree
    CacheIsFresh
