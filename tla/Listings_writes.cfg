SPECIFICATION Spec
CONSTANTS
    Listings = {m}
    Facts = {f1}
    Areas = {x}
    Users = {u1}
    Handlers = {p1, p2}
    None = None
    Ops <- WriteOps
    Keys = {"id", "slug"}
    PostgresOutcomes <- OkOrRefused
    MongoOutcomes <- OnlyOk
    RedisMayFail = FALSE
    MayCrash = FALSE
CONSTRAINT LittleDrift
SYMMETRY Symmetry
INVARIANTS
    BothOrNeither
    FavouritesCounted
