SPECIFICATION FairSpec
CONSTANTS
    Listings = {m}
    Facts = {f1}
    Areas = {x}
    Users = {u1}
    Handlers = {p1, p2}
    None = None
    Ops <- CacheOps
    Keys = {"id", "slug"}
    PostgresOutcomes <- OnlyOk
    MongoOutcomes <- OkOrRefused
    RedisMayFail = TRUE
    MayCrash = TRUE
PROPERTIES
    CacheConverges
