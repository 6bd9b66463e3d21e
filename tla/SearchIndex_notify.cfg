SPECIFICATION SearchSpec
CONSTANTS
    Listings = {l1, l2}
    Seeded = {l1}
    Workers = {w1}
    None = None
    Idents = {"uuid"}
    Kinds = {"index", "delete"}
    MaxVersion = 1
    MaxIndex = 1
    MaxEvents = 2
    CallsMayFail = FALSE
    CallsMayBeLost = FALSE
    MayRestart = FALSE
    RebuildsOverlap = FALSE
INVARIANT NotifiedIsIndexed
