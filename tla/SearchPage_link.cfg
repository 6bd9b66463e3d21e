SPECIFICATION SearchPageSpec
CONSTANTS
    Types = {"apartment", "villa"}
    PagesFound <- MCFound
    Addresses <- MCAddresses
    MaxActs = 4
INVARIANTS
    LinkShowsTheSame
CHECK_DEADLOCK FALSE
