----------------------------- MODULE MCPlatform -----------------------------
(* The components that keep their own state and share none, for TLC: a      *)
(* behaviour is a behaviour of one of them.                                 *)
EXTENDS SearchIndex, SearchQuery, IngestionRuns, ChatTurns, AgentTurn, Accounts, Catalogue,
        TLC

CONSTANTS p1, p2, d1, d2, r1, r2

MCActors   == {p1, p2}
MCIdents   == {"uuid", "slug"}
MCKinds    == AllKinds
MCSources  == {"s1"}
MCSourceOf == [d \in {d1, d2} |-> "s1"]
MCBlanks   == {<<d1, 1>>}
MCReplicas == {r1, r2}
MCOptions  == {[wants |-> {d1, d2}, limited |-> FALSE, force |-> FALSE, prune |-> TRUE],
               [wants |-> {d2}, limited |-> TRUE, force |-> TRUE, prune |-> TRUE]}
MCRoles    == {"user", "agent"}
\* The sources change at most twice.
FewChanges == upstream[d1] + upstream[d2] <= 1
Symmetry   == Permutations(MCActors) \cup Permutations(MCReplicas)

\* The agent: one listing too many bedrooms away, or two filters away.
MCMarkets == {{{"bedrooms"}}, {{"maxPrice", "bedrooms"}}}
MCWishes  == {{}, {"maxPrice", "bedrooms"}}

\* The index: a listing that may change, one that carries everything, one without a price.
MCHomes == 1..3
MCPapers(home) ==
    CASE home = 1 -> {[rank |-> 1, q |-> {1}, name |-> {1}, price |-> {4}, bedrooms |-> {2},
                       propertyType |-> {1}, areaId |-> {1}, amenities |-> {1, 2}, geo |-> {1},
                       installment |-> {5}, delivery |-> {3}],
                      [rank |-> 2, q |-> {1}, price |-> {6}, bedrooms |-> {3},
                       propertyType |-> {2}, amenities |-> {}, installment |-> {8},
                       delivery |-> {5}]}
      [] home = 2 -> {[rank |-> 1, q |-> {1, 2}, price |-> {5}, bedrooms |-> {3},
                       propertyType |-> {1}, areaId |-> {2}, amenities |-> {1}, geo |-> {1},
                       installment |-> {8}, delivery |-> {2}]}
      [] home = 3 -> {[rank |-> 2, q |-> {1, 2}, name |-> {2}, bedrooms |-> {2},
                       propertyType |-> {2}, areaId |-> {1}]}
Query(kind) == [kind |-> kind, filters |-> [g \in {} |-> {}], page |-> 1, limit |-> 1,
                facets |-> FALSE, of |-> 1, long |-> FALSE, sort |-> "price"]
MCQueries ==
    {[Query("results") EXCEPT !.page = n, !.sort = order,
                              !.filters = [propertyType |-> {1, 2}, price |-> 3..6]] :
        n \in 1..2, order \in {"price", "relevance"}}
    \cup {[Query("results") EXCEPT !.limit = 3, !.facets = TRUE,
                                   !.filters = [q |-> {2}, bedrooms |-> {2}]],
          [Query("facets") EXCEPT !.filters = [propertyType |-> {1}, amenities |-> {1, 2}]],
          [Query("facets") EXCEPT !.filters = [installment |-> 8..9, price |-> 3..5]],
          [Query("map") EXCEPT !.limit = 2, !.filters = [bbox |-> {1}]],
          [Query("map") EXCEPT !.filters = [bbox |-> {1, 2}, geo |-> {1}]],
          Query("similar"), [Query("similar") EXCEPT !.of = 3],
          [Query("autocomplete") EXCEPT !.filters = [q |-> {2}], !.long = TRUE]}

\* To a developer, with and without the area; and on and off.
MCPatches ==
    {[by |-> d, in |-> a, active |-> Blank] : d \in Developers, a \in Areas \cup {Blank}}
    \cup {[by |-> Blank, in |-> Blank, active |-> b] : b \in BOOLEAN}

VARIABLE component

Components == {"search", "query", "ingestion", "chat", "agent", "accounts", "catalogue"}

\* The states of the others' choices at the start are one.
Init ==
    /\ component \in Components
    /\ SearchInit /\ IngestInit /\ ChatInit /\ AccountsInit /\ AgentInit
    /\ CatalogueInit
    /\ QueryInit /\ \A l \in Homes : shelf[l] # Gone
    /\ \A c \in Compounds : compound[c].here <=> component = "catalogue"
    /\ component # "query" => shelf[1].rank = 1
    /\ component # "ingestion" => \A q, r \in Runs : replica[q] = replica[r]

Others(name, vars) == IF component = name THEN TRUE ELSE UNCHANGED vars
Only(name) ==
    /\ component = name /\ UNCHANGED component
    /\ Others("search", searchVars) /\ Others("query", queryVars)
    /\ Others("ingestion", ingestVars) /\ Others("chat", chatVars)
    /\ Others("agent", agentVars) /\ Others("accounts", accountVars)
    /\ Others("catalogue", catalogueVars)

Next ==
    \/ Only("search") /\ SearchNext
    \/ Only("query") /\ QueryNext
    \/ Only("ingestion") /\ IngestNext
    \/ Only("chat") /\ ChatNext
    \/ Only("agent") /\ AgentNext
    \/ Only("accounts") /\ AccountsNext
    \/ Only("catalogue") /\ CatalogueNext

Spec == Init /\ [][Next]_<<component, searchVars, queryVars, ingestVars, chatVars, agentVars,
                           accountVars, catalogueVars>>

\* Every component keeps to the states its module declares.
TypesOK ==
    /\ component = "search"    => SearchTypeOK
    /\ component = "query"     => QueryTypeOK
    /\ component = "ingestion" => IngestTypeOK
    /\ component = "chat"      => ChatTypeOK
    /\ component = "agent"     => AgentTypeOK
    /\ component = "accounts"  => AccountsTypeOK
    /\ component = "catalogue" => CatalogueTypeOK
=============================================================================
