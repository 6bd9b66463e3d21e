---------------------------- MODULE SearchQuery ----------------------------
(***************************************************************************)
(* The read path of search-svc: filtered pages, facets, the map, similar   *)
(* listings and suggestions, the responses cached in Redis, and the writes *)
(* to the index that race with them.                                       *)
(*                                                                         *)
(* A document is what it carries under each field, as sets of numbers, and *)
(* a filter the values it accepts under each group: a price range is the   *)
(* set of its prices, a radius or a viewport the set of its places, and a  *)
(* field that is missing is accepted by none.  Scores are left out, but    *)
(* for that an order by relevance moves with the time of day; so are       *)
(* labels, highlights, the least and the greatest price and area that come *)
(* with the facets, the number of buckets of a facet and the wording of    *)
(* suggestions.  Refused parameters end a request before it reads anything.*)
(***************************************************************************)
EXTENDS Integers, FiniteSets

CONSTANTS
    Homes,             \* the listings: numbers, for the tiebreaker
    Papers(_),         \* the documents a listing may have
    Queries,
    PriceInterval, YearLength,    \* the widths of the buckets of price and delivery
    Callers,
    MaxWrites, MaxAsks,    \* bounds
    CacheMayFail,      \* Redis may fail
    IndexMayFail       \* Elasticsearch may fail

\* "delivery" stands for the facet deliveryYear too, "areaId" for areas, and so on.
FILTER_GROUPS == {"propertyType", "saleType", "status", "finishing", "bedrooms", "bathrooms",
    "price", "areaSqm", "areaId", "compoundId", "developerId", "amenities", "delivery",
    "downPayment", "installment", "geo", "bbox"}
FacetGroups == FILTER_GROUPS \ {"areaSqm", "downPayment", "geo", "bbox"}
Relations   == {"compoundId", "areaId", "developerId", "propertyType"}
Endpoints       == {"results", "facets", "map", "similar", "autocomplete"}

Has(doc, field) == IF field \in DOMAIN doc THEN doc[field] ELSE {}

\* A document has one value of what a facet counts, but for its amenities.
ASSUME QueryAssumption ==
    /\ Homes \subseteq Nat /\ IsFiniteSet(Homes)
    /\ \A l \in Homes : \A doc \in Papers(l) :
          /\ doc.rank \in Int
          /\ \A g \in FacetGroups : Has(doc, g) \subseteq Int
          /\ \A g \in FacetGroups \ {"amenities"} : \A v, w \in Has(doc, g) : v = w
    /\ PriceInterval \in Nat \ {0} /\ YearLength \in Nat \ {0}
    /\ \A r \in Queries : /\ r = [kind |-> r.kind, filters |-> r.filters, page |-> r.page,
                                   limit |-> r.limit, facets |-> r.facets, of |-> r.of, long |-> r.long,
                                   sort |-> r.sort]
                           /\ r.kind \in Endpoints /\ r.limit \in Nat \ {0} /\ r.page \in Nat \ {0}
                           /\ DOMAIN r.filters \subseteq FILTER_GROUPS \cup {"q"}
                           /\ \A g \in DOMAIN r.filters : r.filters[g] # {}
                           /\ r.kind = "map" => "bbox" \in DOMAIN r.filters
    /\ MaxWrites \in Nat /\ MaxAsks \in Nat
    /\ CacheMayFail \in BOOLEAN /\ IndexMayFail \in BOOLEAN

VARIABLES
    shelf,             \* the index: what it holds of each listing
    responses,         \* cache:search:*, by normalised parameters
    reading,           \* the requests being answered
    owed,              \* writes that have not dropped the cached responses yet
    writes, asks       \* counted for the bounds

queryVars == <<shelf, responses, reading, owed, writes, asks>>

Gone      == [indexed |-> FALSE]
NoFacets  == [g \in {} |-> 0]
NoAnswer  == [hits |-> {}, total |-> 0, facets |-> NoFacets, among |-> 0, mode |-> "none",
              source |-> Gone]
NoAsk     == [kind |-> "none"]
NoReading == [at |-> "idle", ask |-> NoAsk, answer |-> NoAnswer, saw |-> {}, late |-> FALSE]
Places    == {"idle", "first", "facets", "points", "like", "fallback", "store"}

QueryTypeOK ==
    /\ \A l \in Homes : shelf[l] \in Papers(l) \cup {Gone}
    /\ \A r \in responses : r.ask \in Queries
    /\ \A c \in Callers : reading[c].at \in Places
    /\ owed \in 0..MaxWrites /\ writes \in 0..MaxWrites /\ asks \in 0..MaxAsks

QueryInit ==
    /\ shelf \in {s \in [Homes -> UNION {Papers(l) : l \in Homes} \cup {Gone}] :
                    \A l \in Homes : s[l] \in Papers(l) \cup {Gone}}
    /\ responses = {}
    /\ reading = [c \in Callers |-> NoReading]
    /\ owed = 0 /\ writes = 0 /\ asks = 0

-----------------------------------------------------------------------------
(* The queries *)

FieldOf(group)  == IF group = "bbox" THEN "geo" ELSE group
Held(index)     == {l \in Homes : index[l] # Gone}

\* Amenities must all be there, of anything else one.
Accepts(filters, group, doc) ==
    IF group = "amenities" THEN filters[group] \subseteq Has(doc, group)
    ELSE filters[group] \cap Has(doc, FieldOf(group)) # {}

\* Mutant: a facet is counted under its own filter too.
FoundWithin(index, filters, skipped) ==
    {l \in Held(index) : \A g \in DOMAIN filters : Accepts(filters, g, index[l])}

\* The text and every group of clauses but those skipped.
Matching(index, filters, skipped) ==
    {l \in Held(index) : \A g \in DOMAIN filters \ skipped : Accepts(filters, g, index[l])}

\* An order by a field ends with the identifier.
Before(index, k, l) ==
    \/ index[k].rank < index[l].rank
    \/ index[k].rank = index[l].rank /\ k < l

Page(index, found, from, size) ==
    {l \in found : LET ahead == Cardinality({k \in found : Before(index, k, l)})
                   IN  from <= ahead /\ ahead < from + size}

\* What a page holds of so many.
PageLength(total, r) ==
    LET left == total - (r.page - 1) * r.limit
    IN  IF left <= 0 THEN 0 ELSE IF left < r.limit THEN left ELSE r.limit

\* The score of a listing decays with its age, so that any of them may be due by now.
PagesNow(index, found, r) ==
    IF r.sort = "relevance"
    THEN {s \in SUBSET found : Cardinality(s) = PageLength(Cardinality(found), r)}
    ELSE {Page(index, found, (r.page - 1) * r.limit, r.limit)}

\* The facets: prices and deliveries are counted by buckets, under where these begin.
Values(index, group) == UNION {Has(index[l], group) : l \in Held(index)}
BucketWidth(group) == CASE group = "price"    -> PriceInterval
                        [] group = "delivery" -> YearLength
                        [] OTHER              -> 1
Bucket(group, v) == v..(v + BucketWidth(group) - 1)
Buckets(index, group) == {w - (w % BucketWidth(group)) : w \in Values(index, group)}
FacetsOf(index, filters) ==
    [g \in FacetGroups |->
        [v \in Buckets(index, g) |->
            Cardinality({l \in Matching(index, filters, {g}) :
                            Has(index[l], g) \cap Bucket(g, v) # {}})]]

\* A total of nothing is replaced by what the text alone finds.
FacetTotal(index, filters) ==
    LET total == Cardinality(Matching(index, filters, {}))
    IN  IF total # 0 THEN total ELSE Cardinality(Matching(index, filters, FILTER_GROUPS))

\* Within a quarter of its price, whoever has one.
PriceBand(source, doc) ==
    \A p \in Has(source, "price") :
        p > 0 => \E x \in Has(doc, "price") : 3 * p <= 4 * x /\ 4 * x <= 5 * p
Shares(source, doc, fields) == \E f \in fields : Has(source, f) \cap Has(doc, f) # {}

Neighbours(index, source, of) == {l \in Held(index) \ {of} : PriceBand(source, index[l])}

-----------------------------------------------------------------------------
(* The index is written, and then the cached responses are dropped *)

\* Mutant: the responses are dropped before the write.
DropFirst(l, doc) ==
    /\ writes < MaxWrites /\ shelf[l] # doc
    /\ shelf' = [shelf EXCEPT ![l] = doc]
    /\ responses' \in {responses, {}}
    /\ writes' = writes + 1
    /\ reading' = [c \in Callers |-> [reading[c] EXCEPT !.late = @ \/ reading[c].saw # {}]]
    /\ UNCHANGED <<owed, asks>>

\* index_one, delete_one and the runs, as far as readers see them.
WriteIndex(l, doc) ==
    /\ writes < MaxWrites /\ shelf[l] # doc
    /\ shelf' = [shelf EXCEPT ![l] = doc]
    /\ owed' = owed + 1 /\ writes' = writes + 1
    /\ reading' = [c \in Callers |-> [reading[c] EXCEPT !.late = @ \/ reading[c].saw # {}]]
    /\ UNCHANGED <<responses, asks>>

\* A sweep that breaks off leaves some of them.
invalidate_namespace ==
    /\ owed > 0
    /\ owed' = owed - 1
    /\ \/ responses' = {}
       \/ /\ CacheMayFail
          /\ \E kept \in SUBSET responses :
                responses' = {[r EXCEPT !.late = TRUE] : r \in kept}
    /\ UNCHANGED <<shelf, reading, writes, asks>>

-----------------------------------------------------------------------------
(* Queries *)

Puts(c, r)  == reading' = [reading EXCEPT ![c] = r]
Quiet     == UNCHANGED <<shelf, responses, owed, writes, asks>>
\* The next call of c finds the index as it is.
Reads(c, at, answer) ==
    Puts(c, [reading[c] EXCEPT !.at = at, !.answer = answer, !.saw = @ \cup {shelf}])
ReaderAt(c, place) == reading[c].at = place
Some(found, size) == {s \in SUBSET found : Cardinality(s) <= size /\ (found # {} => s # {})}

\* A response that is cached ends the request, a Redis that fails has none.
AskFor(c, r) ==
    /\ ReaderAt(c, "idle") /\ asks < MaxAsks
    /\ asks' = asks + 1
    /\ IF \E e \in responses : e.ask = r
       THEN \/ UNCHANGED reading
            \/ CacheMayFail /\ Puts(c, [NoReading EXCEPT !.at = "first", !.ask = r])
       ELSE Puts(c, [NoReading EXCEPT !.at = "first", !.ask = r])
    /\ UNCHANGED <<shelf, responses, owed, writes>>

search(c) ==
    /\ ReaderAt(c, "first") /\ reading[c].ask.kind = "results"
    /\ LET r == reading[c].ask
           found == Matching(shelf, r.filters, {})
       IN  \E hits \in PagesNow(shelf, found, r) :
              Reads(c, IF r.facets THEN "facets" ELSE "store",
                    [NoAnswer EXCEPT !.hits = hits, !.total = Cardinality(found)])
    /\ Quiet

\* The facets of a page, or of a sidebar alone.
facets(c) ==
    /\ \/ ReaderAt(c, "facets")
       \/ ReaderAt(c, "first") /\ reading[c].ask.kind = "facets"
    /\ LET filters == reading[c].ask.filters
       IN  Reads(c, "store", [reading[c].answer EXCEPT !.facets = FacetsOf(shelf, filters),
                                                       !.among = FacetTotal(shelf, filters)])
    /\ Quiet

\* Clusters, or when there are few the points themselves, asked for again.
map_search(c) ==
    /\ ReaderAt(c, "first") /\ reading[c].ask.kind = "map"
    /\ LET total == Cardinality(Matching(shelf, reading[c].ask.filters, {}))
       IN  IF total > 0 /\ total <= reading[c].ask.limit
           THEN Reads(c, "points", [NoAnswer EXCEPT !.mode = "points", !.total = total])
           ELSE Reads(c, "store", [NoAnswer EXCEPT !.mode = "clusters", !.total = total])
    /\ Quiet
MapPoints(c) ==
    /\ ReaderAt(c, "points")
    /\ LET a == reading[c].answer
           found == Matching(shelf, reading[c].ask.filters, {})
       IN  Reads(c, "store", [a EXCEPT !.hits = Page(shelf, found, 0, a.total)])
    /\ Quiet

\* _load_source: a listing that is not there is an error, which is not cached.
similar(c) ==
    /\ ReaderAt(c, "first") /\ reading[c].ask.kind = "similar"
    /\ LET of == reading[c].ask.of
       IN  IF shelf[of] = Gone THEN Puts(c, NoReading)
           ELSE Reads(c, "like", [NoAnswer EXCEPT !.source = shelf[of]])
    /\ Quiet
\* What Elasticsearch takes for alike is its own affair.
MoreLikeThis(c) ==
    /\ ReaderAt(c, "like")
    /\ LET r == reading[c].ask
           a == reading[c].answer
       IN  \E hits \in Some(Neighbours(shelf, a.source, r.of), r.limit) \cup {{}} :
              /\ shelf[r.of] = Gone => hits = {}
              /\ Reads(c, IF hits = {} THEN "fallback" ELSE "store",
                       [a EXCEPT !.hits = hits, !.mode = "more_like_this"])
    /\ Quiet
SimilarFallback(c) ==
    /\ ReaderAt(c, "fallback") /\ reading[c].ask.kind = "similar"
    /\ LET r == reading[c].ask
           a == reading[c].answer
           related == {l \in Neighbours(shelf, a.source, r.of) :
                          \/ Shares(a.source, shelf[l], Relations)
                          \/ \A f \in Relations : Has(a.source, f) = {}}
       IN  \E hits \in Some(related, r.limit) :
              Reads(c, "store", [a EXCEPT !.hits = hits, !.mode = "fallback"])
    /\ Quiet

\* The suggester, and for longer prefixes it knows nothing of, the titles.
autocomplete(c) ==
    /\ ReaderAt(c, "first") /\ reading[c].ask.kind = "autocomplete"
    /\ LET r == reading[c].ask
           known == {l \in Held(shelf) : Has(shelf[l], "name") \cap r.filters["q"] # {}}
       IN  \E hits \in Some(known, r.limit) :
              Reads(c, IF hits = {} /\ r.long THEN "fallback" ELSE "store",
                    [NoAnswer EXCEPT !.hits = hits])
    /\ Quiet
TitleFallback(c) ==
    /\ ReaderAt(c, "fallback") /\ reading[c].ask.kind = "autocomplete"
    /\ LET r == reading[c].ask
       IN  \E hits \in Some(Matching(shelf, r.filters, {}), r.limit) :
              Reads(c, "store", [NoAnswer EXCEPT !.hits = hits])
    /\ Quiet

\* cache_set, which Redis may refuse, and the answer.
Store(c) ==
    /\ ReaderAt(c, "store")
    /\ LET r == reading[c]
           others == {e \in responses : e.ask # r.ask}
       IN  \/ responses' = others \cup
                   {[ask |-> r.ask, answer |-> r.answer, saw |-> r.saw, late |-> r.late]}
           \/ CacheMayFail /\ UNCHANGED responses
    /\ Puts(c, NoReading)
    /\ UNCHANGED <<shelf, owed, writes, asks>>

\* A query that fails is an error, and nothing is cached.
FailQuery(c) ==
    /\ IndexMayFail /\ ~ReaderAt(c, "idle") /\ ~ReaderAt(c, "store")
    /\ Puts(c, NoReading)
    /\ Quiet

\* The TTL of a cached response.
LapseResponse ==
    /\ \E e \in responses : responses' = responses \ {e}
    /\ UNCHANGED <<shelf, reading, owed, writes, asks>>

QueryNext ==
    \/ \E l \in Homes : \E doc \in Papers(l) \cup {Gone} : WriteIndex(l, doc)
    \/ invalidate_namespace \/ LapseResponse
    \/ \E c \in Callers : \/ \E r \in Queries : AskFor(c, r)
                          \/ search(c) \/ facets(c)
                          \/ map_search(c) \/ MapPoints(c)
                          \/ similar(c) \/ MoreLikeThis(c) \/ SimilarFallback(c)
                          \/ autocomplete(c) \/ TitleFallback(c)
                          \/ Store(c) \/ FailQuery(c)

QuerySpec == QueryInit /\ [][QueryNext]_queryVars
-----------------------------------------------------------------------------
(* What an answer promises *)

Still(e) == Cardinality(e.saw) = 1
Asked(e) == e.ask.filters
\* The request whose group g accepts other values.
Selecting(filters, g, values) ==
    [h \in DOMAIN filters \cup {g} |-> IF h = g THEN values ELSE filters[h]]

\* What a filter accepts that is set to what a facet lists under v: a price to the bounds
\* of its bucket, both included; a delivery until the end of that year; as many years of
\* instalments or more; of anything else v itself.
Accepted(index, g, v) ==
    {w \in Values(index, g) : CASE g = "price"       -> v <= w /\ w <= v + PriceInterval
                                [] g = "delivery"    -> w < v + YearLength
                                [] g = "installment" -> v <= w
                                [] OTHER             -> w = v}

\* What a filter set to the facet's v would find, in place of what the group selects now,
\* but for what it finds by values that the facet does not count under v.
FoundUnder(index, filters, g, v) ==
    LET Finds(values) == Cardinality(Matching(index, Selecting(filters, g, values), {}))
        besides == Accepted(index, g, v) \ Bucket(g, v)
    IN  Finds(Accepted(index, g, v)) - (IF besides = {} THEN 0 ELSE Finds(besides))

\* Answers given while the index stood still fit together.  A facet of types, rooms, places
\* or amenities tells what would be found if its value were selected instead of what the
\* group selects now; one of instalments, deliveries or prices, whose filter accepts more
\* than is counted under the value, what would be found of that value alone.  A page holds
\* as many as the total leaves it, and the pages of a search that is sorted by a field show
\* every listing once; a map that shows points shows all of them; a listing is not similar
\* to itself, and nothing similar is found only if nothing in its price band shares
\* anything with it.
AnswersAddUp ==
    \A e \in responses : Still(e) =>
        \A index \in e.saw :
            LET found == Matching(index, Asked(e), {})
            IN  /\ e.ask.kind = "facets" \/ (e.ask.kind = "results" /\ e.ask.facets) =>
                      /\ \A g \in FacetGroups : \A v \in Buckets(index, g) :
                            e.answer.facets[g][v] = FoundUnder(index, Asked(e), g, v)
                      /\ found # {} => e.answer.among = Cardinality(found)
                /\ e.ask.kind = "results" =>
                      /\ \A d \in responses :
                            /\ e.ask.sort # "relevance"
                            /\ d.saw = e.saw /\ d.ask = [e.ask EXCEPT !.page = d.ask.page]
                            /\ d # e
                            => d.answer.hits \cap e.answer.hits = {}
                      /\ Cardinality(e.answer.hits) = PageLength(e.answer.total, e.ask)
                /\ e.answer.mode = "points" => e.answer.hits = found
                /\ e.ask.kind = "similar" =>
                      /\ e.ask.of \notin e.answer.hits
                      /\ e.answer.hits = {} =>
                            ~ \E l \in Held(index) \ {e.ask.of} :
                                 /\ PriceBand(e.answer.source, index[l])
                                 /\ Shares(e.answer.source, index[l], Relations)

\* A cached response is what the index holds now, unless a write is about to drop it, a
\* sweep broke off, or its reader had begun before a write and stored after the sweep:
\* such a one is left until its TTL.
CachedIsCurrent ==
    owed = 0 => \A e \in responses : ~e.late => e.saw = {shelf}
=============================================================================
