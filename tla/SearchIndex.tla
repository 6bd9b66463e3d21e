---------------------------- MODULE SearchIndex ----------------------------
(***************************************************************************)
(* The search index of search-svc, which copies api-core's listings from   *)
(* MongoDB (or from the seed corpus when Mongo has none) into              *)
(* Elasticsearch.  Readers search an alias; a full run rewrites the index  *)
(* behind it and prunes what it did not write, a rebuild fills the next    *)
(* version and swaps the alias, and api-core asks for single listings      *)
(* after its writes, in calls that may be late or lost.  Each call to      *)
(* Mongo or Elasticsearch is a step; a bulk chunk is one listing.          *)
(*                                                                         *)
(* A listing is its version.  The lifespan creates the index before a      *)
(* request is served, and ensure_index does nothing while the alias is     *)
(* there (OneIndexAnswers), so it is left out; so are the cached responses,*)
(* the copy of the run report in Redis, the run that fills an empty index  *)
(* at start-up, the runs over a list of identifiers (index_ids), and those *)
(* asked for without the pruning or with one source (prune, source).       *)
(***************************************************************************)
EXTENDS Integers, FiniteSets

CONSTANTS
    Listings,
    Seeded,           \* those that are in seed/properties.json as well
    Workers,          \* bounds the requests and background runs in progress
    None,
    Idents,           \* how single listings are asked for
    Kinds,            \* the jobs of a run
    MaxVersion,       \* bounds the writes to a listing
    MaxIndex,         \* bounds the rebuilds
    MaxEvents,        \* bounds the writes and the requests of a behaviour
    CallsMayFail,     \* Elasticsearch may refuse an item of a chunk, or any call raise
    CallsMayBeLost,
    MayRestart,       \* search-svc may die under its jobs
    RebuildsOverlap   \* a rebuild may be asked for while one is under way: nothing prevents it

AllKinds == {"index", "delete", "full", "rebuild"}

ASSUME SearchAssumption ==
    /\ Seeded \subseteq Listings
    /\ Idents \subseteq {"uuid", "slug"}
    /\ Kinds \subseteq AllKinds
    /\ MaxVersion \in Nat /\ MaxIndex \in Nat \ {0} /\ MaxEvents \in Nat
    /\ None \notin Listings \cup Workers
    /\ {CallsMayFail, CallsMayBeLost, MayRestart, RebuildsOverlap} \subseteq BOOLEAN

Versions == 0..MaxVersion
Indices  == 1..MaxIndex

\* An entry and the full runs that were under way when it was stamped: all that
\* a prune asks of indexedAt.
Entry    == [v : Versions, after : SUBSET Workers]
NoEntry  == [v |-> -1, after |-> {}]
Listing  == [v : Versions, live : BOOLEAN]
NoSource == [v |-> -1, live |-> FALSE]
Empty    == [l \in Listings |-> NoEntry]

VARIABLES
    source,           \* Mongo's properties
    exists,           \* the versions of the index that Elasticsearch holds
    index,            \* and the entries of each
    alias,            \* the indices behind the alias
    mail,             \* api-core's calls on their way
    job,              \* what each worker does
    events            \* the writes and requests so far

searchVars == <<source, exists, index, alias, mail, job, events>>

Call == [kind : {"index", "delete"}, lst : Listings]
Job  == [at      : {"idle", "fetch", "resolve", "stamp", "put", "erase", "count", "target", "create",
                    "read", "bulk", "prune", "swap", "drop"},
         kind    : AllKinds \cup {"none"}, ident : {"uuid", "slug", "none"},
         lst     : Listings \cup {None},  \* the listing asked for, or being copied
         doc     : Listing \cup {NoSource},
         after   : SUBSET Workers,        \* the full runs under way when it was stamped
         target  : Indices \cup {0}, old : SUBSET Indices,
         todo    : SUBSET Listings, seed : BOOLEAN,
         wrote   : SUBSET Listings, failed : BOOLEAN,
         born    : SUBSET Listings,       \* history: listings live when the job began
         quiet   : BOOLEAN]               \* history: nothing else has happened since
NoJob == [at |-> "idle", kind |-> "none", ident |-> "none", lst |-> None, doc |-> NoSource,
          after |-> {}, target |-> 0, old |-> {}, todo |-> {}, seed |-> FALSE, wrote |-> {},
          failed |-> FALSE, born |-> {}, quiet |-> FALSE]

\* At every moment, and whatever a rebuild or a restart leaves behind, readers
\* have one index behind the alias, and it is there.
OneIndexAnswers == Cardinality(alias) = 1 /\ alias \subseteq exists

SearchTypeOK ==
    /\ OneIndexAnswers
    /\ source \in [Listings -> Listing \cup {NoSource}]
    /\ exists \subseteq Indices /\ alias \subseteq Indices
    /\ index \in [Indices -> [Listings -> Entry \cup {NoEntry}]]
    /\ mail \subseteq Call
    /\ job \in [Workers -> Job]
    /\ \A w \in Workers : job[w].at \in {"put", "bulk"} => job[w].doc.live
    /\ events \in 0..MaxEvents

\* Mongo holds the seed, the index has been filled from it.
SearchInit ==
    /\ source = [l \in Listings |-> IF l \in Seeded THEN [v |-> 0, live |-> TRUE] ELSE NoSource]
    /\ exists = {1}
    /\ index = [i \in Indices |-> [l \in Listings |->
                  IF i = 1 /\ l \in Seeded THEN [v |-> 0, after |-> {}] ELSE NoEntry]]
    /\ alias = {1}
    /\ mail = {}
    /\ job = [w \in Workers |-> NoJob]
    /\ events = 0

-----------------------------------------------------------------------------
Live(l)      == source[l].live
Smallest(S)  == CHOOSE i \in S : \A j \in S : i <= j
write_index  == IF alias = {} THEN 1 ELSE Smallest(alias)
Busy(w)      == job[w].at # "idle"
FullRuns     == {w \in Workers : job[w].kind = "full"}

\* What anybody else does ends the quiet of a run.
Disturbed(j, w) == [x \in Workers |-> IF x = w THEN j[x] ELSE [j[x] EXCEPT !.quiet = FALSE]]

\* A run that ends takes its name off the stamps, which then mean nothing.
Unstamped(ix, w) == [i \in Indices |-> [l \in Listings |-> [ix[i][l] EXCEPT !.after = @ \ {w}]]]
Finish(w, ix) == /\ job' = [x \in Workers |-> IF x = w THEN NoJob ELSE [job[x] EXCEPT !.after = @ \ {w}]]
                 /\ index' = Unstamped(ix, w)
Go(w, label)  == job' = [job EXCEPT ![w].at = label]

Begin(w, j) ==
    /\ ~Busy(w) /\ j.kind \in Kinds
    /\ LET calm == mail = {} /\ \A x \in Workers : ~Busy(x)
       IN  job' = Disturbed([job EXCEPT ![w] = [j EXCEPT !.born = {l \in Listings : Live(l)},
                                                         !.quiet = calm]], w)

Stored(i, l, e) == [index EXCEPT ![i][l] = e]

-----------------------------------------------------------------------------
(* api-core writes to Mongo, then calls search-svc *)

Happens == events < MaxEvents /\ events' = events + 1

WriteSource(l, d, call) ==
    /\ Happens
    /\ source' = [source EXCEPT ![l] = d]
    /\ mail' = mail \cup {[kind |-> call, lst |-> l]}
    /\ job' = Disturbed(job, None)
    /\ UNCHANGED <<exists, index, alias>>

CreateListing(l) == source[l] = NoSource /\ WriteSource(l, [v |-> 0, live |-> TRUE], "index")
UpdateListing(l) == /\ Live(l) /\ source[l].v < MaxVersion
                    /\ WriteSource(l, [v |-> source[l].v + 1, live |-> TRUE], "index")
RemoveListing(l) == Live(l) /\ WriteSource(l, [source[l] EXCEPT !.live = FALSE], "delete")

Lose(m) == /\ CallsMayBeLost
           /\ mail' = mail \ {m}
           /\ UNCHANGED <<source, exists, index, alias, job, events>>

Deliver(w, m) ==
    /\ Begin(w, [NoJob EXCEPT !.at = IF m.kind = "index" THEN "fetch" ELSE "resolve",
                              !.kind = m.kind, !.ident = "uuid", !.lst = m.lst])
    /\ mail' = mail \ {m}
    /\ UNCHANGED <<source, exists, index, alias, events>>

\* POST /reindex, or /index by an identifier of the caller's choice.
Ask(w, kind, l, ident) ==
    /\ Happens
    /\ kind \notin {"delete"}
    /\ kind = "rebuild" /\ ~RebuildsOverlap => \A x \in Workers : job[x].kind # "rebuild"
    /\ Begin(w, [NoJob EXCEPT !.at = IF kind = "index" THEN "fetch" ELSE "count",
                              !.kind = kind,
                              !.ident = IF kind = "index" THEN ident ELSE "none",
                              !.lst = IF kind = "index" THEN l ELSE None])
    /\ UNCHANGED <<source, exists, index, alias, mail>>

-----------------------------------------------------------------------------
(* index_one and delete_one *)

\* identifier_query has no clause for propertyId, where api-core keeps the uuid.
FoundBy(l, ident)  == ident = "slug" /\ source[l] # NoSource
\* A Mongo that does not answer is taken for one that does not have the listing.
Missed(l, ident)   == ~FoundBy(l, ident) \/ CallsMayFail

Fetch(w) ==
    /\ job[w].at = "fetch"
    /\ LET l == job[w].lst
       IN  \/ /\ FoundBy(l, job[w].ident) /\ Live(l)
              /\ job' = [job EXCEPT ![w].doc = source[l], ![w].at = "resolve"]
              /\ UNCHANGED index
           \* Soft-deleted, and a slug is no _id to delete by.
           \/ FoundBy(l, job[w].ident) /\ ~Live(l) /\ Finish(w, index)
           \/ /\ Missed(l, job[w].ident) /\ l \in Seeded
              /\ job' = [job EXCEPT ![w].doc = [v |-> 0, live |-> TRUE], ![w].at = "resolve"]
              /\ UNCHANGED index
           \/ Missed(l, job[w].ident) /\ l \notin Seeded /\ Finish(w, index)
    /\ UNCHANGED <<source, exists, alias, mail, events>>

\* The alias is resolved, and the document stamped before it is sent.
Resolve(w) ==
    /\ job[w].at = "resolve"
    /\ job' = [job EXCEPT ![w].target = write_index, ![w].after = FullRuns,
                          ![w].at = IF job[w].kind = "delete" THEN "erase" ELSE "put"]
    /\ UNCHANGED <<source, exists, index, alias, mail, events>>

\* Elasticsearch creates the index again if it was deleted meanwhile.
Put(w) ==
    /\ job[w].at = "put"
    /\ exists' = exists \cup {job[w].target}
    /\ Finish(w, Stored(job[w].target, job[w].lst, [v |-> job[w].doc.v, after |-> job[w].after]))
    /\ UNCHANGED <<source, alias, mail, events>>

Erase(w) ==
    /\ job[w].at = "erase"
    /\ Finish(w, Stored(job[w].target, job[w].lst, NoEntry))
    /\ UNCHANGED <<source, exists, alias, mail, events>>

-----------------------------------------------------------------------------
(* full_reindex and zero_downtime_reindex *)

\* resolve_source counts the live listings; one that Mongo does not answer counts none.
Count(w) ==
    /\ job[w].at = "count"
    /\ \E none \in {\A l \in Listings : ~Live(l), CallsMayFail \/ \A l \in Listings : ~Live(l)} :
          LET seed == none /\ Seeded # {}
          IN  job' = [job EXCEPT ![w].seed = seed, ![w].todo = IF seed THEN Seeded ELSE Listings,
                                 ![w].at = "target"]
    /\ UNCHANGED <<source, exists, index, alias, mail, events>>

Target(w) ==
    /\ job[w].at = "target"
    /\ \/ /\ job[w].kind # "rebuild"
          /\ job' = [job EXCEPT ![w].target = write_index, ![w].after = FullRuns, ![w].at = "read"]
       \/ /\ job[w].kind = "rebuild" /\ write_index < MaxIndex
          /\ job' = [job EXCEPT ![w].target = write_index + 1, ![w].after = FullRuns,
                                ![w].at = "create"]
    /\ UNCHANGED <<source, exists, index, alias, mail, events>>

\* A target that an earlier rebuild left behind is deleted first.
CreateTarget(w) ==
    /\ job[w].at = "create"
    /\ exists' = exists \cup {job[w].target}
    /\ index' = [index EXCEPT ![job[w].target] = Empty]
    /\ alias' = alias \ {job[w].target}
    /\ Go(w, "read")
    /\ UNCHANGED <<source, mail, events>>

\* Mutant: deleted listings are copied as well.
ReadAny(w) ==
    /\ job[w].at = "read"
    /\ \/ /\ job[w].todo = {}
          /\ Go(w, CASE job[w].kind = "rebuild" -> "swap" [] OTHER -> "prune")
       \/ \E l \in job[w].todo : job' = [job EXCEPT ![w].todo = @ \ {l}, ![w].at = "bulk",
                                                    ![w].lst = l, ![w].doc = source[l]]
    /\ UNCHANGED <<source, exists, index, alias, mail, events>>

\* The cursor passes the listings in some order and skips the deleted ones.
Read(w) ==
    /\ job[w].at = "read"
    /\ \/ /\ job[w].todo = {}
          /\ Go(w, CASE job[w].kind = "rebuild" -> "swap" [] OTHER -> "prune")
       \/ \E l \in job[w].todo :
             LET d == IF job[w].seed THEN [v |-> 0, live |-> TRUE] ELSE source[l]
             IN  job' = [job EXCEPT ![w] = IF d.live
                            THEN [job[w] EXCEPT !.todo = @ \ {l}, !.at = "bulk", !.lst = l, !.doc = d]
                            ELSE [job[w] EXCEPT !.todo = @ \ {l}]]
    /\ UNCHANGED <<source, exists, index, alias, mail, events>>

NextItem(j) == [j EXCEPT !.at = "read", !.lst = None, !.doc = NoSource]
Bulk(w) ==
    /\ job[w].at = "bulk"
    /\ \/ /\ index' = Stored(job[w].target, job[w].lst,
                             [v |-> job[w].doc.v, after |-> job[w].after])
          /\ exists' = exists \cup {job[w].target}
          /\ job' = [job EXCEPT ![w] = [NextItem(job[w]) EXCEPT !.wrote = @ \cup {job[w].lst}]]
       \/ /\ CallsMayFail
          /\ job' = [job EXCEPT ![w] = [NextItem(job[w]) EXCEPT !.failed = TRUE]]
          /\ UNCHANGED <<exists, index>>
    /\ UNCHANGED <<source, alias, mail, events>>

\* Mutant: an unfinished run prunes as well.
PruneAnyway(w) ==
    /\ job[w].at = "prune"
    /\ LET i == job[w].target
       IN  Finish(w, [index EXCEPT ![i] = [l \in Listings |->
                         IF w \in @[l].after THEN @[l] ELSE NoEntry]])
    /\ UNCHANGED <<source, exists, alias, mail, events>>

\* Mutant: no run prunes.
PruneNothing(w) ==
    /\ job[w].at = "prune"
    /\ Finish(w, index)
    /\ UNCHANGED <<source, exists, alias, mail, events>>

\* _prune_stale: what was stamped before the run began, when no item failed.
Prune(w) ==
    /\ job[w].at = "prune"
    /\ LET i == job[w].target
           clean == ~job[w].failed /\ job[w].wrote # {}
       IN  Finish(w, IF clean
                     THEN [index EXCEPT ![i] = [l \in Listings |->
                              IF w \in @[l].after THEN @[l] ELSE NoEntry]]
                     ELSE index)
    /\ UNCHANGED <<source, exists, alias, mail, events>>

\* swap_alias
Swap(w) ==
    /\ job[w].at = "swap"
    /\ job' = [job EXCEPT ![w].old = alias \ {job[w].target}, ![w].at = "drop"]
    /\ alias' = {job[w].target}
    /\ UNCHANGED <<source, exists, index, mail, events>>

DropOld(w) ==
    /\ job[w].at = "drop"
    /\ exists' = exists \ job[w].old
    /\ alias' = alias \ job[w].old
    /\ Finish(w, [i \in Indices |-> IF i \in job[w].old THEN Empty ELSE index[i]])
    /\ UNCHANGED <<source, mail, events>>

\* An exception anywhere ends the run, marked failed, or the request.
Abort(w) ==
    /\ CallsMayFail /\ Busy(w)
    /\ Finish(w, index)
    /\ UNCHANGED <<source, exists, alias, mail, events>>

Restart ==
    /\ MayRestart
    /\ \E w \in Workers : Busy(w)
    /\ job' = [w \in Workers |-> NoJob]
    /\ index' = [i \in Indices |-> [l \in Listings |-> [index[i][l] EXCEPT !.after = {}]]]
    /\ UNCHANGED <<source, exists, alias, mail, events>>

-----------------------------------------------------------------------------
SearchStep(w) ==
    \/ Fetch(w) \/ Resolve(w) \/ Put(w) \/ Erase(w)
    \/ Count(w) \/ Target(w) \/ CreateTarget(w) \/ Read(w) \/ Bulk(w)
    \/ Prune(w) \/ Swap(w) \/ DropOld(w) \/ Abort(w)

SearchNext ==
    \/ \E l \in Listings : CreateListing(l) \/ UpdateListing(l) \/ RemoveListing(l)
    \/ \E m \in mail : Lose(m) \/ \E w \in Workers : Deliver(w, m)
    \/ \E w \in Workers :
          \/ \E kind \in AllKinds, l \in Listings, ident \in Idents : Ask(w, kind, l, ident)
          \/ SearchStep(w)
    \/ Restart

SearchSpec == SearchInit /\ [][SearchNext]_searchVars
-----------------------------------------------------------------------------
(* What the index promises, unless rebuilds overlap *)

Found(l) == \E i \in alias : index[i][l] # NoEntry

\* A listing that readers can find stays findable while it is live, through runs
\* that fail half-way, swaps and restarts.  A swap may lose one that was created
\* after the rebuild began or that Elasticsearch refused, and a prune one that
\* was created after its run began, or that a late write put back, and that
\* another job stamped before.  A run that took a Mongo which did not answer for
\* an empty one keeps the seed only.
NeverVanishes ==
    [][\A l \in Listings : Live(l) /\ Live(l)' /\ Found(l) /\ ~Found(l)' =>
          \E w \in Workers :
             \/ (Swap(w) \/ Prune(w)) /\ job[w].seed
             \/ Swap(w) /\ (job[w].failed \/ l \notin job[w].born)
             \/ Prune(w) /\ (l \in job[w].wrote \/ l \notin job[w].born)]_searchVars

Complete(w) == /\ job[w].kind \in {"full", "rebuild"} /\ job[w].quiet
               /\ ~job[w].failed /\ ~job[w].seed /\ job[w].wrote # {}
Agrees == \A i \in alias, l \in Listings :
             index[i][l].v = IF Live(l) THEN source[l].v ELSE -1
\* A full run or a rebuild heals an index that lost calls and restarts have left
\* behind, if nothing else happens while it runs.
ReindexHeals ==
    [][\A w \in Workers : Complete(w) /\ (Prune(w) \/ DropOld(w)) => Agrees']_searchVars

\* search-index.client.ts:22, indexProperty "Upserts one listing into the search
\* index": once a call has been served, readers find the listing as it is.
NotifiedIsIndexed ==
    (mail = {} /\ \A w \in Workers : ~Busy(w)) => Agrees
=============================================================================
