------------------------------ MODULE Listings ------------------------------
(***************************************************************************)
(* A listing of api-core: its MongoDB document, the property_index row     *)
(* that mirrors it in Postgres, the favourites counted on the document,    *)
(* the listings counted on an area, and the Redis copies readers fill.     *)
(*                                                                         *)
(* No transaction spans the stores: a write goes to Mongo, then to         *)
(* Postgres, and is undone in Mongo if Postgres throws.  Each await is a   *)
(* step.  A handler's first read is taken with its arrival.  The mirrored  *)
(* fields other than the area and deletedAt (price, status, ...) are one   *)
(* value, `facts`; a listing keeps the slug it was created with.  The      *)
(* notification of search-svc that ends a write changes none of these      *)
(* stores and is left out.                                                 *)
(***************************************************************************)
EXTENDS Integers, FiniteSets

CONSTANTS
    Listings,         \* bounds the number of listings
    Facts,
    Areas,
    Users,
    Handlers,         \* bounds the number of requests in flight
    None,
    Ops,              \* the operations a run exercises
    Keys,             \* and the identifiers its readers use
    PostgresOutcomes, \* what a call to Postgres may do
    MongoOutcomes,    \* and a call to Mongo
    RedisMayFail,
    MayCrash          \* an api-core process may die under a handler

AllOps == {"create", "update", "remove", "favourite", "unfavourite", "get"}

\* findOne caches a document under the identifier it was asked for.  "hex" is its
\* ObjectId, or its slug in other letter case, which is looked up lowercased.
CacheKeys == {"id", "slug", "hex"}

\* ok: done and answered; refused: not done, throws; lost: done, yet throws.
Outcomes == {"ok", "refused", "lost"}

ASSUME ListingsAssumption ==
    /\ IsFiniteSet(Listings)
    /\ None \notin Listings \cup Facts \cup Areas \cup Users
    /\ Ops \subseteq AllOps
    /\ Keys \subseteq CacheKeys
    /\ PostgresOutcomes \subseteq Outcomes
    /\ MongoOutcomes \subseteq Outcomes
    /\ RedisMayFail \in BOOLEAN
    /\ MayCrash \in BOOLEAN

Document == [facts : Facts, area : Areas, deleted : BOOLEAN, favs : Int]
Mirror   == [facts : Facts, area : Areas, deleted : BOOLEAN]
NoDoc    == [facts |-> None, area |-> None, deleted |-> FALSE, favs |-> 0]
NoRow    == [facts |-> None, area |-> None, deleted |-> FALSE]
VARIABLES
    doc,              \* properties, by propertyId
    row,              \* property_index, by id
    faved,            \* favorites: pairs of a user and a listing
    areaCount,        \* areas.property_count
    cached,           \* cache:prop:{idOrSlug}
    pc,               \* the await a handler is about to make
    req,              \* its request
    before,           \* the document it read before it writes
    after,            \* the document it wrote, or read to fill the cache
    tally,            \* syncPropertyCount: the rows it counted
    undone            \* history: the listings whose document a failed update put back

stores == <<doc, row, faved, areaCount, cached>>
locals == <<before, after, tally>>
vars   == <<stores, pc, req, locals, undone>>

Request   == [op : AllOps \cup {"none"}, lst : Listings \cup {None}, usr : Users \cup {None},
              facts : Facts \cup {None}, area : Areas \cup {None}, home : Areas \cup {None},
              key : CacheKeys \cup {None}]
NoRequest == [op |-> "none", lst |-> None, usr |-> None, facts |-> None, area |-> None,
              home |-> None, key |-> None]

Labels == {"idle", "createDoc", "createRow", "deleteDoc",
           "readBefore", "setDoc", "setRow", "restoreDoc",
           "markDoc", "markRow", "unmarkDoc", "bust", "count", "sync",
           "checkFav", "createFav", "deleteFav", "bump", "bustId", "load", "fill"}

TypeOK ==
    /\ doc \in [Listings -> Document \cup {NoDoc}]
    /\ row \in [Listings -> Mirror \cup {NoRow}]
    /\ faved \subseteq Users \X Listings
    /\ areaCount \in [Areas -> Nat]
    /\ cached \in [Listings -> [CacheKeys -> Document \cup {NoDoc}]]
    /\ pc \in [Handlers -> Labels]
    /\ req \in [Handlers -> Request]
    /\ before \in [Handlers -> Document \cup {NoDoc}]
    /\ after \in [Handlers -> Document \cup {NoDoc}]
    /\ tally \in [Handlers -> Nat]
    /\ undone \subseteq Listings

Init ==
    /\ doc = [l \in Listings |-> NoDoc]
    /\ row = [l \in Listings |-> NoRow]
    /\ faved = {}
    /\ areaCount = [a \in Areas |-> 0]
    /\ cached = [l \in Listings |-> [k \in CacheKeys |-> NoDoc]]
    /\ pc = [p \in Handlers |-> "idle"]
    /\ req = [p \in Handlers |-> NoRequest]
    /\ before = [p \in Handlers |-> NoDoc]
    /\ after = [p \in Handlers |-> NoDoc]
    /\ tally = [p \in Handlers |-> 0]
    /\ undone = {}

-----------------------------------------------------------------------------
\* mirrorOf: the fields the row carries.
mirrorOf(d) == [facts |-> d.facts, area |-> d.area, deleted |-> d.deleted]

\* findOne's filter, and the `deletedAt: null` of the relational reads.
Listed(d)   == d # NoDoc /\ ~d.deleted
LiveRow(r)  == r # NoRow /\ ~r.deleted

\* A uuid nothing remembers.
Unused(l) == /\ doc[l] = NoDoc /\ row[l] = NoRow
             /\ \A k \in CacheKeys : cached[l][k] = NoDoc
             /\ \A p \in Handlers : req[p].lst # l

\* Mutant: absent fields are set too, without their `!== undefined` test.
PatchedUnset(d, r) == [d EXCEPT !.facts = r.facts, !.area = r.area]

\* $set of the fields the request names.
Patched(d, r) == [d EXCEPT !.facts = IF r.facts = None THEN @ ELSE r.facts,
                           !.area  = IF r.area = None THEN @ ELSE r.area]

Done(outcome) == outcome # "refused"

Goto(p, label) ==
    /\ pc' = [pc EXCEPT ![p] = label]
    /\ undone' = IF pc[p] = "restoreDoc" THEN undone \cup {req[p].lst} ELSE undone

Forget(p) == /\ before' = [before EXCEPT ![p] = NoDoc]
             /\ after' = [after EXCEPT ![p] = NoDoc]
             /\ tally' = [tally EXCEPT ![p] = 0]

\* The handler answers or throws, and is gone.
Finish(p) == /\ Goto(p, "idle")
             /\ req' = [req EXCEPT ![p] = NoRequest]
             /\ Forget(p)

Continue(p, label) == Goto(p, label) /\ UNCHANGED <<req, locals>>

\* The call answered, or it threw and `otherwise` is where the code goes.
Then(p, outcome, next, otherwise) ==
    IF outcome = "ok" THEN Continue(p, next)
    ELSE IF otherwise = "idle" THEN Finish(p)
    ELSE Continue(p, otherwise)

Begin(p, r, label) ==
    /\ r.op \in Ops
    /\ pc[p] = "idle"
    /\ req' = [req EXCEPT ![p] = r]
    /\ Goto(p, label)
    /\ UNCHANGED <<stores, locals>>

-----------------------------------------------------------------------------
(* Requests *)

Create(p, l, f, a) ==
    /\ Unused(l)
    /\ Begin(p, [NoRequest EXCEPT !.op = "create", !.lst = l, !.facts = f, !.area = a,
                                  !.home = a], "createDoc")

Update(p, l, f, a) ==
    /\ Listed(doc[l])
    /\ <<f, a>> # <<None, None>>
    /\ Begin(p, [NoRequest EXCEPT !.op = "update", !.lst = l, !.facts = f, !.area = a,
                                  !.home = doc[l].area], "readBefore")

Remove(p, l) ==
    /\ doc[l] # NoDoc
    /\ Begin(p, [NoRequest EXCEPT !.op = "remove", !.lst = l, !.home = doc[l].area], "markDoc")

Favourite(p, u, l) ==
    /\ LiveRow(row[l])
    /\ Begin(p, [NoRequest EXCEPT !.op = "favourite", !.lst = l, !.usr = u], "checkFav")

Unfavourite(p, u, l) ==
    Begin(p, [NoRequest EXCEPT !.op = "unfavourite", !.lst = l, !.usr = u], "deleteFav")

\* A hit answers from the cache and changes nothing.
Get(p, l, k) ==
    /\ cached[l][k] = NoDoc \/ RedisMayFail
    /\ Begin(p, [NoRequest EXCEPT !.op = "get", !.lst = l, !.key = k], "load")

-----------------------------------------------------------------------------
(* createWithMirror *)

CreateDoc(p) ==
    /\ pc[p] = "createDoc"
    /\ LET r == req[p]
           d == [facts |-> r.facts, area |-> r.area, deleted |-> FALSE, favs |-> 0]
       IN  \E outcome \in MongoOutcomes :
              /\ doc' = IF Done(outcome) THEN [doc EXCEPT ![r.lst] = d] ELSE doc
              /\ IF outcome = "ok"
                 THEN /\ after' = [after EXCEPT ![p] = d]
                      /\ Goto(p, "createRow")
                      /\ UNCHANGED <<req, before, tally>>
                 ELSE Finish(p)
    /\ UNCHANGED <<row, faved, areaCount, cached>>

CreateRow(p) ==
    /\ pc[p] = "createRow"
    /\ \E outcome \in PostgresOutcomes :
          /\ row' = IF Done(outcome) THEN [row EXCEPT ![req[p].lst] = mirrorOf(after[p])] ELSE row
          /\ Then(p, outcome, "bust", "deleteDoc")
    /\ UNCHANGED <<doc, faved, areaCount, cached>>

\* compensate
DeleteDoc(p) ==
    /\ pc[p] = "deleteDoc"
    /\ \E outcome \in MongoOutcomes :
          doc' = IF Done(outcome) THEN [doc EXCEPT ![req[p].lst] = NoDoc] ELSE doc
    /\ Finish(p)
    /\ UNCHANGED <<row, faved, areaCount, cached>>

-----------------------------------------------------------------------------
(* updateWithMirror *)

ReadBefore(p) ==
    /\ pc[p] = "readBefore"
    /\ \E outcome \in MongoOutcomes :
          IF outcome = "ok" /\ doc[req[p].lst] # NoDoc
          THEN /\ before' = [before EXCEPT ![p] = doc[req[p].lst]]
               /\ Goto(p, "setDoc")
               /\ UNCHANGED <<req, after, tally>>
          ELSE Finish(p)
    /\ UNCHANGED stores

SetDoc(p) ==
    /\ pc[p] = "setDoc"
    /\ LET l == req[p].lst
       IN  \E outcome \in MongoOutcomes :
              /\ doc' = IF Done(outcome) /\ doc[l] # NoDoc
                        THEN [doc EXCEPT ![l] = Patched(@, req[p])] ELSE doc
              /\ IF outcome = "ok" /\ doc[l] # NoDoc
                 THEN /\ after' = [after EXCEPT ![p] = doc'[l]]
                      /\ Goto(p, "setRow")
                      /\ UNCHANGED <<req, before, tally>>
                 ELSE Finish(p)
    /\ UNCHANGED <<row, faved, areaCount, cached>>

\* Prisma's update throws as well when the row is not there.
SetRow(p) ==
    /\ pc[p] = "setRow"
    /\ LET l == req[p].lst
       IN  \E outcome \in PostgresOutcomes :
              /\ row' = IF Done(outcome) /\ row[l] # NoRow
                        THEN [row EXCEPT ![l] = mirrorOf(after[p])] ELSE row
              /\ Then(p, IF row[l] = NoRow THEN "refused" ELSE outcome, "bust", "restoreDoc")
    /\ UNCHANGED <<doc, faved, areaCount, cached>>

\* Mutant: the error is logged and rethrown, the document stays as updated.
RestoreNothing(p) ==
    /\ pc[p] = "restoreDoc"
    /\ Finish(p)
    /\ UNCHANGED stores

\* Mutant: replaceOne with `upsert: true`.
RestoreUpsert(p) ==
    /\ pc[p] = "restoreDoc"
    /\ doc' = [doc EXCEPT ![req[p].lst] = before[p]]
    /\ Finish(p)
    /\ UNCHANGED <<row, faved, areaCount, cached>>

\* replaceOne does not insert.
RestoreDoc(p) ==
    /\ pc[p] = "restoreDoc"
    /\ LET l == req[p].lst
       IN  \E outcome \in MongoOutcomes :
              doc' = IF Done(outcome) /\ doc[l] # NoDoc THEN [doc EXCEPT ![l] = before[p]] ELSE doc
    /\ Finish(p)
    /\ UNCHANGED <<row, faved, areaCount, cached>>

-----------------------------------------------------------------------------
(* softDeleteWithMirror *)

MarkDoc(p) ==
    /\ pc[p] = "markDoc"
    /\ LET l == req[p].lst
       IN  \E outcome \in MongoOutcomes :
              /\ doc' = IF Done(outcome) /\ Listed(doc[l])
                        THEN [doc EXCEPT ![l].deleted = TRUE] ELSE doc
              /\ Then(p, IF Listed(doc[l]) THEN outcome ELSE "refused", "markRow", "idle")
    /\ UNCHANGED <<row, faved, areaCount, cached>>

MarkRow(p) ==
    /\ pc[p] = "markRow"
    /\ LET l == req[p].lst
       IN  \E outcome \in PostgresOutcomes :
              /\ row' = IF Done(outcome) /\ row[l] # NoRow
                        THEN [row EXCEPT ![l].deleted = TRUE] ELSE row
              /\ Then(p, IF row[l] = NoRow THEN "refused" ELSE outcome, "bust", "unmarkDoc")
    /\ UNCHANGED <<doc, faved, areaCount, cached>>

UnmarkDoc(p) ==
    /\ pc[p] = "unmarkDoc"
    /\ LET l == req[p].lst
       IN  \E outcome \in MongoOutcomes :
              doc' = IF Done(outcome) /\ doc[l] # NoDoc
                     THEN [doc EXCEPT ![l].deleted = FALSE] ELSE doc
    /\ Finish(p)
    /\ UNCHANGED <<row, faved, areaCount, cached>>

-----------------------------------------------------------------------------
(* After a write: the cache, then the area's count *)

\* Mutant: afterWrite is not given the previous slug.
BustIdOnly(p) ==
    /\ pc[p] = "bust"
    /\ cached' = [cached EXCEPT ![req[p].lst]["id"] = NoDoc]
    /\ Continue(p, "count")
    /\ UNCHANGED <<doc, row, faved, areaCount>>

\* invalidate: a created listing has no previous slug.
Bust(p) ==
    /\ pc[p] = "bust"
    /\ LET l    == req[p].lst
           keys == IF req[p].op = "create" THEN {"id"} ELSE {"id", "slug"}
       IN  \/ cached' = [cached EXCEPT ![l] = [k \in CacheKeys |->
                                                  IF k \in keys THEN NoDoc ELSE @[k]]]
           \/ RedisMayFail /\ UNCHANGED cached
    /\ Continue(p, "count")
    /\ UNCHANGED <<doc, row, faved, areaCount>>

\* syncPropertyCount counts, then writes; its caller swallows what it throws.
CountRows(p) ==
    /\ pc[p] = "count"
    /\ \E outcome \in PostgresOutcomes :
          IF outcome = "ok"
          THEN /\ tally' = [tally EXCEPT ![p] = Cardinality(
                              {l \in Listings : LiveRow(row[l]) /\ row[l].area = req[p].home})]
               /\ Goto(p, "sync")
               /\ UNCHANGED <<req, before, after>>
          ELSE Finish(p)
    /\ UNCHANGED stores

SyncCount(p) ==
    /\ pc[p] = "sync"
    /\ \E outcome \in PostgresOutcomes :
          areaCount' = IF Done(outcome) THEN [areaCount EXCEPT ![req[p].home] = tally[p]]
                       ELSE areaCount
    /\ Finish(p)
    /\ UNCHANGED <<doc, row, faved, cached>>

-----------------------------------------------------------------------------
(* Favourites *)

CheckFav(p) ==
    /\ pc[p] = "checkFav"
    /\ \E outcome \in PostgresOutcomes :
          Then(p, IF <<req[p].usr, req[p].lst>> \in faved THEN "refused" ELSE outcome,
               "createFav", "idle")
    /\ UNCHANGED stores

\* Mutant: favorites has no unique constraint.
CreateFavTwice(p) ==
    /\ pc[p] = "createFav"
    /\ faved' = faved \cup {<<req[p].usr, req[p].lst>>}
    /\ Continue(p, "bump")
    /\ UNCHANGED <<doc, row, areaCount, cached>>

\* The unique constraint on user and listing refuses a second row.
CreateFav(p) ==
    /\ pc[p] = "createFav"
    /\ LET fav == <<req[p].usr, req[p].lst>>
       IN  \E outcome \in PostgresOutcomes :
              /\ faved' = IF Done(outcome) THEN faved \cup {fav} ELSE faved
              /\ Then(p, IF fav \in faved THEN "refused" ELSE outcome, "bump", "idle")
    /\ UNCHANGED <<doc, row, areaCount, cached>>

DeleteFav(p) ==
    /\ pc[p] = "deleteFav"
    /\ LET fav == <<req[p].usr, req[p].lst>>
       IN  \E outcome \in PostgresOutcomes :
              /\ faved' = IF Done(outcome) THEN faved \ {fav} ELSE faved
              /\ Then(p, IF fav \in faved THEN outcome ELSE "refused", "bump", "idle")
    /\ UNCHANGED <<doc, row, areaCount, cached>>

\* adjustFavoriteCount: $inc, and its error is swallowed.
Bump(p) ==
    /\ pc[p] = "bump"
    /\ LET l     == req[p].lst
           delta == IF req[p].op = "favourite" THEN 1 ELSE -1
       IN  \E outcome \in MongoOutcomes :
              doc' = IF Done(outcome) /\ doc[l] # NoDoc
                     THEN [doc EXCEPT ![l].favs = @ + delta] ELSE doc
    /\ Continue(p, "bustId")
    /\ UNCHANGED <<row, faved, areaCount, cached>>

BustId(p) ==
    /\ pc[p] = "bustId"
    /\ \/ cached' = [cached EXCEPT ![req[p].lst]["id"] = NoDoc]
       \/ RedisMayFail /\ UNCHANGED cached
    /\ Finish(p)
    /\ UNCHANGED <<doc, row, faved, areaCount>>

-----------------------------------------------------------------------------
(* findOne, past a miss; and the TTL of what it stores *)

Load(p) ==
    /\ pc[p] = "load"
    /\ \E outcome \in MongoOutcomes :
          IF outcome = "ok" /\ Listed(doc[req[p].lst])
          THEN /\ after' = [after EXCEPT ![p] = doc[req[p].lst]]
               /\ Goto(p, "fill")
               /\ UNCHANGED <<req, before, tally>>
          ELSE Finish(p)
    /\ UNCHANGED stores

Fill(p) ==
    /\ pc[p] = "fill"
    /\ \/ cached' = [cached EXCEPT ![req[p].lst][req[p].key] = after[p]]
       \/ RedisMayFail /\ UNCHANGED cached
    /\ Finish(p)
    /\ UNCHANGED <<doc, row, faved, areaCount>>

\* Mutant: an entry under a slug is stored without a TTL.
LapseId(l, k) ==
    /\ k = "id" /\ cached[l][k] # NoDoc
    /\ cached' = [cached EXCEPT ![l][k] = NoDoc]
    /\ UNCHANGED <<doc, row, faved, areaCount, pc, req, locals, undone>>

Lapse(l, k) ==
    /\ cached[l][k] # NoDoc
    /\ cached' = [cached EXCEPT ![l][k] = NoDoc]
    /\ UNCHANGED <<doc, row, faved, areaCount, pc, req, locals, undone>>

Crash(p) ==
    /\ MayCrash
    /\ pc[p] # "idle"
    /\ Finish(p)
    /\ UNCHANGED stores

-----------------------------------------------------------------------------
Arrive(p) ==
    \E l \in Listings :
        \/ \E f \in Facts, a \in Areas : Create(p, l, f, a)
        \/ \E f \in Facts \cup {None}, a \in Areas \cup {None} : Update(p, l, f, a)
        \/ Remove(p, l)
        \/ \E u \in Users : Favourite(p, u, l) \/ Unfavourite(p, u, l)
        \/ \E k \in Keys : Get(p, l, k)

Step(p) ==
    \/ CreateDoc(p) \/ CreateRow(p) \/ DeleteDoc(p)
    \/ ReadBefore(p) \/ SetDoc(p) \/ SetRow(p) \/ RestoreDoc(p)
    \/ MarkDoc(p) \/ MarkRow(p) \/ UnmarkDoc(p)
    \/ Bust(p) \/ CountRows(p) \/ SyncCount(p)
    \/ CheckFav(p) \/ CreateFav(p) \/ DeleteFav(p) \/ Bump(p) \/ BustId(p)
    \/ Load(p) \/ Fill(p)

Next == \/ \E p \in Handlers : Arrive(p) \/ Step(p) \/ Crash(p)
        \/ \E l \in Listings, k \in CacheKeys : Lapse(l, k)

Spec == Init /\ [][Next]_vars

\* Node runs a continuation once its await settles; Redis expires every entry.
FairSpec == /\ Spec
            /\ \A p \in Handlers : WF_vars(Step(p))
            /\ \A l \in Listings, k \in CacheKeys : WF_vars(Lapse(l, k))
-----------------------------------------------------------------------------
(* What listings promise *)

Idle == \A p \in Handlers : pc[p] = "idle"

\* A document in the middle of its creation has no row yet.
BeingCreated(l) == \E p \in Handlers : /\ req[p].op = "create" /\ req[p].lst = l
                                       /\ pc[p] \in {"createRow", "deleteDoc"}

\* Outside its creation, a listing is in both stores or in neither, whatever
\* updates, removals and refused Postgres writes race: compensation never leaves
\* an orphan, and a rollback never re-inserts what compensation deleted.
BothOrNeither == \A l \in Listings :
                    BeingCreated(l) \/ (doc[l] = NoDoc <=> row[l] = NoRow)

\* Between its write to Mongo and the end of its write to Postgres, or of the undo.
Writing == {"createRow", "deleteDoc", "setRow", "restoreDoc", "markRow", "unmarkDoc"}
Settled(l) == \A p \in Handlers : req[p].lst = l => pc[p] \notin Writing

\* A listing nobody is writing is the same in both stores, also after a create,
\* update or removal that Postgres refused: each undo leads back to what the row
\* still says.
StoresAgree == \A l \in Listings : Settled(l) => row[l] = mirrorOf(doc[l])

\* Between requests no reader by id or slug can be served an out-of-date copy,
\* except that a copy under the slug may lag in its favourites count.
CacheIsFresh ==
    Idle => \A l \in Listings :
               /\ cached[l]["id"] \in {NoDoc, doc[l]}
               /\ cached[l]["slug"] # NoDoc => mirrorOf(cached[l]["slug"]) = mirrorOf(doc[l])

\* The counter on the document is the number of favourites rows, give or take the
\* handlers that wrote a row and are about to count it, through refused removals and
\* updates as well: only an update that is undone may take a count with it.
FavouritesCounted ==
    \A l \in Listings \ undone :
       LET Pending(o) == Cardinality({p \in Handlers : /\ pc[p] = "bump" /\ req[p].op = o
                                                       /\ req[p].lst = l})
       IN  doc[l].favs + Pending("favourite") - Pending("unfavourite")
              = Cardinality({u \in Users : <<u, l>> \in faved})

\* Once writes stop, stale copies die out, though a reader that loaded a document
\* before a write may store it after the invalidation.
WritesStopped == \A p \in Handlers : req[p].op \in {"none", "get"}
CopiesFresh   == \A l \in Listings, k \in CacheKeys :
                    cached[l][k] # NoDoc => cached[l][k] = doc[l] /\ Listed(doc[l])
CacheConverges == <>[]WritesStopped => <>[]CopiesFresh

\* areas.service.ts:177, propertyCount is recomputed "after listing writes".
AreasCounted ==
    Idle => \A a \in Areas :
               areaCount[a] = Cardinality({l \in Listings : LiveRow(row[l]) /\ row[l].area = a})
=============================================================================
