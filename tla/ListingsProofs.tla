--------------------------- MODULE ListingsProofs ---------------------------
(***************************************************************************)
(* Proofs about Listings, for any listings, users and handlers.  The type  *)
(* invariant is strengthened by Shape: what a handler at an await holds.   *)
(***************************************************************************)
EXTENDS Listings, FiniteSetTheorems, TLAPS

Writers == {"create", "update", "remove"}

ShapeOf(p) ==
    /\ pc[p] = "idle" => req[p] = NoRequest
    /\ pc[p] # "idle" => req[p].lst \in Listings
    /\ pc[p] \in {"createDoc", "createRow", "deleteDoc"} => req[p].op = "create"
    /\ pc[p] \in {"readBefore", "setDoc", "setRow", "restoreDoc"} => req[p].op = "update"
    /\ pc[p] \in {"markDoc", "markRow", "unmarkDoc"} => req[p].op = "remove"
    /\ pc[p] \in {"bust", "count", "sync"} => req[p].op \in Writers
    /\ req[p].op \in Writers => req[p].home \in Areas
    /\ req[p].op = "create" => req[p].facts \in Facts /\ req[p].area \in Areas
    /\ pc[p] \in {"checkFav", "createFav", "deleteFav", "bump", "bustId"} =>
          req[p].op \in {"favourite", "unfavourite"} /\ req[p].usr \in Users
    /\ pc[p] \in {"load", "fill"} => req[p].op = "get" /\ req[p].key \in CacheKeys
    /\ pc[p] \in {"setDoc", "setRow", "restoreDoc"} => before[p] \in Document
    /\ pc[p] \in {"createRow", "setRow", "fill"} => after[p] \in Document

Shape == \A p \in Handlers : ShapeOf(p)

StoresTyped ==
    /\ doc \in [Listings -> Document \cup {NoDoc}]
    /\ row \in [Listings -> Mirror \cup {NoRow}]
    /\ faved \subseteq Users \X Listings
    /\ areaCount \in [Areas -> Nat]
    /\ cached \in [Listings -> [CacheKeys -> Document \cup {NoDoc}]]

HandlersTyped ==
    /\ pc \in [Handlers -> Labels]
    /\ req \in [Handlers -> Request]
    /\ before \in [Handlers -> Document \cup {NoDoc}]
    /\ after \in [Handlers -> Document \cup {NoDoc}]
    /\ tally \in [Handlers -> Nat]
    /\ Shape

Typed == StoresTyped /\ HandlersTyped

USE ListingsAssumption

LEMMA InitTyped == Init => Typed
  BY DEF Init, Typed, StoresTyped, HandlersTyped, Shape, ShapeOf, NoRequest, Request, NoDoc, NoRow,
         Labels, AllOps, CacheKeys, Writers

\* The records: what a real document is not, and what a mirror of one is.
LEMMA Records ==
  /\ NoDoc \notin Document /\ NoRow \notin Mirror
  /\ mirrorOf(NoDoc) = NoRow
  /\ \A d \in Document : mirrorOf(d) \in Mirror
  BY DEF Document, Mirror, NoDoc, NoRow, mirrorOf

LEMMA PatchedDocument ==
  ASSUME NEW d \in Document, NEW r \in Request
  PROVE  Patched(d, r) \in Document /\ Patched(d, r).deleted = d.deleted
  BY DEF Document, Request, Patched

\* Setting a field of a document or a row leaves a document or a row.
LEMMA Fields ==
  /\ \A d \in Document, b \in BOOLEAN : [d EXCEPT !.deleted = b] \in Document
  /\ \A d \in Document, i \in Int : [d EXCEPT !.favs = d.favs + i] \in Document
  /\ \A r \in Mirror, b \in BOOLEAN : [r EXCEPT !.deleted = b] \in Mirror
  BY DEF Document, Mirror

\* Leaving, or going on to an await that asks for nothing new.
LEMMA FinishTyped ==
  ASSUME HandlersTyped, NEW p \in Handlers, Finish(p)
  PROVE  HandlersTyped'
  BY DEF Finish, Forget, Goto, HandlersTyped, Shape, ShapeOf, NoRequest, Request, NoDoc, Labels,
         AllOps, CacheKeys, Writers

LEMMA ContinueTyped ==
  ASSUME HandlersTyped, NEW p \in Handlers, NEW label \in Labels, Continue(p, label),
         label # "idle" /\ pc[p] # "idle",
         /\ label = "createRow" => FALSE
         /\ label \in {"deleteDoc"} => req[p].op = "create"
         /\ label \in {"setRow", "setDoc", "readBefore", "fill", "load", "createDoc"} => FALSE
         /\ label = "restoreDoc" => pc[p] = "setRow"
         /\ label \in {"markDoc", "markRow", "unmarkDoc"} => req[p].op = "remove"
         /\ label \in {"bust", "count", "sync"} => req[p].op \in Writers
         /\ label \in {"checkFav", "createFav", "deleteFav", "bump", "bustId"} =>
               req[p].op \in {"favourite", "unfavourite"} /\ req[p].usr \in Users
  PROVE  HandlersTyped'
  BY DEF Continue, Goto, locals, HandlersTyped, Shape, ShapeOf, Labels, Writers

\* An arrival sets the handler's own pc and req.
LEMMA BeginTyped ==
  ASSUME Typed, NEW p \in Handlers, NEW r \in Request, NEW label \in Labels,
         Begin(p, r, label), label # "idle", r.lst \in Listings,
         \/ label = "createDoc" /\ r.op = "create" /\ r.facts \in Facts /\ r.area \in Areas
         \/ label = "readBefore" /\ r.op = "update"
         \/ label = "markDoc" /\ r.op = "remove"
         \/ label = "checkFav" /\ r.op = "favourite" /\ r.usr \in Users
         \/ label = "deleteFav" /\ r.op = "unfavourite" /\ r.usr \in Users
         \/ label = "load" /\ r.op = "get" /\ r.key \in CacheKeys,
         r.op \in Writers => r.home \in Areas
  PROVE  Typed'
<1>1. StoresTyped'
  BY DEF Begin, stores, Typed, StoresTyped
<1>2. HandlersTyped'
  BY DEF Begin, Goto, locals, Typed, HandlersTyped, Shape, ShapeOf, Labels, Writers
<1>3. QED BY <1>1, <1>2 DEF Typed

LEMMA ArriveTyped ==
  ASSUME Typed, NEW p \in Handlers, Arrive(p)
  PROVE  Typed'
<1>1. PICK l \in Listings :
         \/ \E f \in Facts, a \in Areas : Create(p, l, f, a)
         \/ \E f \in Facts \cup {None}, a \in Areas \cup {None} : Update(p, l, f, a)
         \/ Remove(p, l)
         \/ \E u \in Users : Favourite(p, u, l) \/ Unfavourite(p, u, l)
         \/ \E k \in Keys : Get(p, l, k)
  BY DEF Arrive
<1> USE DEF Labels, Writers, CacheKeys
<1>2. ASSUME NEW f \in Facts, NEW a \in Areas, Create(p, l, f, a) PROVE Typed'
  <2> DEFINE r == [NoRequest EXCEPT !.op = "create", !.lst = l, !.facts = f, !.area = a, !.home = a]
  <2>1. /\ r \in Request /\ r.lst = l /\ r.op = "create" /\ r.facts = f
        /\ r.area = a /\ r.home = a
    BY DEF NoRequest, Request, AllOps
  <2>2. Begin(p, r, "createDoc")
    BY <1>2 DEF Create
  <2> HIDE DEF r
  <2>3. QED BY <2>1, <2>2, BeginTyped
<1>3. ASSUME NEW f \in Facts \cup {None}, NEW a \in Areas \cup {None}, Update(p, l, f, a)
      PROVE  Typed'
  <2> DEFINE r == [NoRequest EXCEPT !.op = "update", !.lst = l, !.facts = f, !.area = a,
                                    !.home = doc[l].area]
  <2>1. doc[l].area \in Areas
    BY <1>3 DEF Update, Listed, Document, Typed, StoresTyped
  <2>2. /\ r \in Request /\ r.lst = l /\ r.op = "update" /\ r.home \in Areas
    BY <2>1 DEF NoRequest, Request, AllOps
  <2>3. Begin(p, r, "readBefore")
    BY <1>3 DEF Update
  <2> HIDE DEF r
  <2>4. QED BY <2>2, <2>3, BeginTyped
<1>4. CASE Remove(p, l)
  <2> DEFINE r == [NoRequest EXCEPT !.op = "remove", !.lst = l, !.home = doc[l].area]
  <2>1. doc[l].area \in Areas
    BY <1>4 DEF Remove, Document, Typed, StoresTyped
  <2>2. /\ r \in Request /\ r.lst = l /\ r.op = "remove" /\ r.home \in Areas
    BY <2>1 DEF NoRequest, Request, AllOps
  <2>3. Begin(p, r, "markDoc")
    BY <1>4 DEF Remove
  <2> HIDE DEF r
  <2>4. QED BY <2>2, <2>3, BeginTyped
<1>5. ASSUME NEW u \in Users, Favourite(p, u, l) PROVE Typed'
  <2> DEFINE r == [NoRequest EXCEPT !.op = "favourite", !.lst = l, !.usr = u]
  <2>1. r \in Request /\ r.lst = l /\ r.op = "favourite" /\ r.usr = u
    BY DEF NoRequest, Request, AllOps
  <2>2. Begin(p, r, "checkFav")
    BY <1>5 DEF Favourite
  <2> HIDE DEF r
  <2>3. QED BY <2>1, <2>2, BeginTyped
<1>6. ASSUME NEW u \in Users, Unfavourite(p, u, l) PROVE Typed'
  <2> DEFINE r == [NoRequest EXCEPT !.op = "unfavourite", !.lst = l, !.usr = u]
  <2>1. r \in Request /\ r.lst = l /\ r.op = "unfavourite" /\ r.usr = u
    BY DEF NoRequest, Request, AllOps
  <2>2. Begin(p, r, "deleteFav")
    BY <1>6 DEF Unfavourite
  <2> HIDE DEF r
  <2>3. QED BY <2>1, <2>2, BeginTyped
<1>7. ASSUME NEW k \in Keys, Get(p, l, k) PROVE Typed'
  <2> DEFINE r == [NoRequest EXCEPT !.op = "get", !.lst = l, !.key = k]
  <2>1. r \in Request /\ r.lst = l /\ r.op = "get" /\ r.key = k
    BY DEF NoRequest, Request, AllOps
  <2>2. Begin(p, r, "load")
    BY <1>7 DEF Get
  <2> HIDE DEF r
  <2>3. QED BY <2>1, <2>2, BeginTyped
<1>8. QED BY <1>1, <1>2, <1>3, <1>4, <1>5, <1>6, <1>7

\* An await that saves what it read or wrote in the handler, and goes on.
LEMMA SaveTyped ==
  ASSUME HandlersTyped, NEW p \in Handlers, NEW d \in Document, pc[p] # "idle", UNCHANGED <<req, tally>>,
         \/ /\ pc[p] \in {"createDoc"} /\ Goto(p, "createRow")
            /\ after' = [after EXCEPT ![p] = d] /\ UNCHANGED before
         \/ /\ pc[p] \in {"setDoc"} /\ Goto(p, "setRow")
            /\ after' = [after EXCEPT ![p] = d] /\ UNCHANGED before
         \/ /\ pc[p] \in {"load"} /\ Goto(p, "fill")
            /\ after' = [after EXCEPT ![p] = d] /\ UNCHANGED before
         \/ /\ pc[p] \in {"readBefore"} /\ Goto(p, "setDoc")
            /\ before' = [before EXCEPT ![p] = d] /\ UNCHANGED after
  PROVE  HandlersTyped'
  BY DEF Goto, HandlersTyped, Shape, ShapeOf, Labels, Writers

\* One case per await of a handler.
LEMMA StepTyped ==
  ASSUME Typed, NEW p \in Handlers, Step(p)
  PROVE  Typed'
<1> DEFINE l == req[p].lst
<1>0. /\ pc[p] # "idle" => l \in Listings
      /\ StoresTyped /\ HandlersTyped /\ req[p] \in Request
  BY DEF Typed, HandlersTyped, Shape, ShapeOf
<1> USE DEF Labels, Writers
<1>1. CASE CreateDoc(p)
  <2> DEFINE d == [facts |-> req[p].facts, area |-> req[p].area, deleted |-> FALSE, favs |-> 0]
  <2>1. d \in Document
    BY <1>0, <1>1 DEF CreateDoc, HandlersTyped, Shape, ShapeOf, Document
  <2>2. /\ doc' = [doc EXCEPT ![l] = d] \/ UNCHANGED doc
        /\ \/ /\ after' = [after EXCEPT ![p] = d] /\ Goto(p, "createRow")
              /\ UNCHANGED <<req, before, tally>>
           \/ Finish(p)
        /\ UNCHANGED <<row, faved, areaCount, cached>>
        /\ pc[p] = "createDoc"
    BY <1>1 DEF CreateDoc
  <2> HIDE DEF d
  <2>3. StoresTyped'
    BY <1>0, <2>1, <2>2 DEF StoresTyped
  <2>4. HandlersTyped'
    BY <1>0, <2>1, <2>2, FinishTyped, SaveTyped
  <2>5. QED BY <2>3, <2>4 DEF Typed
<1>2. CASE CreateRow(p)
  <2>1. /\ row' = [row EXCEPT ![l] = mirrorOf(after[p])] \/ UNCHANGED row
        /\ Continue(p, "bust") \/ Continue(p, "deleteDoc")
        /\ UNCHANGED <<doc, faved, areaCount, cached>>
        /\ pc[p] = "createRow"
    BY <1>2 DEF CreateRow, Then
  <2>2. mirrorOf(after[p]) \in Mirror
    BY <1>0, <2>1, Records DEF HandlersTyped, Shape, ShapeOf
  <2>3. req[p].op = "create"
    BY <1>0, <2>1 DEF HandlersTyped, Shape, ShapeOf
  <2>4. StoresTyped'
    BY <1>0, <2>1, <2>2 DEF StoresTyped
  <2>5. HandlersTyped'
    BY <1>0, <2>1, <2>3, ContinueTyped
  <2>6. QED BY <2>4, <2>5 DEF Typed
<1>3. CASE DeleteDoc(p)
  <2>1. /\ doc' = [doc EXCEPT ![l] = NoDoc] \/ UNCHANGED doc
        /\ Finish(p)
        /\ UNCHANGED <<row, faved, areaCount, cached>>
    BY <1>3 DEF DeleteDoc
  <2>2. QED BY <1>0, <2>1, FinishTyped DEF Typed, StoresTyped
<1>4. CASE ReadBefore(p)
  <2>1. /\ \/ /\ doc[l] # NoDoc
              /\ before' = [before EXCEPT ![p] = doc[l]] /\ Goto(p, "setDoc")
              /\ UNCHANGED <<req, after, tally>>
           \/ Finish(p)
        /\ UNCHANGED stores
        /\ pc[p] = "readBefore"
    BY <1>4 DEF ReadBefore
  <2>2. doc[l] # NoDoc => doc[l] \in Document
    BY <1>0, <2>1 DEF StoresTyped
  <2>3. HandlersTyped'
    BY <1>0, <2>1, <2>2, FinishTyped, SaveTyped
  <2>4. QED BY <1>0, <2>1, <2>3 DEF Typed, StoresTyped, stores
<1>5. CASE SetDoc(p)
  <2> DEFINE d == Patched(doc[l], req[p])
  <2>1. /\ (doc[l] # NoDoc /\ doc' = [doc EXCEPT ![l] = d]) \/ UNCHANGED doc
        /\ \/ /\ doc[l] # NoDoc /\ doc' = [doc EXCEPT ![l] = d]
              /\ after' = [after EXCEPT ![p] = doc'[l]]
              /\ Goto(p, "setRow") /\ UNCHANGED <<req, before, tally>>
           \/ Finish(p)
        /\ UNCHANGED <<row, faved, areaCount, cached>>
        /\ pc[p] = "setDoc"
    BY <1>5 DEF SetDoc, Done
  <2>2. doc[l] # NoDoc => d \in Document
    BY <1>0, <2>1, PatchedDocument DEF StoresTyped
  <2> HIDE DEF d
  <2>3. StoresTyped'
    BY <1>0, <2>1, <2>2 DEF StoresTyped
  <2>4. CASE Finish(p)
    BY <1>0, <2>3, <2>4, FinishTyped DEF Typed
  <2>5. CASE /\ doc[l] # NoDoc /\ doc' = [doc EXCEPT ![l] = d]
             /\ after' = [after EXCEPT ![p] = doc'[l]]
             /\ Goto(p, "setRow") /\ UNCHANGED <<req, before, tally>>
    <3>1. doc'[l] = d /\ d \in Document
      BY <1>0, <2>1, <2>2, <2>5 DEF StoresTyped
    <3>2. QED BY <1>0, <2>1, <2>3, <2>5, <3>1, SaveTyped DEF Typed
  <2>6. QED BY <2>1, <2>4, <2>5
<1>6. CASE SetRow(p)
  <2>1. /\ row' = [row EXCEPT ![l] = mirrorOf(after[p])] \/ UNCHANGED row
        /\ Continue(p, "bust") \/ Continue(p, "restoreDoc")
        /\ UNCHANGED <<doc, faved, areaCount, cached>>
        /\ pc[p] = "setRow"
    BY <1>6 DEF SetRow, Then
  <2>2. mirrorOf(after[p]) \in Mirror /\ req[p].op = "update"
    BY <1>0, <2>1, Records DEF HandlersTyped, Shape, ShapeOf
  <2>3. StoresTyped'
    BY <1>0, <2>1, <2>2 DEF StoresTyped
  <2>4. HandlersTyped'
    BY <1>0, <2>1, <2>2, ContinueTyped
  <2>5. QED BY <2>3, <2>4 DEF Typed
<1>7. CASE RestoreDoc(p)
  <2>1. /\ doc' = [doc EXCEPT ![l] = before[p]] \/ UNCHANGED doc
        /\ Finish(p)
        /\ UNCHANGED <<row, faved, areaCount, cached>>
        /\ pc[p] = "restoreDoc"
    BY <1>7 DEF RestoreDoc
  <2>2. before[p] \in Document
    BY <1>0, <2>1 DEF HandlersTyped, Shape, ShapeOf
  <2>3. QED BY <1>0, <2>1, <2>2, FinishTyped DEF Typed, StoresTyped
<1>8. CASE MarkDoc(p)
  <2>1. /\ \/ doc[l] # NoDoc /\ doc' = [doc EXCEPT ![l].deleted = TRUE]
           \/ UNCHANGED doc
        /\ Continue(p, "markRow") \/ Finish(p)
        /\ UNCHANGED <<row, faved, areaCount, cached>>
        /\ pc[p] = "markDoc"
    BY <1>8 DEF MarkDoc, Then, Listed
  <2>2. StoresTyped'
    <3>1. doc[l] # NoDoc => [doc[l] EXCEPT !.deleted = TRUE] \in Document
      BY <1>0, <2>1, Fields DEF StoresTyped
    <3>2. [doc EXCEPT ![l].deleted = TRUE] = [doc EXCEPT ![l] = [@ EXCEPT !.deleted = TRUE]]
      OBVIOUS
    <3>3. QED BY <1>0, <2>1, <3>1, <3>2 DEF StoresTyped
  <2>3. req[p].op = "remove"
    BY <1>0, <2>1 DEF HandlersTyped, Shape, ShapeOf
  <2>4. HandlersTyped'
    BY <1>0, <2>1, <2>3, FinishTyped, ContinueTyped
  <2>5. QED BY <2>2, <2>4 DEF Typed
<1>9. CASE MarkRow(p)
  <2>1. /\ \/ row[l] # NoRow /\ row' = [row EXCEPT ![l].deleted = TRUE]
           \/ UNCHANGED row
        /\ Continue(p, "bust") \/ Continue(p, "unmarkDoc")
        /\ UNCHANGED <<doc, faved, areaCount, cached>>
        /\ pc[p] = "markRow"
    BY <1>9 DEF MarkRow, Then
  <2>2. StoresTyped'
    <3>1. row[l] # NoRow => [row[l] EXCEPT !.deleted = TRUE] \in Mirror
      BY <1>0, <2>1, Fields DEF StoresTyped
    <3>2. [row EXCEPT ![l].deleted = TRUE] = [row EXCEPT ![l] = [@ EXCEPT !.deleted = TRUE]]
      OBVIOUS
    <3>3. QED BY <1>0, <2>1, <3>1, <3>2 DEF StoresTyped
  <2>3. req[p].op = "remove"
    BY <1>0, <2>1 DEF HandlersTyped, Shape, ShapeOf
  <2>4. HandlersTyped'
    BY <1>0, <2>1, <2>3, ContinueTyped
  <2>5. QED BY <2>2, <2>4 DEF Typed
<1>10. CASE UnmarkDoc(p)
  <2>1. /\ \/ doc[l] # NoDoc /\ doc' = [doc EXCEPT ![l].deleted = FALSE]
           \/ UNCHANGED doc
        /\ Finish(p)
        /\ UNCHANGED <<row, faved, areaCount, cached>>
        /\ pc[p] = "unmarkDoc"
    BY <1>10 DEF UnmarkDoc
  <2>2. StoresTyped'
    <3>1. doc[l] # NoDoc => [doc[l] EXCEPT !.deleted = FALSE] \in Document
      BY <1>0, <2>1, Fields DEF StoresTyped
    <3>2. [doc EXCEPT ![l].deleted = FALSE] = [doc EXCEPT ![l] = [@ EXCEPT !.deleted = FALSE]]
      OBVIOUS
    <3>3. QED BY <1>0, <2>1, <3>1, <3>2 DEF StoresTyped
  <2>3. QED BY <1>0, <2>1, <2>2, FinishTyped DEF Typed
<1>11. CASE Bust(p)
  <2> DEFINE e == [k \in CacheKeys |-> IF k \in (IF req[p].op = "create" THEN {"id"} ELSE {"id", "slug"})
                                       THEN NoDoc ELSE cached[l][k]]
  <2>1. /\ cached' = [cached EXCEPT ![l] = e] \/ UNCHANGED cached
        /\ Continue(p, "count")
        /\ UNCHANGED <<doc, row, faved, areaCount>>
        /\ pc[p] = "bust"
    BY <1>0, <1>11 DEF Bust, StoresTyped
  <2>2. e \in [CacheKeys -> Document \cup {NoDoc}] /\ req[p].op \in Writers
    BY <1>0, <2>1 DEF StoresTyped, HandlersTyped, Shape, ShapeOf
  <2> HIDE DEF e
  <2>3. StoresTyped'
    BY <1>0, <2>1, <2>2 DEF StoresTyped
  <2>4. HandlersTyped'
    BY <1>0, <2>1, <2>2, ContinueTyped
  <2>5. QED BY <2>3, <2>4 DEF Typed
<1>12. CASE CountRows(p)
  <2> DEFINE n == Cardinality({m \in Listings : LiveRow(row[m]) /\ row[m].area = req[p].home})
  <2>1. /\ \/ /\ tally' = [tally EXCEPT ![p] = n] /\ Goto(p, "sync")
              /\ UNCHANGED <<req, before, after>>
           \/ Finish(p)
        /\ UNCHANGED stores
        /\ pc[p] = "count"
    BY <1>12 DEF CountRows
  <2>2. n \in Nat
    BY FS_Subset, FS_CardinalityType
  <2> HIDE DEF n
  <2>3. HandlersTyped'
    BY <1>0, <2>1, <2>2, FinishTyped DEF Goto, HandlersTyped, Shape, ShapeOf
  <2>4. QED BY <1>0, <2>1, <2>3 DEF Typed, StoresTyped, stores
<1>13. CASE SyncCount(p)
  <2>1. /\ areaCount' = [areaCount EXCEPT ![req[p].home] = tally[p]] \/ UNCHANGED areaCount
        /\ Finish(p)
        /\ UNCHANGED <<doc, row, faved, cached>>
    BY <1>13 DEF SyncCount
  <2>2. tally[p] \in Nat
    BY <1>0 DEF HandlersTyped
  <2>3. QED BY <1>0, <2>1, <2>2, FinishTyped DEF Typed, StoresTyped
<1>14. CASE CheckFav(p)
  <2>1. /\ Continue(p, "createFav") \/ Finish(p)
        /\ UNCHANGED stores
        /\ pc[p] = "checkFav"
    BY <1>14 DEF CheckFav, Then
  <2>2. req[p].op \in {"favourite", "unfavourite"} /\ req[p].usr \in Users
    BY <1>0, <2>1 DEF HandlersTyped, Shape, ShapeOf
  <2>3. HandlersTyped'
    BY <1>0, <2>1, <2>2, FinishTyped, ContinueTyped
  <2>4. QED BY <1>0, <2>1, <2>3 DEF Typed, StoresTyped, stores
<1>15. CASE CreateFav(p)
  <2>1. /\ faved' = faved \cup {<<req[p].usr, l>>} \/ UNCHANGED faved
        /\ Continue(p, "bump") \/ Finish(p)
        /\ UNCHANGED <<doc, row, areaCount, cached>>
        /\ pc[p] = "createFav"
    BY <1>15 DEF CreateFav, Then
  <2>2. req[p].op \in {"favourite", "unfavourite"} /\ req[p].usr \in Users
    BY <1>0, <2>1 DEF HandlersTyped, Shape, ShapeOf
  <2>3. StoresTyped'
    BY <1>0, <2>1, <2>2 DEF StoresTyped
  <2>4. HandlersTyped'
    BY <1>0, <2>1, <2>2, FinishTyped, ContinueTyped
  <2>5. QED BY <2>3, <2>4 DEF Typed
<1>16. CASE DeleteFav(p)
  <2>1. /\ faved' = faved \ {<<req[p].usr, l>>} \/ UNCHANGED faved
        /\ Continue(p, "bump") \/ Finish(p)
        /\ UNCHANGED <<doc, row, areaCount, cached>>
        /\ pc[p] = "deleteFav"
    BY <1>16 DEF DeleteFav, Then
  <2>2. req[p].op \in {"favourite", "unfavourite"} /\ req[p].usr \in Users
    BY <1>0, <2>1 DEF HandlersTyped, Shape, ShapeOf
  <2>3. StoresTyped'
    BY <1>0, <2>1 DEF StoresTyped
  <2>4. HandlersTyped'
    BY <1>0, <2>1, <2>2, FinishTyped, ContinueTyped
  <2>5. QED BY <2>3, <2>4 DEF Typed
<1>17. CASE Bump(p)
  <2> DEFINE d == [doc[l] EXCEPT !.favs = @ + IF req[p].op = "favourite" THEN 1 ELSE -1]
  <2>1. /\ (doc[l] # NoDoc /\ doc' = [doc EXCEPT ![l] = d]) \/ UNCHANGED doc
        /\ Continue(p, "bustId")
        /\ UNCHANGED <<row, faved, areaCount, cached>>
        /\ pc[p] = "bump"
    BY <1>17 DEF Bump
  <2>2. doc[l] # NoDoc => d \in Document
    BY <1>0, <2>1 DEF StoresTyped, Document
  <2> HIDE DEF d
  <2>3. req[p].op \in {"favourite", "unfavourite"} /\ req[p].usr \in Users
    BY <1>0, <2>1 DEF HandlersTyped, Shape, ShapeOf
  <2>4. StoresTyped'
    BY <1>0, <2>1, <2>2 DEF StoresTyped
  <2>5. HandlersTyped'
    BY <1>0, <2>1, <2>3, ContinueTyped
  <2>6. QED BY <2>4, <2>5 DEF Typed
<1>18. CASE BustId(p)
  <2>1. /\ cached' = [cached EXCEPT ![l]["id"] = NoDoc] \/ UNCHANGED cached
        /\ Finish(p)
        /\ UNCHANGED <<doc, row, faved, areaCount>>
        /\ pc[p] = "bustId"
    BY <1>18 DEF BustId
  <2>2. cached' \in [Listings -> [CacheKeys -> Document \cup {NoDoc}]]
    <3> DEFINE e == [cached[l] EXCEPT !["id"] = NoDoc]
    <3>1. e \in [CacheKeys -> Document \cup {NoDoc}]
      BY <1>0, <2>1 DEF StoresTyped, CacheKeys
    <3>2. cached' = [cached EXCEPT ![l] = e] \/ UNCHANGED cached
      BY <2>1
    <3> HIDE DEF e
    <3>3. QED BY <1>0, <2>1, <3>1, <3>2 DEF StoresTyped
  <2>3. QED BY <1>0, <2>1, <2>2, FinishTyped DEF Typed, StoresTyped
<1>19. CASE Load(p)
  <2>1. /\ \/ /\ doc[l] # NoDoc
              /\ after' = [after EXCEPT ![p] = doc[l]] /\ Goto(p, "fill")
              /\ UNCHANGED <<req, before, tally>>
           \/ Finish(p)
        /\ UNCHANGED stores
        /\ pc[p] = "load"
    BY <1>19 DEF Load, Listed
  <2>2. doc[l] # NoDoc => doc[l] \in Document
    BY <1>0, <2>1 DEF StoresTyped
  <2>3. HandlersTyped'
    BY <1>0, <2>1, <2>2, FinishTyped, SaveTyped
  <2>4. QED BY <1>0, <2>1, <2>3 DEF Typed, StoresTyped, stores
<1>20. CASE Fill(p)
  <2>1. /\ cached' = [cached EXCEPT ![l][req[p].key] = after[p]] \/ UNCHANGED cached
        /\ Finish(p)
        /\ UNCHANGED <<doc, row, faved, areaCount>>
        /\ pc[p] = "fill"
    BY <1>20 DEF Fill
  <2>2. after[p] \in Document /\ req[p].key \in CacheKeys
    BY <1>0, <2>1 DEF HandlersTyped, Shape, ShapeOf
  <2>3. cached' \in [Listings -> [CacheKeys -> Document \cup {NoDoc}]]
    <3> DEFINE e == [cached[l] EXCEPT ![req[p].key] = after[p]]
    <3>1. l \in Listings /\ e \in [CacheKeys -> Document \cup {NoDoc}]
      BY <1>0, <2>1, <2>2 DEF StoresTyped
    <3>2. cached' = [cached EXCEPT ![l] = e] \/ UNCHANGED cached
      BY <2>1
    <3> HIDE DEF e
    <3>3. QED BY <1>0, <3>1, <3>2 DEF StoresTyped
  <2>4. QED BY <1>0, <2>1, <2>3, FinishTyped DEF Typed, StoresTyped
<1>21. QED
  BY <1>1, <1>2, <1>3, <1>4, <1>5, <1>6, <1>7, <1>8, <1>9, <1>10, <1>11, <1>12, <1>13, <1>14,
     <1>15, <1>16, <1>17, <1>18, <1>19, <1>20 DEF Step

UndoneTyped == undone \subseteq Listings

\* The history grows by the listing of the handler that moves.
LEMMA UndoneInv == Typed /\ UndoneTyped /\ [Next]_vars => UndoneTyped'
<1> SUFFICES ASSUME Typed, UndoneTyped, [Next]_vars PROVE UndoneTyped'
  OBVIOUS
<1>1. \A p \in Handlers : \A label : Goto(p, label) => UndoneTyped'
  BY DEF Goto, Typed, HandlersTyped, Shape, ShapeOf, UndoneTyped
<1>2. ASSUME NEW p \in Handlers, Arrive(p) PROVE \E label : Goto(p, label)
  <2>1. \A r, label : Begin(p, r, label) => Goto(p, label)
    BY DEF Begin
  <2>2. PICK l \in Listings :
           \/ \E f \in Facts, a \in Areas : Create(p, l, f, a)
           \/ \E f \in Facts \cup {None}, a \in Areas \cup {None} : Update(p, l, f, a)
           \/ Remove(p, l)
           \/ \E u \in Users : Favourite(p, u, l) \/ Unfavourite(p, u, l)
           \/ \E k \in Keys : Get(p, l, k)
    BY <1>2 DEF Arrive
  <2>3. \A f, a : Create(p, l, f, a) => Goto(p, "createDoc")
    BY <2>1 DEF Create
  <2>4. \A f, a : Update(p, l, f, a) => Goto(p, "readBefore")
    BY <2>1 DEF Update
  <2>5. \A u : (Favourite(p, u, l) => Goto(p, "checkFav")) /\ (Unfavourite(p, u, l) => Goto(p, "deleteFav"))
    BY <2>1 DEF Favourite, Unfavourite
  <2>6. (Remove(p, l) => Goto(p, "markDoc")) /\ \A k : Get(p, l, k) => Goto(p, "load")
    BY <2>1 DEF Remove, Get
  <2>7. QED BY <2>2, <2>3, <2>4, <2>5, <2>6
<1>3. ASSUME NEW p \in Handlers, Step(p) \/ Crash(p) PROVE \E label : Goto(p, label)
  <2>1. CreateDoc(p) \/ CreateRow(p) \/ DeleteDoc(p) \/ ReadBefore(p) \/ SetDoc(p) \/ SetRow(p)
           \/ RestoreDoc(p) => \E label : Goto(p, label)
    BY DEF CreateDoc, CreateRow, DeleteDoc, ReadBefore, SetDoc, SetRow, RestoreDoc, Then, Continue, Finish
  <2>2. MarkDoc(p) \/ MarkRow(p) \/ UnmarkDoc(p) \/ Bust(p) \/ CountRows(p) \/ SyncCount(p) \/ Crash(p)
           => \E label : Goto(p, label)
    BY DEF MarkDoc, MarkRow, UnmarkDoc, Bust, CountRows, SyncCount, Crash, Then, Continue, Finish
  <2>3. CheckFav(p) \/ CreateFav(p) \/ DeleteFav(p) \/ Bump(p) \/ BustId(p) \/ Load(p) \/ Fill(p)
           => \E label : Goto(p, label)
    BY DEF CheckFav, CreateFav, DeleteFav, Bump, BustId, Load, Fill, Then, Continue, Finish
  <2>4. QED BY <1>3, <2>1, <2>2, <2>3 DEF Step
<1>4. UNCHANGED vars \/ (\E l \in Listings, k \in CacheKeys : Lapse(l, k)) => UndoneTyped'
  BY DEF vars, Lapse, UndoneTyped
<1>5. QED BY <1>1, <1>2, <1>3, <1>4 DEF Next

LEMMA NextTyped == Typed /\ [Next]_vars => Typed'
<1> SUFFICES ASSUME Typed, [Next]_vars PROVE Typed'
  OBVIOUS
<1>1. CASE UNCHANGED vars
  BY <1>1 DEF vars, stores, locals, Typed, StoresTyped, HandlersTyped, Shape, ShapeOf
<1>2. ASSUME NEW p \in Handlers, Crash(p) PROVE Typed'
  BY <1>2, FinishTyped DEF Crash, stores, Typed, StoresTyped
<1>3. ASSUME NEW l \in Listings, NEW k \in CacheKeys, Lapse(l, k) PROVE Typed'
  <2>1. cached' \in [Listings -> [CacheKeys -> Document \cup {NoDoc}]]
    BY <1>3 DEF Lapse, Typed, StoresTyped
  <2>2. QED
    BY <1>3, <2>1 DEF Lapse, locals, Typed, StoresTyped, HandlersTyped, Shape, ShapeOf
<1>4. QED BY <1>1, <1>2, <1>3, ArriveTyped, StepTyped DEF Next

\* Every store and every handler keeps its type, and what a handler carries is
\* what its next await uses: no await of the listing handlers meets a missing value.
THEOREM ListingTypes == Spec => [](TypeOK /\ Shape)
<1>1. Typed /\ UndoneTyped => TypeOK /\ Shape
  BY DEF Typed, StoresTyped, HandlersTyped, UndoneTyped, TypeOK
<1>2. Init => UndoneTyped
  BY DEF Init, UndoneTyped
<1>3. QED BY <1>1, <1>2, InitTyped, NextTyped, UndoneInv, PTL DEF Spec

-----------------------------------------------------------------------------
(* BothOrNeither, when Mongo answers, a failed Postgres call did nothing and no   *)
(* process dies.                                                                  *)

Creating == {"createDoc", "createRow", "deleteDoc"}

\* A listing has one creator, who finds nothing, then writes the document, then
\* the row or undoes the document.
Whole ==
    /\ \A p, q \in Handlers : pc[p] \in Creating /\ pc[q] \in Creating /\ req[p].lst = req[q].lst
                                 => p = q
    /\ \A p \in Handlers :
          /\ pc[p] = "createDoc" => doc[req[p].lst] = NoDoc /\ row[req[p].lst] = NoRow
          /\ pc[p] \in {"createRow", "deleteDoc"} =>
                doc[req[p].lst] # NoDoc /\ row[req[p].lst] = NoRow
    /\ BothOrNeither

\* What neither creates, deletes nor begins to create leaves Whole alone.
LEMMA OtherWhole ==
  ASSUME Typed, Whole, NEW p \in Handlers, NEW label \in Labels \ Creating,
         pc[p] \notin Creating, Goto(p, label),
         \A q \in Handlers \ {p} : req'[q] = req[q],
         \A l \in Listings : (doc'[l] = NoDoc <=> doc[l] = NoDoc) /\ (row'[l] = NoRow <=> row[l] = NoRow)
  PROVE  Whole'
<1>1. \A q \in Handlers : q # p => pc'[q] = pc[q] /\ req'[q] = req[q]
  BY DEF Goto, Typed, HandlersTyped
<1>2. pc'[p] \notin Creating
  BY DEF Goto, Typed, HandlersTyped
<1>3. \A q \in Handlers : pc[q] \in Creating => req[q].lst \in Listings /\ q # p
  BY DEF Typed, HandlersTyped, Shape, ShapeOf, Creating
<1>4. BothOrNeither'
  <2> SUFFICES ASSUME NEW l \in Listings, ~BeingCreated(l)'
               PROVE  doc'[l] = NoDoc <=> row'[l] = NoRow
    BY DEF BothOrNeither
  <2>1. ~BeingCreated(l)
    BY <1>1, <1>3 DEF BeingCreated, Creating
  <2>2. QED BY <2>1 DEF Whole, BothOrNeither
<1>5. QED BY <1>1, <1>2, <1>3, <1>4 DEF Whole, Creating

LEMMA ArriveWhole ==
  ASSUME Typed, Whole, NEW p \in Handlers, Arrive(p)
  PROVE  Whole'
<1> USE DEF Labels, Creating
<1>1. PICK l \in Listings :
         \/ \E f \in Facts, a \in Areas : Create(p, l, f, a)
         \/ \E r \in [op : AllOps \ {"create"}, lst : {l}, usr : Users \cup {None},
                      facts : Facts \cup {None}, area : Areas \cup {None},
                      home : Areas \cup {None, doc[l].area}, key : CacheKeys \cup {None}],
               label \in Labels \ Creating : Begin(p, r, label)
  <2>1. PICK l \in Listings :
           \/ \E f \in Facts, a \in Areas : Create(p, l, f, a)
           \/ \E f \in Facts \cup {None}, a \in Areas \cup {None} : Update(p, l, f, a)
           \/ Remove(p, l)
           \/ \E u \in Users : Favourite(p, u, l) \/ Unfavourite(p, u, l)
           \/ \E k \in Keys : Get(p, l, k)
    BY DEF Arrive
  <2>2. QED BY <2>1 DEF Update, Remove, Favourite, Unfavourite, Get, NoRequest, AllOps
<1>2. ASSUME NEW f \in Facts, NEW a \in Areas, Create(p, l, f, a) PROVE Whole'
  <2>1. /\ pc[p] = "idle" /\ pc' = [pc EXCEPT ![p] = "createDoc"]
        /\ Unused(l) /\ UNCHANGED <<doc, row>>
    BY <1>2 DEF Create, Begin, Goto, stores
  <2>2. req'[p].lst = l /\ \A q \in Handlers : q # p => req'[q] = req[q]
    BY <1>2 DEF Create, Begin, NoRequest, Typed, HandlersTyped
  <2>3. \A q \in Handlers : req[q].lst # l
    BY <2>1 DEF Unused
  <2>4. BothOrNeither'
    <3> SUFFICES ASSUME NEW m \in Listings, ~BeingCreated(m)'
                 PROVE  doc'[m] = NoDoc <=> row'[m] = NoRow
      BY DEF BothOrNeither
    <3>1. ~BeingCreated(m)
      BY <2>1, <2>2 DEF BeingCreated, Typed, HandlersTyped
    <3>2. QED BY <2>1, <3>1 DEF Whole, BothOrNeither
  <2>5. QED BY <2>1, <2>2, <2>3, <2>4 DEF Whole, Unused, Typed, HandlersTyped
<1>3. ASSUME NEW r, NEW label \in Labels \ Creating, Begin(p, r, label) PROVE Whole'
  BY <1>3, OtherWhole DEF Begin, Goto, stores, Typed, HandlersTyped
<1>4. QED BY <1>1, <1>2, <1>3

LEMMA StepWhole ==
  ASSUME MongoOutcomes = {"ok"}, "lost" \notin PostgresOutcomes,
         Typed, Whole, NEW p \in Handlers, Step(p)
  PROVE  Whole'
<1> DEFINE l == req[p].lst
<1>0. /\ pc[p] # "idle" => l \in Listings
      /\ \A d \in Document : d # NoDoc /\ mirrorOf(d) # NoRow
      /\ \A q \in Handlers : pc[q] \in Creating => req[q].op = "create" /\ req[q].lst \in Listings
      /\ \A outcome \in PostgresOutcomes : outcome = "ok" \/ outcome = "refused"
  BY Records DEF Typed, HandlersTyped, Shape, ShapeOf, Creating, Outcomes
<1> USE DEF Labels
<1>1. CASE CreateDoc(p)
  <2> DEFINE d == [facts |-> req[p].facts, area |-> req[p].area, deleted |-> FALSE, favs |-> 0]
  <2>0. d \in Document
    BY <1>0, <1>1 DEF CreateDoc, Typed, HandlersTyped, Shape, ShapeOf, Document
  <2>1. doc' = [doc EXCEPT ![l] = d]
    BY <1>1 DEF CreateDoc, Done
  <2> HIDE DEF d
  <2>2. /\ pc[p] = "createDoc" /\ pc' = [pc EXCEPT ![p] = "createRow"]
        /\ UNCHANGED <<req, row>>
    BY <1>1 DEF CreateDoc, Goto
  <2>3. BothOrNeither'
    <3> SUFFICES ASSUME NEW m \in Listings, ~BeingCreated(m)'
                 PROVE  doc'[m] = NoDoc <=> row'[m] = NoRow
      BY DEF BothOrNeither
    <3>1. m # l /\ ~BeingCreated(m)
      BY <1>0, <2>2 DEF BeingCreated, Typed, HandlersTyped, Creating
    <3>2. QED BY <2>0, <2>1, <2>2, <3>1 DEF Whole, BothOrNeither
  <2>4. QED BY <1>0, <2>0, <2>1, <2>2, <2>3 DEF Whole, Creating, Typed, HandlersTyped, StoresTyped
<1>2. CASE CreateRow(p)
  <2>1. /\ pc[p] = "createRow" /\ UNCHANGED <<doc, req>>
        /\ \/ /\ row' = [row EXCEPT ![l] = mirrorOf(after[p])]
              /\ pc' = [pc EXCEPT ![p] = "bust"]
           \/ UNCHANGED row /\ pc' = [pc EXCEPT ![p] = "deleteDoc"]
    BY <1>0, <1>2 DEF CreateRow, Then, Done, Continue, Goto
  <2>2. mirrorOf(after[p]) # NoRow
    BY <1>0, <2>1 DEF Typed, HandlersTyped, Shape, ShapeOf
  <2>3. CASE UNCHANGED row /\ pc' = [pc EXCEPT ![p] = "deleteDoc"]
    <3>1. BothOrNeither'
      BY <2>1, <2>3 DEF Whole, BothOrNeither, BeingCreated, Typed, HandlersTyped
    <3>2. QED BY <1>0, <2>1, <2>3, <3>1 DEF Whole, Creating, Typed, HandlersTyped
  <2>4. CASE row' = [row EXCEPT ![l] = mirrorOf(after[p])] /\ pc' = [pc EXCEPT ![p] = "bust"]
    <3>1. row'[l] # NoRow /\ doc'[l] # NoDoc /\ \A m \in Listings : m # l => row'[m] = row[m]
      BY <1>0, <2>1, <2>2, <2>4 DEF Whole, Typed, StoresTyped
    <3>2. BothOrNeither'
      <4> SUFFICES ASSUME NEW m \in Listings, ~BeingCreated(m)', m # l
                   PROVE  doc'[m] = NoDoc <=> row'[m] = NoRow
        BY <3>1 DEF BothOrNeither
      <4>1. ~BeingCreated(m)
        BY <2>1, <2>4 DEF BeingCreated, Typed, HandlersTyped
      <4>2. QED BY <2>1, <3>1, <4>1 DEF Whole, BothOrNeither
    <3>3. QED BY <1>0, <2>1, <2>4, <3>1, <3>2 DEF Whole, Creating, Typed, HandlersTyped
  <2>5. QED BY <2>1, <2>3, <2>4
<1>3. CASE DeleteDoc(p)
  <2>1. /\ pc[p] = "deleteDoc" /\ doc' = [doc EXCEPT ![l] = NoDoc]
        /\ pc' = [pc EXCEPT ![p] = "idle"] /\ UNCHANGED row
        /\ req' = [req EXCEPT ![p] = NoRequest]
    BY <1>3 DEF DeleteDoc, Done, Finish, Goto
  <2>2. doc'[l] = NoDoc /\ row'[l] = NoRow /\ \A m \in Listings : m # l => doc'[m] = doc[m]
    BY <1>0, <2>1 DEF Whole, Typed, StoresTyped
  <2>3. \A q \in Handlers : q # p => pc'[q] = pc[q] /\ req'[q] = req[q]
    BY <2>1 DEF Typed, HandlersTyped
  <2>4. BothOrNeither'
    <3> SUFFICES ASSUME NEW m \in Listings, ~BeingCreated(m)', m # l
                 PROVE  doc'[m] = NoDoc <=> row'[m] = NoRow
      BY <2>2 DEF BothOrNeither
    <3>1. ~BeingCreated(m)
      BY <2>1, <2>3 DEF BeingCreated, Typed, HandlersTyped
    <3>2. QED BY <2>1, <2>2, <3>1 DEF Whole, BothOrNeither
  <2>5. QED BY <1>0, <2>1, <2>2, <2>3, <2>4 DEF Whole, Creating, Typed, HandlersTyped
<1>4. ASSUME pc[p] \notin Creating,
             \E label \in Labels \ Creating : Continue(p, label) \/ (Goto(p, label) /\ UNCHANGED req)
                                                 \/ (label = "idle" /\ Finish(p)),
             \A m \in Listings : /\ doc'[m] = NoDoc <=> doc[m] = NoDoc
                                 /\ row'[m] = NoRow <=> row[m] = NoRow
      PROVE  Whole'
  BY <1>4, OtherWhole DEF Continue, Finish, Typed, HandlersTyped
<1>5. CASE ReadBefore(p)
  BY <1>5, <1>4 DEF ReadBefore, stores, Creating
<1>6. CASE SetDoc(p)
  <2> DEFINE d == Patched(doc[l], req[p])
  <2>1. /\ (doc[l] # NoDoc /\ doc' = [doc EXCEPT ![l] = d]) \/ UNCHANGED doc
        /\ (Goto(p, "setRow") /\ UNCHANGED req) \/ Finish(p)
        /\ UNCHANGED row
        /\ pc[p] = "setDoc"
    BY <1>6 DEF SetDoc
  <2>2. l \in Listings /\ (doc[l] # NoDoc => d \in Document)
    BY <1>0, <2>1, PatchedDocument DEF Typed, StoresTyped, HandlersTyped
  <2> HIDE DEF d
  <2>3. QED BY <1>0, <1>4, <2>1, <2>2 DEF Typed, StoresTyped, Creating
<1>7. CASE SetRow(p)
  <2>1. /\ (row[l] # NoRow /\ row' = [row EXCEPT ![l] = mirrorOf(after[p])]) \/ UNCHANGED row
        /\ Continue(p, "bust") \/ Continue(p, "restoreDoc")
        /\ UNCHANGED doc
        /\ pc[p] = "setRow"
    BY <1>7 DEF SetRow, Then
  <2>2. mirrorOf(after[p]) # NoRow
    BY <1>0, <2>1 DEF Typed, HandlersTyped, Shape, ShapeOf
  <2>3. QED BY <1>0, <1>4, <2>1, <2>2 DEF Typed, StoresTyped, Creating
<1>8. CASE RestoreDoc(p)
  <2>1. /\ (doc[l] # NoDoc /\ doc' = [doc EXCEPT ![l] = before[p]]) \/ UNCHANGED doc
        /\ Finish(p)
        /\ UNCHANGED row
        /\ pc[p] = "restoreDoc"
    BY <1>8 DEF RestoreDoc
  <2>2. before[p] # NoDoc
    BY <1>0, <2>1 DEF Typed, HandlersTyped, Shape, ShapeOf
  <2>3. QED BY <1>0, <1>4, <2>1, <2>2 DEF Typed, StoresTyped, Creating
<1>9. CASE MarkDoc(p)
  <2> DEFINE e == [doc[l] EXCEPT !.deleted = TRUE]
  <2>1. /\ (doc[l] # NoDoc /\ doc' = [doc EXCEPT ![l].deleted = TRUE]) \/ UNCHANGED doc
        /\ Continue(p, "markRow") \/ Finish(p)
        /\ UNCHANGED row
        /\ pc[p] = "markDoc"
    BY <1>9 DEF MarkDoc, Then, Listed
  <2>2. [doc EXCEPT ![l].deleted = TRUE] = [doc EXCEPT ![l] = e]
    OBVIOUS
  <2>3. doc[l] # NoDoc => e \in Document
    <3>1. l \in Listings /\ (doc[l] # NoDoc => doc[l] \in Document)
      BY <1>0, <2>1 DEF Typed, StoresTyped
    <3>2. QED BY <3>1, Fields
  <2> HIDE DEF e
  <2>4. \A m \in Listings : (doc'[m] = NoDoc <=> doc[m] = NoDoc) /\ (row'[m] = NoRow <=> row[m] = NoRow)
    BY <1>0, <2>1, <2>2, <2>3, Records DEF Typed, StoresTyped
  <2>5. QED BY <1>4, <2>1, <2>4 DEF Creating
<1>10. CASE MarkRow(p)
  <2> DEFINE e == [row[l] EXCEPT !.deleted = TRUE]
  <2>1. /\ (row[l] # NoRow /\ row' = [row EXCEPT ![l].deleted = TRUE]) \/ UNCHANGED row
        /\ Continue(p, "bust") \/ Continue(p, "unmarkDoc")
        /\ UNCHANGED doc
        /\ pc[p] = "markRow"
    BY <1>10 DEF MarkRow, Then
  <2>2. [row EXCEPT ![l].deleted = TRUE] = [row EXCEPT ![l] = e]
    OBVIOUS
  <2>3. row[l] # NoRow => e \in Mirror
    <3>1. l \in Listings /\ (row[l] # NoRow => row[l] \in Mirror)
      BY <1>0, <2>1 DEF Typed, StoresTyped
    <3>2. QED BY <3>1, Fields
  <2> HIDE DEF e
  <2>4. \A m \in Listings : (doc'[m] = NoDoc <=> doc[m] = NoDoc) /\ (row'[m] = NoRow <=> row[m] = NoRow)
    <3>1. row[l] # NoRow => e # NoRow
      BY <2>3, Records
    <3>2. QED BY <1>0, <2>1, <2>2, <3>1 DEF Typed, StoresTyped
  <2>5. QED BY <1>4, <2>1, <2>4 DEF Creating
<1>11. CASE UnmarkDoc(p)
  <2> DEFINE e == [doc[l] EXCEPT !.deleted = FALSE]
  <2>1. /\ (doc[l] # NoDoc /\ doc' = [doc EXCEPT ![l].deleted = FALSE]) \/ UNCHANGED doc
        /\ Finish(p)
        /\ UNCHANGED row
        /\ pc[p] = "unmarkDoc"
    BY <1>11 DEF UnmarkDoc
  <2>2. [doc EXCEPT ![l].deleted = FALSE] = [doc EXCEPT ![l] = e]
    OBVIOUS
  <2>3. doc[l] # NoDoc => e \in Document
    <3>1. l \in Listings /\ (doc[l] # NoDoc => doc[l] \in Document)
      BY <1>0, <2>1 DEF Typed, StoresTyped
    <3>2. QED BY <3>1, Fields
  <2> HIDE DEF e
  <2>4. \A m \in Listings : (doc'[m] = NoDoc <=> doc[m] = NoDoc) /\ (row'[m] = NoRow <=> row[m] = NoRow)
    BY <1>0, <2>1, <2>2, <2>3, Records DEF Typed, StoresTyped
  <2>5. QED BY <1>4, <2>1, <2>4 DEF Creating
<1>12. CASE Bust(p)
  BY <1>12, <1>4 DEF Bust, stores, Creating
<1>13. CASE CountRows(p)
  BY <1>13, <1>4 DEF CountRows, stores, Creating
<1>14. CASE SyncCount(p)
  BY <1>14, <1>4 DEF SyncCount, stores, Creating
<1>15. CASE CheckFav(p)
  BY <1>15, <1>4 DEF CheckFav, stores, Creating, Then
<1>16. CASE CreateFav(p)
  BY <1>16, <1>4 DEF CreateFav, stores, Creating, Then
<1>17. CASE DeleteFav(p)
  BY <1>17, <1>4 DEF DeleteFav, stores, Creating, Then
<1>18. CASE Bump(p)
  <2> DEFINE delta == IF req[p].op = "favourite" THEN 1 ELSE -1
  <2> DEFINE e == [doc[l] EXCEPT !.favs = doc[l].favs + delta]
  <2>1. /\ (doc[l] # NoDoc /\ doc' = [doc EXCEPT ![l].favs = @ + delta]) \/ UNCHANGED doc
        /\ Continue(p, "bustId")
        /\ UNCHANGED row
        /\ pc[p] = "bump"
    BY <1>18 DEF Bump
  <2>2. [doc EXCEPT ![l].favs = @ + delta] = [doc EXCEPT ![l] = e]
    OBVIOUS
  <2>3. doc[l] # NoDoc => e \in Document
    <3>1. l \in Listings /\ (doc[l] # NoDoc => doc[l] \in Document)
      BY <1>0, <2>1 DEF Typed, StoresTyped
    <3>2. delta \in Int
      OBVIOUS
    <3> HIDE DEF delta
    <3>3. QED BY <3>1, <3>2, Fields
  <2> HIDE DEF e
  <2>4. \A m \in Listings : (doc'[m] = NoDoc <=> doc[m] = NoDoc) /\ (row'[m] = NoRow <=> row[m] = NoRow)
    BY <1>0, <2>1, <2>2, <2>3, Records DEF Typed, StoresTyped
  <2>5. QED BY <1>4, <2>1, <2>4 DEF Creating
<1>19. CASE BustId(p)
  BY <1>19, <1>4 DEF BustId, stores, Creating
<1>20. CASE Load(p)
  BY <1>20, <1>4 DEF Load, stores, Creating
<1>21. CASE Fill(p)
  BY <1>21, <1>4 DEF Fill, stores, Creating
<1>22. QED
  BY <1>1, <1>2, <1>3, <1>5, <1>6, <1>7, <1>8, <1>9, <1>10, <1>11, <1>12, <1>13, <1>14, <1>15, <1>16, <1>17, <1>18, <1>19, <1>20, <1>21
  DEF Step

LEMMA NextWhole ==
  ASSUME MongoOutcomes = {"ok"}, "lost" \notin PostgresOutcomes, ~MayCrash
  PROVE  Typed /\ Whole /\ [Next]_vars => Whole'
<1> SUFFICES ASSUME Typed, Whole, [Next]_vars PROVE Whole'
  OBVIOUS
<1>1. CASE UNCHANGED vars
  BY <1>1 DEF vars, stores, Whole, BothOrNeither, BeingCreated
<1>2. ASSUME NEW l \in Listings, NEW k \in CacheKeys, Lapse(l, k) PROVE Whole'
  BY <1>2 DEF Lapse, Whole, BothOrNeither, BeingCreated
<1>3. QED BY <1>1, <1>2, ArriveWhole, StepWhole DEF Next, Crash

\* While Mongo answers, refused Postgres writes never leave a listing in one store
\* only, for any number of handlers creating, updating and removing at once.
THEOREM ListingsAreWhole ==
  ASSUME MongoOutcomes = {"ok"}, "lost" \notin PostgresOutcomes, ~MayCrash
  PROVE  Spec => []BothOrNeither
<1>1. Init => Whole
  BY DEF Init, Whole, Creating, BothOrNeither
<1>2. Whole => BothOrNeither
  BY DEF Whole
<1>3. QED BY <1>1, <1>2, InitTyped, NextTyped, NextWhole, PTL DEF Spec

-----------------------------------------------------------------------------
(* What a step leaves alone, and the documents and rows of a removal.           *)

Agrees(d, r) == r = mirrorOf(d)
Undeleted(d) == [d EXCEPT !.deleted = FALSE]

LEMMA DeletedAndBack ==
  /\ \A d \in Document : ~d.deleted => Undeleted([d EXCEPT !.deleted = TRUE]) = d
  /\ \A d \in Document : d.deleted => mirrorOf(d) = [mirrorOf(Undeleted(d)) EXCEPT !.deleted = TRUE]
  /\ \A d \in Document : Undeleted(d) \in Document
<1>1. ASSUME NEW d \in Document, ~d.deleted PROVE Undeleted([d EXCEPT !.deleted = TRUE]) = d
  BY <1>1 DEF Document, Undeleted
<1>2. ASSUME NEW d \in Document PROVE Undeleted(d) \in Document
  BY DEF Document, Undeleted
<1>3. ASSUME NEW d \in Document, d.deleted
      PROVE  mirrorOf(d) = [mirrorOf(Undeleted(d)) EXCEPT !.deleted = TRUE]
  <2> DEFINE r == [mirrorOf(Undeleted(d)) EXCEPT !.deleted = TRUE]
  <2>1. mirrorOf(d) \in Mirror /\ mirrorOf(Undeleted(d)) \in Mirror /\ r \in Mirror
    BY <1>2, Records, Fields
  <2>2. r.facts = d.facts /\ r.area = d.area /\ r.deleted
    BY <1>3, <2>1 DEF Mirror, mirrorOf, Undeleted, Document
  <2>3. mirrorOf(d).facts = d.facts /\ mirrorOf(d).area = d.area /\ mirrorOf(d).deleted
    BY <1>3 DEF mirrorOf
  <2> HIDE DEF r
  <2>4. mirrorOf(d) = r
    BY <2>1, <2>2, <2>3 DEF Mirror
  <2>5. QED BY <2>4 DEF r
<1>4. QED BY <1>1, <1>2, <1>3

\* A step of p leaves the others where they are, with what they read.
OthersStay(p) ==
    \A q \in Handlers : q # p => /\ pc'[q] = pc[q] /\ req'[q] = req[q]
                                 /\ before'[q] = before[q] /\ after'[q] = after[q]

LEMMA OthersStayAll ==
  ASSUME Typed, NEW p \in Handlers
  PROVE  /\ Finish(p) => OthersStay(p) /\ pc'[p] = "idle" /\ req'[p] = NoRequest
         /\ \A label : Continue(p, label) => /\ OthersStay(p) /\ pc'[p] = label
                                             /\ req' = req /\ before' = before /\ after' = after
         /\ \A label, r : Begin(p, r, label) => OthersStay(p) /\ pc'[p] = label /\ req'[p] = r
         /\ \A label, d : Goto(p, label) /\ req' = req /\ before' = before /\ after' = [after EXCEPT ![p] = d]
               => OthersStay(p) /\ pc'[p] = label /\ after'[p] = d
<1> USE DEF OthersStay, Typed, HandlersTyped
<1>1. Finish(p) => OthersStay(p) /\ pc'[p] = "idle" /\ req'[p] = NoRequest
  BY DEF Finish, Goto, Forget
<1>2. ASSUME NEW label, Continue(p, label)
      PROVE  OthersStay(p) /\ pc'[p] = label /\ req' = req /\ before' = before /\ after' = after
  BY <1>2 DEF Continue, Goto, locals
<1>3. ASSUME NEW label, NEW r, Begin(p, r, label) PROVE OthersStay(p) /\ pc'[p] = label /\ req'[p] = r
  BY <1>3 DEF Begin, Goto, locals
<1>4. ASSUME NEW label, NEW d, Goto(p, label), req' = req, before' = before, after' = [after EXCEPT ![p] = d]
      PROVE  OthersStay(p) /\ pc'[p] = label /\ after'[p] = d
  BY <1>4 DEF Goto
<1>5. QED BY <1>1, <1>2, <1>3, <1>4

LEMMA StepStays == ASSUME Typed, NEW p \in Handlers, Step(p) PROVE OthersStay(p)
<1> USE DEF OthersStay, Typed, HandlersTyped
<1>1. ASSUME NEW label, Continue(p, label) \/ Finish(p) PROVE OthersStay(p)
  BY <1>1, OthersStayAll
<1>2. CASE CreateDoc(p)
  BY <1>1, <1>2 DEF CreateDoc, Goto
<1>3. CASE ReadBefore(p) \/ SetDoc(p)
  BY <1>1, <1>3 DEF ReadBefore, SetDoc, Goto
<1>4. CASE CountRows(p) \/ Load(p)
  BY <1>1, <1>4 DEF CountRows, Load, Goto
<1>5. CASE \/ CreateRow(p) \/ DeleteDoc(p) \/ SetRow(p) \/ RestoreDoc(p)
           \/ MarkDoc(p) \/ MarkRow(p) \/ UnmarkDoc(p)
  BY <1>1, <1>5 DEF CreateRow, DeleteDoc, SetRow, RestoreDoc, MarkDoc, MarkRow, UnmarkDoc, Then
<1>6. CASE \/ Bust(p) \/ SyncCount(p) \/ CheckFav(p) \/ CreateFav(p) \/ DeleteFav(p)
           \/ Bump(p) \/ BustId(p) \/ Fill(p)
  BY <1>1, <1>6 DEF Bust, SyncCount, CheckFav, CreateFav, DeleteFav, Bump, BustId, Fill, Then
<1>7. QED BY <1>2, <1>3, <1>4, <1>5, <1>6 DEF Step

-----------------------------------------------------------------------------
(* CacheIsFresh for any number of requests, one at a time on each listing, when *)
(* Mongo answers and no process dies, whatever becomes of the calls to          *)
(* Postgres.  Nothing is claimed of the copies when Redis may fail.             *)

OneRequestEach ==
    \A p, q \in Handlers :
       pc[p] # "idle" /\ pc[q] # "idle" /\ req[p].lst = req[q].lst => p = q

FreshSlug(c, d) == RedisMayFail \/ (c["slug"] # NoDoc => mirrorOf(c["slug"]) = mirrorOf(d))
FreshCopy(c, d) == (RedisMayFail \/ c["id"] \in {NoDoc, d}) /\ FreshSlug(c, d)
NoCopy(c)       == RedisMayFail \/ (c["id"] = NoDoc /\ c["slug"] = NoDoc)

\* Where the request has not touched the listing yet, or has put everything in order again.
Orderly == {"readBefore", "setDoc", "markDoc", "count", "sync", "checkFav", "createFav",
            "deleteFav", "bump", "load", "fill"}

\* What is known of the listing of a request at each await: b and a are the document as it
\* was before and after the write, d and c its document and copies.
InHand(label, op, b, a, d, c) ==
    /\ label \in Orderly => FreshCopy(c, d)
    /\ label \in {"createDoc", "createRow", "deleteDoc"} => NoCopy(c)
    /\ label = "fill" => a = d
    /\ label = "setDoc" => b = d
    /\ label \in {"setRow", "restoreDoc"} => d # NoDoc /\ FreshCopy(c, b)
    /\ label \in {"markRow", "unmarkDoc"} => d \in Document /\ d.deleted /\ FreshCopy(c, Undeleted(d))
    /\ label = "bust" /\ op = "create" => NoCopy(c)
    /\ label = "bustId" => FreshSlug(c, d)

Serial ==
    /\ \A p \in Handlers : pc[p] # "idle" =>
          InHand(pc[p], req[p].op, before[p], after[p], doc[req[p].lst], cached[req[p].lst])
    /\ \A m \in Listings :
          (\A p \in Handlers : req[p].lst # m) => FreshCopy(cached[m], doc[m])

LEMMA InitSerial == Init => Serial
  BY Records DEF Init, Serial, NoRequest, FreshCopy, FreshSlug, CacheKeys

LEMMA ArriveSerial ==
  ASSUME NEW h \in Handlers, Typed, Serial, OneRequestEach', Arrive(h)
  PROVE  Serial'
<1>1. PICK l \in Listings :
         \/ \E f \in Facts, a \in Areas : Create(h, l, f, a)
         \/ \E f \in Facts \cup {None}, a \in Areas \cup {None} : Update(h, l, f, a)
         \/ Remove(h, l)
         \/ \E u \in Users : Favourite(h, u, l) \/ Unfavourite(h, u, l)
         \/ \E k \in Keys : Get(h, l, k)
  BY DEF Arrive
<1> DEFINE Moves(r, label) == r.lst = l /\ Begin(h, r, label)
<1>2. \/ \E r \in Request : Moves(r, "createDoc") /\ Unused(l)
      \/ \E r \in Request, label \in Orderly \ {"setDoc", "fill"} : Moves(r, label)
  <2>1. ASSUME NEW f \in Facts, NEW a \in Areas, Create(h, l, f, a)
        PROVE  \E r \in Request : Moves(r, "createDoc") /\ Unused(l)
    BY <2>1 DEF Create, NoRequest, Request, AllOps
  <2>2. ASSUME NEW f \in Facts \cup {None}, NEW a \in Areas \cup {None}, Update(h, l, f, a)
        PROVE  \E r \in Request : Moves(r, "readBefore")
    <3>1. doc[l].area \in Areas \cup {None}
      BY <2>2 DEF Update, Listed, Typed, StoresTyped, Document, NoDoc
    <3>2. QED BY <2>2, <3>1 DEF Update, NoRequest, Request, AllOps
  <2>3. ASSUME Remove(h, l) PROVE \E r \in Request : Moves(r, "markDoc")
    <3>1. doc[l].area \in Areas \cup {None}
      BY <2>3 DEF Remove, Typed, StoresTyped, Document, NoDoc
    <3>2. QED BY <2>3, <3>1 DEF Remove, NoRequest, Request, AllOps
  <2>4. ASSUME NEW u \in Users, Favourite(h, u, l) PROVE \E r \in Request : Moves(r, "checkFav")
    BY <2>4 DEF Favourite, NoRequest, Request, AllOps
  <2>5. ASSUME NEW u \in Users, Unfavourite(h, u, l) PROVE \E r \in Request : Moves(r, "deleteFav")
    BY <2>5 DEF Unfavourite, NoRequest, Request, AllOps
  <2>6. ASSUME NEW k \in Keys, Get(h, l, k) PROVE \E r \in Request : Moves(r, "load")
    BY <2>6 DEF Get, NoRequest, Request, AllOps
  <2> HIDE DEF Moves
  <2>7. QED BY <1>1, <2>1, <2>2, <2>3, <2>4, <2>5, <2>6 DEF Orderly
<1>3. PICK r \in Request, label \in Labels :
         /\ Moves(r, label)
         /\ label \in Orderly \ {"setDoc", "fill"} \/ (label = "createDoc" /\ Unused(l))
  <2> HIDE DEF Moves
  <2>1. Orderly \cup {"createDoc"} \subseteq Labels
    BY DEF Orderly, Labels
  <2>2. QED BY <1>2, <2>1
<1>4. /\ req'[h] = r /\ pc'[h] = label /\ pc[h] = "idle" /\ label # "idle" /\ r.lst = l
      /\ UNCHANGED <<doc, row, cached>> /\ OthersStay(h)
  BY <1>3, OthersStayAll DEF Begin, stores, Orderly
<1>5. FreshCopy(cached[l], doc[l])
  <2>1. \A q \in Handlers : req[q].lst # l
    <3> SUFFICES ASSUME NEW q \in Handlers, req[q].lst = l PROVE FALSE
      OBVIOUS
    <3>1. pc[q] # "idle"
      BY ListingsAssumption DEF Typed, HandlersTyped, Shape, ShapeOf, NoRequest
    <3>2. q # h /\ pc'[q] = pc[q] /\ req'[q] = req[q]
      BY <1>4, <3>1 DEF OthersStay
    <3>3. QED BY <1>4, <3>1, <3>2 DEF OneRequestEach
  <2>2. QED BY <2>1 DEF Serial
<1>6. InHand(pc'[h], req'[h].op, before'[h], after'[h], doc'[l], cached'[l])
  BY <1>3, <1>4, <1>5 DEF InHand, Orderly, Unused, NoCopy, CacheKeys
<1>7. \A q \in Handlers : q # h /\ pc'[q] # "idle" =>
         InHand(pc'[q], req'[q].op, before'[q], after'[q], doc'[req'[q].lst], cached'[req'[q].lst])
  BY <1>4 DEF Serial, OthersStay
<1>8. ASSUME NEW m \in Listings, \A q \in Handlers : req'[q].lst # m PROVE FreshCopy(cached[m], doc[m])
  <2>1. \A q \in Handlers : req[q].lst # m
    <3>1. req[h] = NoRequest
      BY <1>4 DEF Typed, HandlersTyped, Shape, ShapeOf
    <3>2. QED BY <1>8, <3>1, ListingsAssumption, <1>4 DEF OthersStay, NoRequest
  <2>2. QED BY <2>1 DEF Serial
<1>9. QED BY <1>4, <1>6, <1>7, <1>8 DEF Serial

\* A step of the handler touches its own listing only; what has to be shown is about that one.
LEMMA OwnListing ==
  ASSUME NEW h \in Handlers, Typed, Serial, OneRequestEach, OthersStay(h), pc[h] # "idle",
         \A m \in Listings : m # req[h].lst => doc'[m] = doc[m] /\ cached'[m] = cached[m],
         \/ /\ req'[h].lst = req[h].lst
            /\ InHand(pc'[h], req'[h].op, before'[h], after'[h], doc'[req[h].lst],
                      cached'[req[h].lst])
         \/ /\ req'[h] = NoRequest /\ pc'[h] = "idle"
            /\ FreshCopy(cached'[req[h].lst], doc'[req[h].lst])
  PROVE  Serial'
<1>1. ASSUME NEW q \in Handlers, q # h, pc'[q] # "idle"
      PROVE  InHand(pc'[q], req'[q].op, before'[q], after'[q], doc'[req'[q].lst], cached'[req'[q].lst])
  <2>1. /\ pc'[q] = pc[q] /\ req'[q] = req[q] /\ before'[q] = before[q] /\ after'[q] = after[q]
        /\ req[q].lst \in Listings /\ req[q].lst # req[h].lst
    BY <1>1 DEF OthersStay, OneRequestEach, Typed, HandlersTyped, Shape, ShapeOf
  <2>2. QED BY <1>1, <2>1 DEF Serial
<1>2. ASSUME NEW m \in Listings, \A q \in Handlers : req'[q].lst # m PROVE FreshCopy(cached'[m], doc'[m])
  <2>1. CASE m = req[h].lst
    BY <1>2, <2>1
  <2>2. CASE m # req[h].lst
    BY <1>2, <2>2 DEF Serial, OthersStay
  <2>3. QED BY <2>1, <2>2
<1>3. QED BY <1>1, <1>2 DEF Serial

\* What a handler that leaves, or that goes on, has afterwards.
LEMMA Leaving == ASSUME Typed, NEW p \in Handlers, Finish(p)
                 PROVE  req'[p] = NoRequest /\ pc'[p] = "idle"
  BY DEF Finish, Goto, Typed, HandlersTyped

LEMMA GoingOn ==
  ASSUME Typed, NEW p \in Handlers, NEW label, Continue(p, label)
  PROVE  pc'[p] = label /\ req' = req /\ before' = before /\ after' = after
  BY DEF Continue, Goto, locals, Typed, HandlersTyped

\* The writes of a create, and of its compensation.
LEMMA CreateSerial ==
  ASSUME NEW h \in Handlers, Typed, Serial, OneRequestEach, OthersStay(h), MongoOutcomes = {"ok"},
         CreateDoc(h) \/ CreateRow(h) \/ DeleteDoc(h)
  PROVE  Serial'
<1> DEFINE l == req[h].lst
<1>0. /\ l \in Listings
      /\ InHand(pc[h], req[h].op, before[h], after[h], doc[l], cached[l])
      /\ pc[h] \in {"createDoc", "createRow", "deleteDoc"} => req[h].op = "create"
  BY DEF Serial, Typed, HandlersTyped, Shape, ShapeOf, CreateDoc, CreateRow, DeleteDoc
<1> HIDE DEF l
<1>1. CASE CreateDoc(h)
  <2> DEFINE d == [facts |-> req[h].facts, area |-> req[h].area, deleted |-> FALSE, favs |-> 0]
  <2>1. /\ doc' = [doc EXCEPT ![l] = d] /\ UNCHANGED <<row, cached, req>>
        /\ after' = [after EXCEPT ![h] = d] /\ Goto(h, "createRow") /\ pc[h] = "createDoc"
    BY <1>1 DEF CreateDoc, Done, l
  <2> HIDE DEF d
  <2>2. doc'[l] = d /\ after'[h] = d /\ pc'[h] = "createRow"
    BY <1>0, <2>1 DEF Typed, StoresTyped, HandlersTyped, Goto
  <2>3. InHand(pc'[h], req'[h].op, before'[h], after'[h], doc'[l], cached'[l])
    BY <1>0, <2>1, <2>2 DEF InHand, Orderly
  <2>4. \A m \in Listings : m # l => doc'[m] = doc[m] /\ cached'[m] = cached[m]
    BY <2>1 DEF Typed, StoresTyped
  <2>5. QED BY <2>1, <2>3, <2>4, OwnListing DEF l
<1>2. CASE CreateRow(h)
  <2>1. /\ UNCHANGED <<doc, cached>> /\ pc[h] = "createRow"
        /\ Continue(h, "bust") \/ Continue(h, "deleteDoc")
    BY <1>2 DEF CreateRow, Then
  <2>2. InHand(pc'[h], req'[h].op, before'[h], after'[h], doc'[l], cached'[l])
    BY <1>0, <2>1, GoingOn DEF InHand, Orderly
  <2>3. req' = req
    BY <2>1, GoingOn
  <2>4. QED BY <2>1, <2>2, <2>3, OwnListing DEF l
<1>3. CASE DeleteDoc(h)
  <2>1. /\ UNCHANGED <<row, cached>> /\ pc[h] = "deleteDoc" /\ Finish(h)
        /\ doc' = [doc EXCEPT ![l] = NoDoc]
    BY <1>3 DEF DeleteDoc, Done, l
  <2>2. FreshCopy(cached'[l], doc'[l])
    BY <1>0, <2>1, Records DEF InHand, FreshCopy, FreshSlug, NoCopy, Typed, StoresTyped
  <2>3. \A m \in Listings : m # l => doc'[m] = doc[m] /\ cached'[m] = cached[m]
    BY <2>1 DEF Typed, StoresTyped
  <2>4. req'[h] = NoRequest /\ pc'[h] = "idle"
    BY <2>1, Leaving
  <2>5. QED BY <2>1, <2>2, <2>3, <2>4, OwnListing DEF l
<1>4. QED BY <1>1, <1>2, <1>3

\* The writes of an update, and of its undo.
LEMMA UpdateSerial ==
  ASSUME NEW h \in Handlers, Typed, Serial, OneRequestEach, OthersStay(h), MongoOutcomes = {"ok"},
         ReadBefore(h) \/ SetDoc(h) \/ SetRow(h) \/ RestoreDoc(h)
  PROVE  Serial'
<1> DEFINE l == req[h].lst
<1>0. /\ l \in Listings
      /\ InHand(pc[h], req[h].op, before[h], after[h], doc[l], cached[l])
      /\ pc[h] \in {"setDoc", "setRow", "restoreDoc"} => before[h] \in Document
      /\ req[h].op = "update" /\ req[h] \in Request
      /\ doc[l] \in Document \cup {NoDoc}
  BY DEF Serial, Typed, StoresTyped, HandlersTyped, Shape, ShapeOf, ReadBefore, SetDoc, SetRow, RestoreDoc
<1> HIDE DEF l
<1>1. CASE ReadBefore(h)
  <2>1. /\ UNCHANGED <<doc, row, cached>> /\ pc[h] = "readBefore"
        /\ \/ before' = [before EXCEPT ![h] = doc[l]] /\ Goto(h, "setDoc") /\ UNCHANGED <<req, after>>
           \/ Finish(h)
    BY <1>1 DEF ReadBefore, stores, l
  <2>2. CASE Finish(h)
    <3>1. FreshCopy(cached'[l], doc'[l])
      BY <1>0, <2>1 DEF InHand, Orderly
    <3>2. QED BY <2>1, <2>2, <3>1, Leaving, OwnListing DEF l
  <2>3. CASE before' = [before EXCEPT ![h] = doc[l]] /\ Goto(h, "setDoc") /\ UNCHANGED <<req, after>>
    <3>1. pc'[h] = "setDoc" /\ before'[h] = doc[l]
      BY <2>3 DEF Goto, Typed, HandlersTyped
    <3>2. InHand(pc'[h], req'[h].op, before'[h], after'[h], doc'[l], cached'[l])
      BY <1>0, <2>1, <2>3, <3>1 DEF InHand, Orderly
    <3>3. QED BY <2>1, <2>3, <3>2, OwnListing DEF l
  <2>4. QED BY <2>1, <2>2, <2>3
<1>2. CASE SetDoc(h)
  <2>1. /\ UNCHANGED <<row, cached>> /\ pc[h] = "setDoc"
        /\ \/ /\ doc[l] # NoDoc /\ doc' = [doc EXCEPT ![l] = Patched(@, req[h])]
              /\ after' = [after EXCEPT ![h] = doc'[l]] /\ Goto(h, "setRow") /\ UNCHANGED <<req, before>>
           \/ doc' = doc /\ Finish(h)
    BY <1>2 DEF SetDoc, Done, l
  <2>2. CASE doc' = doc /\ Finish(h)
    <3>1. FreshCopy(cached'[l], doc'[l])
      BY <1>0, <2>1, <2>2 DEF InHand, Orderly
    <3>2. QED BY <2>1, <2>2, <3>1, Leaving, OwnListing DEF l
  <2>3. CASE /\ doc[l] # NoDoc /\ doc' = [doc EXCEPT ![l] = Patched(@, req[h])]
             /\ after' = [after EXCEPT ![h] = doc'[l]] /\ Goto(h, "setRow") /\ UNCHANGED <<req, before>>
    <3>1. pc'[h] = "setRow" /\ after'[h] = doc'[l]
      BY <2>3 DEF Goto, Typed, HandlersTyped
    <3>2. doc'[l] = Patched(doc[l], req[h])
      BY <1>0, <2>3 DEF Typed, StoresTyped
    <3>3. doc'[l] # NoDoc
      BY <1>0, <2>3, <3>2, PatchedDocument, Records
    <3>4. InHand(pc'[h], req'[h].op, before'[h], after'[h], doc'[l], cached'[l])
      BY <1>0, <2>1, <2>3, <3>1, <3>3 DEF InHand, Orderly
    <3>5. \A m \in Listings : m # l => doc'[m] = doc[m] /\ cached'[m] = cached[m]
      BY <2>1, <2>3 DEF Typed, StoresTyped
    <3>6. QED BY <2>1, <2>3, <3>4, <3>5, OwnListing DEF l
  <2>4. QED BY <2>1, <2>2, <2>3
<1>3. CASE SetRow(h)
  <2>1. /\ UNCHANGED <<doc, cached>> /\ pc[h] = "setRow"
        /\ Continue(h, "bust") \/ Continue(h, "restoreDoc")
    BY <1>3 DEF SetRow, Then
  <2>2. InHand(pc'[h], req'[h].op, before'[h], after'[h], doc'[l], cached'[l])
    BY <1>0, <2>1, GoingOn DEF InHand, Orderly
  <2>3. req' = req
    BY <2>1, GoingOn
  <2>4. QED BY <2>1, <2>2, <2>3, OwnListing DEF l
<1>4. CASE RestoreDoc(h)
  <2>1. /\ UNCHANGED <<row, cached>> /\ pc[h] = "restoreDoc" /\ Finish(h)
        /\ doc' = [doc EXCEPT ![l] = before[h]]
    BY <1>0, <1>4 DEF RestoreDoc, Done, l, InHand
  <2>2. FreshCopy(cached'[l], doc'[l])
    BY <1>0, <2>1 DEF InHand, Typed, StoresTyped
  <2>3. \A m \in Listings : m # l => doc'[m] = doc[m] /\ cached'[m] = cached[m]
    BY <2>1 DEF Typed, StoresTyped
  <2>4. QED BY <2>1, <2>2, <2>3, Leaving, OwnListing DEF l
<1>5. QED BY <1>1, <1>2, <1>3, <1>4

\* The writes of a removal, and of its undo.
LEMMA RemoveSerial ==
  ASSUME NEW h \in Handlers, Typed, Serial, OneRequestEach, OthersStay(h), MongoOutcomes = {"ok"},
         MarkDoc(h) \/ MarkRow(h) \/ UnmarkDoc(h)
  PROVE  Serial'
<1> DEFINE l == req[h].lst
<1>0. /\ l \in Listings
      /\ InHand(pc[h], req[h].op, before[h], after[h], doc[l], cached[l])
      /\ req[h].op = "remove"
      /\ doc[l] \in Document \cup {NoDoc}
  BY DEF Serial, Typed, StoresTyped, HandlersTyped, Shape, ShapeOf, MarkDoc, MarkRow, UnmarkDoc
<1> HIDE DEF l
<1>1. CASE MarkDoc(h)
  <2> DEFINE e == [doc[l] EXCEPT !.deleted = TRUE]
  <2>1. /\ UNCHANGED <<row, cached>> /\ pc[h] = "markDoc"
        /\ \/ Listed(doc[l]) /\ doc' = [doc EXCEPT ![l].deleted = TRUE] /\ Continue(h, "markRow")
           \/ doc' = doc /\ Finish(h)
    BY <1>1 DEF MarkDoc, Then, Done, l
  <2>2. [doc EXCEPT ![l].deleted = TRUE] = [doc EXCEPT ![l] = e]
    OBVIOUS
  <2>3. CASE doc' = doc /\ Finish(h)
    <3>1. FreshCopy(cached'[l], doc'[l])
      BY <1>0, <2>1, <2>3 DEF InHand, Orderly
    <3>2. QED BY <2>1, <2>3, <3>1, Leaving, OwnListing DEF l
  <2>4. CASE Listed(doc[l]) /\ doc' = [doc EXCEPT ![l].deleted = TRUE] /\ Continue(h, "markRow")
    <3>1. e \in Document /\ e.deleted /\ Undeleted(e) = doc[l]
      BY <1>0, <2>4, Fields, DeletedAndBack DEF Listed, Document
    <3> HIDE DEF e
    <3>2. doc'[l] = e
      BY <1>0, <2>2, <2>4 DEF Typed, StoresTyped
    <3>3. InHand(pc'[h], req'[h].op, before'[h], after'[h], doc'[l], cached'[l])
      <4>1. pc'[h] = "markRow" /\ cached'[l] = cached[l]
        BY <2>1, <2>4, GoingOn
      <4>2. FreshCopy(cached[l], doc[l])
        BY <1>0, <2>1 DEF InHand, Orderly
      <4>3. QED BY <3>1, <3>2, <4>1, <4>2 DEF InHand, Orderly
    <3>4. \A m \in Listings : m # l => doc'[m] = doc[m] /\ cached'[m] = cached[m]
      BY <2>1, <2>2, <2>4 DEF Typed, StoresTyped
    <3>5. req' = req
      BY <2>4, GoingOn
    <3>6. QED BY <2>1, <3>3, <3>4, <3>5, OwnListing DEF l
  <2>5. QED BY <2>1, <2>3, <2>4
<1>2. CASE MarkRow(h)
  <2>1. /\ UNCHANGED <<doc, cached>> /\ pc[h] = "markRow"
        /\ Continue(h, "bust") \/ Continue(h, "unmarkDoc")
    BY <1>2 DEF MarkRow, Then
  <2>2. InHand(pc'[h], req'[h].op, before'[h], after'[h], doc'[l], cached'[l])
    BY <1>0, <2>1, GoingOn DEF InHand, Orderly
  <2>3. req' = req
    BY <2>1, GoingOn
  <2>4. QED BY <2>1, <2>2, <2>3, OwnListing DEF l
<1>3. CASE UnmarkDoc(h)
  <2>1. /\ UNCHANGED <<row, cached>> /\ pc[h] = "unmarkDoc" /\ Finish(h)
        /\ doc[l] # NoDoc => doc' = [doc EXCEPT ![l].deleted = FALSE]
    BY <1>3 DEF UnmarkDoc, Done, l
  <2>2. doc[l] \in Document /\ doc[l] # NoDoc
    BY <1>0, <2>1, Records DEF InHand
  <2>3. [doc EXCEPT ![l].deleted = FALSE] = [doc EXCEPT ![l] = Undeleted(doc[l])]
    BY DEF Undeleted
  <2>4. doc'[l] = Undeleted(doc[l])
    BY <1>0, <2>1, <2>2, <2>3 DEF Typed, StoresTyped
  <2>5. FreshCopy(cached'[l], doc'[l])
    BY <1>0, <2>1, <2>4 DEF InHand
  <2>6. \A m \in Listings : m # l => doc'[m] = doc[m] /\ cached'[m] = cached[m]
    BY <2>1, <2>2, <2>3 DEF Typed, StoresTyped
  <2>7. QED BY <2>1, <2>5, <2>6, Leaving, OwnListing DEF l
<1>4. QED BY <1>1, <1>2, <1>3

\* What follows a write, the favourites, and findOne.
LEMMA RestSerial ==
  ASSUME NEW h \in Handlers, Typed, Serial, OneRequestEach, OthersStay(h), MongoOutcomes = {"ok"},
         \/ Bust(h) \/ CountRows(h) \/ SyncCount(h)
         \/ CheckFav(h) \/ CreateFav(h) \/ DeleteFav(h) \/ Bump(h) \/ BustId(h)
         \/ Load(h) \/ Fill(h)
  PROVE  Serial'
<1> DEFINE l == req[h].lst
<1>0. /\ l \in Listings /\ pc[h] # "idle"
      /\ InHand(pc[h], req[h].op, before[h], after[h], doc[l], cached[l])
      /\ doc[l] \in Document \cup {NoDoc} /\ cached[l] \in [CacheKeys -> Document \cup {NoDoc}]
  <2>1. pc[h] # "idle"
    BY DEF Bust, CountRows, SyncCount, CheckFav, CreateFav, DeleteFav, Bump, BustId, Load, Fill
  <2>2. QED BY <2>1 DEF Serial, Typed, StoresTyped, HandlersTyped, Shape, ShapeOf
<1> HIDE DEF l
\* Steps that change none of the three stores, between orderly awaits.
<1>1. ASSUME UNCHANGED <<doc, row, cached>>, pc[h] \in Orderly, 
             Finish(h) \/ (\E label \in Orderly \ {"setDoc", "fill"} : Goto(h, label) /\ req' = req)
      PROVE  Serial'
  <2>1. FreshCopy(cached[l], doc[l])
    BY <1>0, <1>1 DEF InHand
  <2>2. CASE Finish(h)
    BY <1>0, <1>1, <2>1, <2>2, Leaving, OwnListing DEF l
  <2>3. ASSUME NEW label \in Orderly \ {"setDoc", "fill"}, Goto(h, label), req' = req PROVE Serial'
    <3>1. pc'[h] = label
      BY <2>3 DEF Goto, Typed, HandlersTyped
    <3>2. InHand(pc'[h], req'[h].op, before'[h], after'[h], doc'[l], cached'[l])
      BY <1>1, <2>1, <2>3, <3>1 DEF InHand, Orderly
    <3>3. QED BY <1>0, <1>1, <2>3, <3>2, OwnListing DEF l
  <2>4. QED BY <1>1, <2>2, <2>3
<1>2. CASE Bust(h)
  <2> DEFINE keys == IF req[h].op = "create" THEN {"id"} ELSE {"id", "slug"}
             c == [k \in CacheKeys |-> IF k \in keys THEN NoDoc ELSE cached[l][k]]
  <2>1. /\ UNCHANGED <<doc, row>> /\ pc[h] = "bust" /\ Continue(h, "count")
        /\ cached' = [cached EXCEPT ![l] = c] \/ (RedisMayFail /\ cached' = cached)
    BY <1>2 DEF Bust, l
  <2>2. FreshCopy(c, doc[l])
    BY <1>0, <2>1 DEF InHand, NoCopy, FreshCopy, FreshSlug, CacheKeys
  <2> HIDE DEF c
  <2>3. FreshCopy(cached'[l], doc[l])
    BY <1>0, <2>1, <2>2 DEF Typed, StoresTyped, FreshCopy, FreshSlug, InHand
  <2>4. InHand(pc'[h], req'[h].op, before'[h], after'[h], doc'[l], cached'[l])
    BY <2>1, <2>3, GoingOn DEF InHand, Orderly
  <2>5. \A m \in Listings : m # l => doc'[m] = doc[m] /\ cached'[m] = cached[m]
    BY <2>1 DEF Typed, StoresTyped
  <2>6. QED BY <2>1, <2>4, <2>5, GoingOn, OwnListing DEF l
<1>3. CASE CountRows(h)
  BY <1>1, <1>3 DEF CountRows, stores, Orderly
<1>4. CASE SyncCount(h)
  BY <1>1, <1>4 DEF SyncCount, stores, Orderly
<1>5. CASE CheckFav(h)
  BY <1>1, <1>5 DEF CheckFav, stores, Orderly, Then, Continue
<1>6. CASE CreateFav(h)
  BY <1>1, <1>6 DEF CreateFav, stores, Orderly, Then, Continue
<1>7. CASE DeleteFav(h)
  BY <1>1, <1>7 DEF DeleteFav, stores, Orderly, Then, Continue
<1>8. CASE Bump(h)
  <2> DEFINE delta == IF req[h].op = "favourite" THEN 1 ELSE -1
             e == [doc[l] EXCEPT !.favs = doc[l].favs + delta]
  <2>1. /\ UNCHANGED <<row, cached>> /\ pc[h] = "bump" /\ Continue(h, "bustId")
        /\ (doc[l] # NoDoc /\ doc' = [doc EXCEPT ![l].favs = @ + delta]) \/ doc' = doc
    BY <1>8 DEF Bump, l
  <2>2. [doc EXCEPT ![l].favs = @ + delta] = [doc EXCEPT ![l] = e]
    OBVIOUS
  <2>3. doc[l] \in Document => mirrorOf(e) = mirrorOf(doc[l])
    BY DEF Document, mirrorOf
  <2> HIDE DEF e
  <2>4. mirrorOf(doc'[l]) = mirrorOf(doc[l])
    BY <1>0, <2>1, <2>2, <2>3 DEF Typed, StoresTyped
  <2>5. InHand(pc'[h], req'[h].op, before'[h], after'[h], doc'[l], cached'[l])
    BY <1>0, <2>1, <2>4, GoingOn DEF InHand, Orderly, FreshCopy, FreshSlug
  <2>6. \A m \in Listings : m # l => doc'[m] = doc[m] /\ cached'[m] = cached[m]
    BY <2>1, <2>2 DEF Typed, StoresTyped
  <2>7. QED BY <2>1, <2>5, <2>6, GoingOn, OwnListing DEF l
<1>9. CASE BustId(h)
  <2> DEFINE c == [cached[l] EXCEPT !["id"] = NoDoc]
  <2>1. /\ UNCHANGED <<doc, row>> /\ pc[h] = "bustId" /\ Finish(h)
        /\ cached' = [cached EXCEPT ![l]["id"] = NoDoc] \/ (RedisMayFail /\ cached' = cached)
    BY <1>9 DEF BustId, l
  <2>2. [cached EXCEPT ![l]["id"] = NoDoc] = [cached EXCEPT ![l] = c]
    OBVIOUS
  <2>3. FreshCopy(c, doc[l])
    BY <1>0, <2>1 DEF InHand, FreshCopy, FreshSlug, CacheKeys
  <2> HIDE DEF c
  <2>4. FreshCopy(cached'[l], doc[l])
    BY <1>0, <2>1, <2>2, <2>3 DEF Typed, StoresTyped, FreshCopy, FreshSlug
  <2>5. \A m \in Listings : m # l => doc'[m] = doc[m] /\ cached'[m] = cached[m]
    BY <2>1, <2>2 DEF Typed, StoresTyped
  <2>6. QED BY <2>1, <2>3, <2>4, <2>5, Leaving, OwnListing DEF l
<1>10. CASE Load(h)
  <2>1. /\ UNCHANGED <<doc, row, cached>> /\ pc[h] = "load"
        /\ \/ after' = [after EXCEPT ![h] = doc[l]] /\ Goto(h, "fill") /\ UNCHANGED req
           \/ Finish(h)
    BY <1>10 DEF Load, stores, l
  <2>2. CASE Finish(h)
    BY <1>1, <2>1, <2>2 DEF Orderly
  <2>3. CASE after' = [after EXCEPT ![h] = doc[l]] /\ Goto(h, "fill") /\ UNCHANGED req
    <3>1. pc'[h] = "fill" /\ after'[h] = doc[l]
      BY <2>3 DEF Goto, Typed, HandlersTyped
    <3>2. InHand(pc'[h], req'[h].op, before'[h], after'[h], doc'[l], cached'[l])
      BY <1>0, <2>1, <3>1 DEF InHand, Orderly
    <3>3. QED BY <2>1, <2>3, <3>2, OwnListing DEF l
  <2>4. QED BY <2>1, <2>2, <2>3
<1>11. CASE Fill(h)
  <2> DEFINE c == [cached[l] EXCEPT ![req[h].key] = after[h]]
  <2>1. /\ UNCHANGED <<doc, row>> /\ pc[h] = "fill" /\ Finish(h)
        /\ cached' = [cached EXCEPT ![l][req[h].key] = after[h]] \/ (RedisMayFail /\ cached' = cached)
    BY <1>11 DEF Fill, l
  <2>2. [cached EXCEPT ![l][req[h].key] = after[h]] = [cached EXCEPT ![l] = c]
    OBVIOUS
  <2>3. FreshCopy(c, doc[l])
    BY <1>0, <2>1 DEF InHand, Orderly, FreshCopy, FreshSlug, CacheKeys
  <2> HIDE DEF c
  <2>4. FreshCopy(cached'[l], doc[l])
    BY <1>0, <2>1, <2>2, <2>3 DEF Typed, StoresTyped, FreshCopy, FreshSlug
  <2>5. \A m \in Listings : m # l => doc'[m] = doc[m] /\ cached'[m] = cached[m]
    BY <2>1, <2>2 DEF Typed, StoresTyped
  <2>6. QED BY <2>1, <2>3, <2>4, <2>5, Leaving, OwnListing DEF l
<1>12. QED
  BY <1>2, <1>3, <1>4, <1>5, <1>6, <1>7, <1>8, <1>9, <1>10, <1>11

\* A copy that lapses is one that is not there.
LEMMA LapseSerial ==
  ASSUME Typed, Serial, NEW m \in Listings, NEW k \in CacheKeys, Lapse(m, k)
  PROVE  Serial'
<1> DEFINE c == [cached[m] EXCEPT ![k] = NoDoc]
<1>1. [cached EXCEPT ![m][k] = NoDoc] = [cached EXCEPT ![m] = c]
  OBVIOUS
<1>2. /\ \A d : FreshCopy(cached[m], d) => FreshCopy(c, d)
      /\ \A d : FreshSlug(cached[m], d) => FreshSlug(c, d)
      /\ NoCopy(cached[m]) => NoCopy(c)
  BY DEF FreshCopy, FreshSlug, NoCopy, CacheKeys, Typed, StoresTyped
<1> HIDE DEF c
<1>3. cached' = [cached EXCEPT ![m] = c] /\ UNCHANGED <<doc, row, pc, req, before, after>>
  BY <1>1 DEF Lapse, locals
<1>4. cached'[m] = c /\ \A n \in Listings : n # m => cached'[n] = cached[n]
  BY <1>3 DEF Typed, StoresTyped
<1>5. \A p \in Handlers :
         InHand(pc[p], req[p].op, before[p], after[p], doc[m], cached[m])
           => InHand(pc[p], req[p].op, before[p], after[p], doc[m], c)
  BY <1>2 DEF InHand
<1>6. QED BY <1>2, <1>3, <1>4, <1>5 DEF Serial

LEMMA NextSerial ==
  ASSUME MongoOutcomes = {"ok"}, ~MayCrash
  PROVE  Typed /\ Serial /\ OneRequestEach /\ OneRequestEach' /\ [Next]_vars => Serial'
<1> SUFFICES ASSUME Typed, Serial, OneRequestEach, OneRequestEach', [Next]_vars PROVE Serial'
  OBVIOUS
<1>1. CASE UNCHANGED vars
  BY <1>1 DEF vars, stores, locals, Serial
<1>2. ASSUME NEW h \in Handlers, Step(h) PROVE Serial'
  BY <1>2, StepStays, CreateSerial, UpdateSerial, RemoveSerial, RestSerial DEF Step
<1>3. QED BY <1>1, <1>2, ArriveSerial, LapseSerial DEF Next, Crash

\* However many requests are in flight, one at a time on each listing: between requests, while
\* Redis answers, no reader by id or by slug is served an out-of-date copy.  Every write drops
\* the copies it made wrong, and a write that Postgres refused, or made and did not answer,
\* puts the document back to what the copies say.
THEOREM RequestsApartStayFresh ==
  ASSUME MongoOutcomes = {"ok"}, ~MayCrash, ~RedisMayFail
  PROVE  Spec /\ []OneRequestEach => []CacheIsFresh
<1>1. Typed /\ Serial => CacheIsFresh
  <2> SUFFICES ASSUME Typed, Serial, Idle, NEW l \in Listings PROVE FreshCopy(cached[l], doc[l])
    BY DEF CacheIsFresh, FreshCopy, FreshSlug
  <2>1. \A p \in Handlers : req[p].lst # l
    BY ListingsAssumption DEF Idle, Typed, HandlersTyped, Shape, ShapeOf, NoRequest
  <2>2. QED BY <2>1 DEF Serial
<1>2. QED BY <1>1, InitTyped, InitSerial, NextTyped, NextSerial, PTL DEF Spec

\* A lone handler keeps the requests apart.
THEOREM CacheStaysFresh ==
  ASSUME NEW h, Handlers = {h}, MongoOutcomes = {"ok"}, ~MayCrash, ~RedisMayFail
  PROVE  Spec => []CacheIsFresh
<1>1. OneRequestEach
  BY DEF OneRequestEach
<1>2. QED BY <1>1, RequestsApartStayFresh, PTL

-----------------------------------------------------------------------------
(* StoresAgree for any number of requests, when writers of a listing take       *)
(* turns.  An update holds its listing from its read of the document on.        *)

Holding == {"createDoc", "setDoc"} \cup Writing

OneWriterEach ==
    \A p, q \in Handlers :
       pc[p] \in Holding /\ pc[q] \in Holding /\ req[p].lst = req[q].lst => p = q

\* What is known of the listing a handler holds, named as in InHand.  Others may count
\* favourites on its document meanwhile, so that documents are compared as the row has them.
Held(label, b, a, d, r) ==
    /\ label \in {"createDoc", "createRow", "deleteDoc"} => r = NoRow
    /\ label = "createDoc" => d = NoDoc
    /\ label \in {"createRow", "setRow"} => mirrorOf(a) = mirrorOf(d)
    /\ label = "setDoc" => mirrorOf(b) = mirrorOf(d) /\ Agrees(d, r)
    /\ label \in {"setRow", "restoreDoc"} => d # NoDoc /\ Agrees(b, r)
    /\ label \in {"markRow", "unmarkDoc"} => d \in Document /\ d.deleted /\ Agrees(Undeleted(d), r)

InTurn ==
    /\ \A p \in Handlers : pc[p] \in Holding =>
          Held(pc[p], before[p], after[p], doc[req[p].lst], row[req[p].lst])
    /\ StoresAgree

LEMMA InitInTurn == Init => InTurn
  BY Records DEF Init, InTurn, Holding, Writing, StoresAgree

\* The step of a handler that holds its listing, before or after: it alone touches it.
LEMMA HolderTurn ==
  ASSUME Typed, InTurn, OneWriterEach, OneWriterEach', NEW p \in Handlers, NEW l \in Listings,
         req[p].lst = l \/ req[p] = NoRequest, OthersStay(p),
         \A m \in Listings : m # l => doc'[m] = doc[m] /\ row'[m] = row[m],
         \/ /\ pc'[p] \in Holding /\ req'[p].lst = l
            /\ Held(pc'[p], before'[p], after'[p], doc'[l], row'[l])
         \/ /\ pc[p] \in Holding /\ pc'[p] \notin Holding
            /\ req[p].lst = l /\ req'[p].lst \in {l, None}
            /\ Agrees(doc'[l], row'[l])
  PROVE  InTurn'
<1>1. ASSUME NEW q \in Handlers, q # p, pc'[q] \in Holding
      PROVE  Held(pc'[q], before'[q], after'[q], doc'[req'[q].lst], row'[req'[q].lst])
  <2>1. pc[q] \in Holding /\ req'[q] = req[q] /\ req[q].lst \in Listings
    BY <1>1 DEF OthersStay, Holding, Writing, Typed, HandlersTyped, Shape, ShapeOf
  <2>2. req[q].lst # l
    BY <1>1, <2>1 DEF OneWriterEach
  <2>3. QED BY <1>1, <2>1, <2>2 DEF InTurn, OthersStay
<1>2. ASSUME NEW m \in Listings, Settled(m)' PROVE Agrees(doc'[m], row'[m])
  <2>1. CASE m = l
    <3>1. pc'[p] \notin Holding \/ pc'[p] \in {"createDoc", "setDoc"}
      BY <1>2, <2>1 DEF Settled, Holding
    <3>2. QED BY <2>1, <3>1, Records DEF Held, Agrees, Holding
  <2>2. CASE m # l
    <3>1. Settled(m)
      BY <1>2, <2>2, ListingsAssumption DEF Settled, OthersStay, NoRequest
    <3>2. QED BY <2>2, <3>1 DEF InTurn, StoresAgree, Agrees
  <2>3. QED BY <2>1, <2>2
<1>3. QED BY <1>1, <1>2 DEF InTurn, StoresAgree, Agrees

\* Any other step of a handler: the row stays, and the document but for its favourites.
LEMMA OtherTurn ==
  ASSUME Typed, InTurn, NEW p \in Handlers, OthersStay(p),
         pc[p] \notin Holding, pc'[p] \notin Holding, row' = row,
         \A m \in Listings : \/ doc'[m] = doc[m]
                             \/ doc[m] \in Document /\ \E i \in Int : doc'[m] = [doc[m] EXCEPT !.favs = doc[m].favs + i]
  PROVE  InTurn'
<1>1. ASSUME NEW m \in Listings
      PROVE  /\ mirrorOf(doc'[m]) = mirrorOf(doc[m])
             /\ doc'[m] = NoDoc <=> doc[m] = NoDoc
             /\ doc[m] \in Document /\ doc[m].deleted => /\ doc'[m] \in Document /\ doc'[m].deleted
                      /\ mirrorOf(Undeleted(doc'[m])) = mirrorOf(Undeleted(doc[m]))
  <2>1. CASE doc'[m] = doc[m]
    BY <2>1
  <2>2. ASSUME NEW i \in Int, doc[m] \in Document, doc'[m] = [doc[m] EXCEPT !.favs = doc[m].favs + i]
        PROVE  /\ doc'[m] \in Document /\ doc'[m].facts = doc[m].facts
               /\ doc'[m].area = doc[m].area /\ doc'[m].deleted = doc[m].deleted
    BY <2>2, Fields DEF Document
  <2>3. QED BY <2>1, <2>2, Records DEF mirrorOf, Undeleted, Document
<1>2. ASSUME NEW q \in Handlers, pc'[q] \in Holding
      PROVE  Held(pc'[q], before'[q], after'[q], doc'[req'[q].lst], row'[req'[q].lst])
  <2>1. /\ q # p /\ pc'[q] = pc[q] /\ req'[q] = req[q]
        /\ before'[q] = before[q] /\ after'[q] = after[q]
    BY <1>2 DEF OthersStay
  <2>2. req[q].lst \in Listings
    BY <1>2, <2>1 DEF Holding, Writing, Typed, HandlersTyped, Shape, ShapeOf
  <2>3. Held(pc[q], before[q], after[q], doc[req[q].lst], row[req[q].lst])
    BY <1>2, <2>1 DEF InTurn
  <2>4. QED BY <1>1, <2>1, <2>2, <2>3 DEF Held, Agrees
<1>3. ASSUME NEW m \in Listings, Settled(m)' PROVE row'[m] = mirrorOf(doc'[m])
  <2>1. Settled(m)
    BY <1>3 DEF Settled, OthersStay, Holding
  <2>2. QED BY <1>1, <2>1 DEF InTurn, StoresAgree
<1>4. QED BY <1>2, <1>3 DEF InTurn, StoresAgree

LEMMA ArriveInTurn ==
  ASSUME Typed, InTurn, OneWriterEach, OneWriterEach', NEW p \in Handlers, Arrive(p)
  PROVE  InTurn'
<1>1. PICK l \in Listings :
         \/ \E f \in Facts, a \in Areas : Create(p, l, f, a)
         \/ \E f \in Facts \cup {None}, a \in Areas \cup {None} : Update(p, l, f, a)
         \/ Remove(p, l)
         \/ \E u \in Users : Favourite(p, u, l) \/ Unfavourite(p, u, l)
         \/ \E k \in Keys : Get(p, l, k)
  BY DEF Arrive
<1>2. ASSUME NEW f \in Facts, NEW a \in Areas, Create(p, l, f, a) PROVE InTurn'
  <2>1. PICK r : r.lst = l /\ Begin(p, r, "createDoc")
    BY <1>2 DEF Create, NoRequest
  <2>2. doc[l] = NoDoc /\ row[l] = NoRow /\ UNCHANGED <<doc, row>>
    BY <1>2, <2>1 DEF Create, Unused, Begin, stores
  <2>3. pc[p] = "idle" /\ pc'[p] = "createDoc" /\ req'[p].lst = l /\ OthersStay(p)
    BY <2>1, OthersStayAll DEF Begin
  <2>4. req[p] = NoRequest
    BY <2>3 DEF Typed, HandlersTyped, Shape, ShapeOf
  <2>5. Held(pc'[p], before'[p], after'[p], doc'[l], row'[l])
    BY <2>2, <2>3 DEF Held
  <2>6. QED BY <2>2, <2>3, <2>4, <2>5, HolderTurn DEF Holding
<1>3. ASSUME NEW r, NEW label \in Labels \ Holding, Begin(p, r, label) PROVE InTurn'
  <2>1. pc[p] = "idle" /\ pc'[p] = label /\ UNCHANGED <<doc, row>> /\ OthersStay(p)
    BY <1>3, OthersStayAll DEF Begin, stores
  <2>2. QED BY <2>1, OtherTurn DEF Holding, Writing
<1>4. QED
  BY <1>1, <1>2, <1>3 DEF Update, Remove, Favourite, Unfavourite, Get, Labels, Holding, Writing

\* The writes of a create, and of its compensation.
LEMMA CreateInTurn ==
  ASSUME Typed, InTurn, OneWriterEach, OneWriterEach', MongoOutcomes = {"ok"}, "lost" \notin PostgresOutcomes,
         NEW p \in Handlers, CreateDoc(p) \/ CreateRow(p) \/ DeleteDoc(p)
  PROVE  InTurn'
<1> DEFINE l == req[p].lst
<1>0. /\ l \in Listings /\ pc[p] \in Holding
      /\ Held(pc[p], before[p], after[p], doc[l], row[l])
  BY DEF InTurn, Holding, Writing, Typed, HandlersTyped, Shape, ShapeOf, CreateDoc, CreateRow, DeleteDoc
<1> HIDE DEF l
<1>1. CASE CreateDoc(p)
  <2> DEFINE d == [facts |-> req[p].facts, area |-> req[p].area, deleted |-> FALSE, favs |-> 0]
  <2>1. /\ doc' = [doc EXCEPT ![l] = d] /\ UNCHANGED <<row, req, before>>
        /\ after' = [after EXCEPT ![p] = d] /\ Goto(p, "createRow") /\ pc[p] = "createDoc"
    BY <1>1 DEF CreateDoc, Done, l
  <2> HIDE DEF d
  <2>2. doc'[l] = d /\ \A m \in Listings : m # l => doc'[m] = doc[m] /\ row'[m] = row[m]
    BY <1>0, <2>1 DEF Typed, StoresTyped
  <2>3. after'[p] = d /\ pc'[p] = "createRow" /\ OthersStay(p)
    BY <2>1, OthersStayAll
  <2>4. Held(pc'[p], before'[p], after'[p], doc'[l], row'[l])
    BY <1>0, <2>1, <2>2, <2>3 DEF Held
  <2>5. QED BY <1>0, <2>1, <2>2, <2>3, <2>4, HolderTurn DEF l, Holding, Writing
<1>2. CASE CreateRow(p)
  <2>1. /\ doc' = doc /\ pc[p] = "createRow"
        /\ \/ row' = [row EXCEPT ![l] = mirrorOf(after[p])] /\ Continue(p, "bust")
           \/ row' = row /\ Continue(p, "deleteDoc")
    BY <1>2, ListingsAssumption DEF CreateRow, Then, Done, Outcomes, l
  <2>2. OthersStay(p) /\ req' = req /\ before' = before /\ after' = after
    BY <2>1, OthersStayAll
  <2>3. \A m \in Listings : m # l => doc'[m] = doc[m] /\ row'[m] = row[m]
    BY <2>1 DEF Typed, StoresTyped
  <2>4. CASE row' = row /\ Continue(p, "deleteDoc")
    <3>1. pc'[p] = "deleteDoc"
      BY <2>4, OthersStayAll
    <3>2. Held(pc'[p], before'[p], after'[p], doc'[l], row'[l])
      BY <1>0, <2>1, <2>4, <3>1 DEF Held
    <3>3. QED BY <1>0, <2>2, <2>3, <3>1, <3>2, HolderTurn DEF l, Holding, Writing
  <2>5. CASE row' = [row EXCEPT ![l] = mirrorOf(after[p])] /\ Continue(p, "bust")
    <3>1. pc'[p] = "bust"
      BY <2>5, OthersStayAll
    <3>2. Agrees(doc'[l], row'[l])
      BY <1>0, <2>1, <2>5 DEF Held, Agrees, Typed, StoresTyped
    <3>3. QED BY <1>0, <2>2, <2>3, <3>1, <3>2, HolderTurn DEF l, Holding, Writing
  <2>6. QED BY <2>1, <2>4, <2>5
<1>3. CASE DeleteDoc(p)
  <2>1. row' = row /\ pc[p] = "deleteDoc" /\ Finish(p) /\ doc' = [doc EXCEPT ![l] = NoDoc]
    BY <1>3 DEF DeleteDoc, Done, l
  <2>2. pc'[p] = "idle" /\ req'[p] = NoRequest /\ OthersStay(p)
    BY <2>1, OthersStayAll
  <2>3. \A m \in Listings : m # l => doc'[m] = doc[m] /\ row'[m] = row[m]
    BY <2>1 DEF Typed, StoresTyped
  <2>4. Agrees(doc'[l], row'[l])
    BY <1>0, <2>1, Records DEF Held, Agrees, Typed, StoresTyped
  <2>5. QED BY <1>0, <2>2, <2>3, <2>4, HolderTurn DEF l, Holding, Writing, NoRequest
<1>4. QED BY <1>1, <1>2, <1>3

\* The reads and writes of an update, and of its undo.
LEMMA UpdateInTurn ==
  ASSUME Typed, InTurn, OneWriterEach, OneWriterEach', MongoOutcomes = {"ok"}, "lost" \notin PostgresOutcomes,
         NEW p \in Handlers, ReadBefore(p) \/ SetDoc(p) \/ SetRow(p) \/ RestoreDoc(p)
  PROVE  InTurn'
<1> DEFINE l == req[p].lst
<1>0. /\ l \in Listings /\ req[p] \in Request
      /\ pc[p] \in Holding => Held(pc[p], before[p], after[p], doc[l], row[l])
      /\ doc[l] \in Document \cup {NoDoc}
  BY DEF InTurn, Typed, StoresTyped, HandlersTyped, Shape, ShapeOf, ReadBefore, SetDoc, SetRow, RestoreDoc
<1> HIDE DEF l
<1>1. CASE ReadBefore(p)
  <2>1. /\ UNCHANGED <<doc, row>> /\ pc[p] = "readBefore"
        /\ \/ before' = [before EXCEPT ![p] = doc[l]] /\ Goto(p, "setDoc") /\ UNCHANGED <<req, after>>
           \/ Finish(p)
    BY <1>1 DEF ReadBefore, stores, l
  <2>2. CASE Finish(p)
    BY <2>1, <2>2, OthersStayAll, OtherTurn DEF Holding, Writing
  <2>3. CASE before' = [before EXCEPT ![p] = doc[l]] /\ Goto(p, "setDoc") /\ UNCHANGED <<req, after>>
    <3>1. pc'[p] = "setDoc" /\ before'[p] = doc[l] /\ OthersStay(p)
      BY <2>3 DEF Goto, OthersStay, Typed, HandlersTyped
    <3>2. Settled(l)
      <4>1. \A q \in Handlers : q # p /\ req[q].lst = l => pc[q] \notin Holding
        BY <2>3, <3>1 DEF OneWriterEach, OthersStay, Holding, l
      <4>2. QED BY <2>1, <4>1 DEF Settled, Holding, Writing
    <3>3. Agrees(doc[l], row[l])
      BY <1>0, <3>2 DEF InTurn, StoresAgree, Agrees
    <3>4. Held(pc'[p], before'[p], after'[p], doc'[l], row'[l])
      BY <2>1, <3>1, <3>3 DEF Held
    <3>5. QED BY <1>0, <2>1, <2>3, <3>1, <3>4, HolderTurn DEF l, Holding
  <2>4. QED BY <2>1, <2>2, <2>3
<1>2. CASE SetDoc(p)
  <2>1. /\ row' = row /\ pc[p] = "setDoc"
        /\ \/ /\ doc[l] # NoDoc /\ doc' = [doc EXCEPT ![l] = Patched(@, req[p])]
              /\ after' = [after EXCEPT ![p] = doc'[l]] /\ Goto(p, "setRow") /\ UNCHANGED <<req, before>>
           \/ doc' = doc /\ Finish(p)
    BY <1>2 DEF SetDoc, Done, l
  <2>2. pc[p] \in Holding /\ Held(pc[p], before[p], after[p], doc[l], row[l])
    BY <1>0, <2>1 DEF Holding
  <2>3. CASE doc' = doc /\ Finish(p)
    <3>1. pc'[p] = "idle" /\ req'[p] = NoRequest /\ OthersStay(p)
      BY <2>3, OthersStayAll
    <3>2. Agrees(doc'[l], row'[l])
      BY <2>1, <2>2, <2>3 DEF Held
    <3>3. QED BY <1>0, <2>1, <2>2, <2>3, <3>1, <3>2, HolderTurn DEF l, Holding, Writing, NoRequest
  <2>4. CASE /\ doc[l] # NoDoc /\ doc' = [doc EXCEPT ![l] = Patched(@, req[p])]
             /\ after' = [after EXCEPT ![p] = doc'[l]] /\ Goto(p, "setRow") /\ UNCHANGED <<req, before>>
    <3>1. pc'[p] = "setRow" /\ after'[p] = doc'[l] /\ OthersStay(p)
      BY <2>4 DEF Goto, OthersStay, Typed, HandlersTyped
    <3>2. doc'[l] = Patched(doc[l], req[p]) /\ \A m \in Listings : m # l => doc'[m] = doc[m]
      BY <1>0, <2>4 DEF Typed, StoresTyped
    <3>3. doc'[l] # NoDoc
      BY <1>0, <2>4, <3>2, PatchedDocument, Records
    <3>4. Held(pc'[p], before'[p], after'[p], doc'[l], row'[l])
      BY <2>1, <2>2, <2>4, <3>1, <3>3 DEF Held, Agrees
    <3>5. QED BY <1>0, <2>1, <2>4, <3>1, <3>2, <3>4, HolderTurn DEF l, Holding, Writing
  <2>5. QED BY <2>1, <2>3, <2>4
<1>3. CASE SetRow(p)
  <2>1. /\ doc' = doc /\ pc[p] = "setRow"
        /\ \/ row[l] # NoRow /\ row' = [row EXCEPT ![l] = mirrorOf(after[p])] /\ Continue(p, "bust")
           \/ row' = row /\ Continue(p, "restoreDoc")
    BY <1>3, ListingsAssumption DEF SetRow, Then, Done, Outcomes, l
  <2>2. pc[p] \in Holding /\ Held(pc[p], before[p], after[p], doc[l], row[l])
    BY <1>0, <2>1 DEF Holding, Writing
  <2>3. OthersStay(p) /\ req' = req /\ before' = before /\ after' = after
    BY <2>1, OthersStayAll
  <2>4. \A m \in Listings : m # l => doc'[m] = doc[m] /\ row'[m] = row[m]
    BY <2>1 DEF Typed, StoresTyped
  <2>5. CASE row' = row /\ Continue(p, "restoreDoc")
    <3>1. pc'[p] = "restoreDoc"
      BY <2>5, OthersStayAll
    <3>2. Held(pc'[p], before'[p], after'[p], doc'[l], row'[l])
      BY <2>1, <2>2, <2>3, <2>5, <3>1 DEF Held
    <3>3. QED BY <1>0, <2>3, <2>4, <3>1, <3>2, HolderTurn DEF l, Holding, Writing
  <2>6. CASE row' = [row EXCEPT ![l] = mirrorOf(after[p])] /\ Continue(p, "bust")
    <3>1. pc'[p] = "bust"
      BY <2>6, OthersStayAll
    <3>2. Agrees(doc'[l], row'[l])
      BY <1>0, <2>1, <2>2, <2>6 DEF Held, Agrees, Typed, StoresTyped
    <3>3. QED BY <1>0, <2>2, <2>3, <2>4, <3>1, <3>2, HolderTurn DEF l, Holding, Writing
  <2>7. QED BY <2>1, <2>5, <2>6
<1>4. CASE RestoreDoc(p)
  <2>1. /\ row' = row /\ pc[p] = "restoreDoc" /\ Finish(p)
        /\ Held(pc[p], before[p], after[p], doc[l], row[l])
    BY <1>0, <1>4 DEF RestoreDoc, Holding, Writing
  <2>2. doc' = [doc EXCEPT ![l] = before[p]]
    BY <1>4, <2>1 DEF RestoreDoc, Done, Held, l
  <2>3. pc'[p] = "idle" /\ req'[p] = NoRequest /\ OthersStay(p)
    BY <2>1, OthersStayAll
  <2>4. /\ Agrees(doc'[l], row'[l])
        /\ \A m \in Listings : m # l => doc'[m] = doc[m] /\ row'[m] = row[m]
    BY <1>0, <2>1, <2>2 DEF Held, Typed, StoresTyped
  <2>5. QED BY <1>0, <2>1, <2>3, <2>4, HolderTurn DEF l, Holding, Writing, NoRequest
<1>5. QED BY <1>1, <1>2, <1>3, <1>4

\* The writes of a removal, and of its undo.
LEMMA RemoveInTurn ==
  ASSUME Typed, InTurn, OneWriterEach, OneWriterEach', MongoOutcomes = {"ok"}, "lost" \notin PostgresOutcomes,
         NEW p \in Handlers, MarkDoc(p) \/ MarkRow(p) \/ UnmarkDoc(p)
  PROVE  InTurn'
<1> DEFINE l == req[p].lst
<1>0. /\ l \in Listings
      /\ pc[p] \in Holding => Held(pc[p], before[p], after[p], doc[l], row[l])
      /\ doc[l] \in Document \cup {NoDoc}
  BY DEF InTurn, Typed, StoresTyped, HandlersTyped, Shape, ShapeOf, MarkDoc, MarkRow, UnmarkDoc
<1> HIDE DEF l
<1>1. CASE MarkDoc(p)
  <2> DEFINE e == [doc[l] EXCEPT !.deleted = TRUE]
  <2>1. /\ row' = row /\ pc[p] = "markDoc"
        /\ \/ Listed(doc[l]) /\ doc' = [doc EXCEPT ![l].deleted = TRUE] /\ Continue(p, "markRow")
           \/ doc' = doc /\ Finish(p)
    BY <1>1 DEF MarkDoc, Then, Done, l
  <2>2. [doc EXCEPT ![l].deleted = TRUE] = [doc EXCEPT ![l] = e]
    OBVIOUS
  <2>3. CASE doc' = doc /\ Finish(p)
    BY <2>1, <2>3, OthersStayAll, OtherTurn DEF Holding, Writing
  <2>4. CASE Listed(doc[l]) /\ doc' = [doc EXCEPT ![l].deleted = TRUE] /\ Continue(p, "markRow")
    <3>1. e \in Document /\ e.deleted /\ Undeleted(e) = doc[l]
      BY <1>0, <2>4, Fields, DeletedAndBack DEF Listed, Document
    <3> HIDE DEF e
    <3>2. doc'[l] = e /\ \A m \in Listings : m # l => doc'[m] = doc[m]
      BY <1>0, <2>2, <2>4 DEF Typed, StoresTyped
    <3>3. pc'[p] = "markRow" /\ req' = req /\ OthersStay(p)
      BY <2>4, OthersStayAll
    <3>4. Settled(l)
      <4>1. \A q \in Handlers : q # p /\ req[q].lst = l => pc[q] \notin Holding
        BY <3>3 DEF OneWriterEach, OthersStay, Holding, Writing, l
      <4>2. QED BY <2>1, <4>1 DEF Settled, Holding, Writing
    <3>5. Agrees(doc[l], row[l])
      BY <1>0, <3>4 DEF InTurn, StoresAgree, Agrees
    <3>6. Held(pc'[p], before'[p], after'[p], doc'[l], row'[l])
      BY <2>1, <3>1, <3>2, <3>3, <3>5 DEF Held
    <3>7. QED BY <1>0, <2>1, <3>2, <3>3, <3>6, HolderTurn DEF l, Holding, Writing
  <2>5. QED BY <2>1, <2>3, <2>4
<1>2. CASE MarkRow(p)
  <2> DEFINE e == [row[l] EXCEPT !.deleted = TRUE]
  <2>1. /\ doc' = doc /\ pc[p] = "markRow"
        /\ \/ row' = [row EXCEPT ![l].deleted = TRUE] /\ Continue(p, "bust")
           \/ row' = row /\ Continue(p, "unmarkDoc")
    BY <1>2, ListingsAssumption DEF MarkRow, Then, Done, Outcomes, l
  <2>2. [row EXCEPT ![l].deleted = TRUE] = [row EXCEPT ![l] = e]
    OBVIOUS
  <2>3. pc[p] \in Holding /\ Held(pc[p], before[p], after[p], doc[l], row[l])
    BY <1>0, <2>1 DEF Holding, Writing
  <2>4. Agrees(doc[l], e)
    BY <2>1, <2>3, DeletedAndBack DEF Held, Agrees
  <2> HIDE DEF e
  <2>5. OthersStay(p) /\ req' = req /\ before' = before /\ after' = after
    BY <2>1, OthersStayAll
  <2>6. \A m \in Listings : m # l => doc'[m] = doc[m] /\ row'[m] = row[m]
    BY <2>1, <2>2 DEF Typed, StoresTyped
  <2>7. CASE row' = row /\ Continue(p, "unmarkDoc")
    <3>1. pc'[p] = "unmarkDoc"
      BY <2>7, OthersStayAll
    <3>2. Held(pc'[p], before'[p], after'[p], doc'[l], row'[l])
      BY <2>1, <2>3, <2>7, <3>1 DEF Held
    <3>3. QED BY <1>0, <2>5, <2>6, <3>1, <3>2, HolderTurn DEF l, Holding, Writing
  <2>8. CASE row' = [row EXCEPT ![l].deleted = TRUE] /\ Continue(p, "bust")
    <3>1. pc'[p] = "bust"
      BY <2>8, OthersStayAll
    <3>2. Agrees(doc'[l], row'[l])
      BY <1>0, <2>1, <2>2, <2>4, <2>8 DEF Typed, StoresTyped
    <3>3. QED BY <1>0, <2>3, <2>5, <2>6, <3>1, <3>2, HolderTurn DEF l, Holding, Writing
  <2>9. QED BY <2>1, <2>7, <2>8
<1>3. CASE UnmarkDoc(p)
  <2>1. /\ row' = row /\ pc[p] = "unmarkDoc" /\ Finish(p)
        /\ doc[l] # NoDoc => doc' = [doc EXCEPT ![l].deleted = FALSE]
    BY <1>3 DEF UnmarkDoc, Done, l
  <2>2. pc[p] \in Holding /\ doc[l] \in Document /\ doc[l] # NoDoc /\ Agrees(Undeleted(doc[l]), row[l])
    BY <1>0, <2>1, Records DEF Held, Holding, Writing
  <2>3. [doc EXCEPT ![l].deleted = FALSE] = [doc EXCEPT ![l] = Undeleted(doc[l])]
    BY DEF Undeleted
  <2>4. Agrees(doc'[l], row'[l]) /\ \A m \in Listings : m # l => doc'[m] = doc[m] /\ row'[m] = row[m]
    BY <1>0, <2>1, <2>2, <2>3 DEF Typed, StoresTyped
  <2>5. pc'[p] = "idle" /\ req'[p] = NoRequest /\ OthersStay(p)
    BY <2>1, OthersStayAll
  <2>6. QED BY <1>0, <2>2, <2>4, <2>5, HolderTurn DEF l, Holding, Writing, NoRequest
<1>4. QED BY <1>1, <1>2, <1>3

\* What follows a write, the favourites, and findOne.
LEMMA RestInTurn ==
  ASSUME Typed, InTurn, NEW p \in Handlers,
         \/ Bust(p) \/ CountRows(p) \/ SyncCount(p)
         \/ CheckFav(p) \/ CreateFav(p) \/ DeleteFav(p) \/ Bump(p) \/ BustId(p)
         \/ Load(p) \/ Fill(p)
  PROVE  InTurn'
<1> DEFINE Quiet == {"idle", "count", "sync", "createFav", "bump", "bustId", "fill"}
<1>1. pc[p] \notin Holding
  BY DEF Holding, Writing, Bust, CountRows, SyncCount, CheckFav, CreateFav, DeleteFav, Bump, BustId, Load, Fill
<1>2. row' = row
  BY DEF stores, Bust, CountRows, SyncCount, CheckFav, CreateFav, DeleteFav, Bump, BustId, Load, Fill
<1>3. \/ Finish(p)
      \/ \E label \in Quiet : Continue(p, label)
      \/ pc[p] = "count" /\ Goto(p, "sync") /\ UNCHANGED <<req, before, after>>
      \/ pc[p] = "load" /\ Goto(p, "fill") /\ req' = req /\ before' = before
           /\ after' = [after EXCEPT ![p] = doc[req[p].lst]]
  BY DEF Then, Bust, CountRows, SyncCount, CheckFav, CreateFav, DeleteFav, Bump, BustId, Load, Fill
<1>4. OthersStay(p) /\ pc'[p] \notin Holding
  <2>1. CASE Finish(p)
    BY <2>1, OthersStayAll DEF Holding, Writing
  <2>2. ASSUME NEW label \in Quiet, Continue(p, label) PROVE OthersStay(p) /\ pc'[p] \notin Holding
    BY <2>2, OthersStayAll DEF Holding, Writing
  <2>3. CASE Goto(p, "sync") /\ UNCHANGED <<req, before, after>>
    BY <2>3 DEF Goto, OthersStay, Holding, Writing, Typed, HandlersTyped
  <2>4. CASE Goto(p, "fill") /\ req' = req /\ before' = before /\ after' = [after EXCEPT ![p] = doc[req[p].lst]]
    BY <2>4 DEF Goto, OthersStay, Holding, Writing, Typed, HandlersTyped
  <2>5. QED BY <1>3, <2>1, <2>2, <2>3, <2>4
<1>5. ASSUME NEW m \in Listings
      PROVE  \/ doc'[m] = doc[m]
             \/ doc[m] \in Document /\ \E i \in Int : doc'[m] = [doc[m] EXCEPT !.favs = doc[m].favs + i]
  <2>1. CASE ~Bump(p)
    BY <2>1 DEF stores, Bust, CountRows, SyncCount, CheckFav, CreateFav, DeleteFav, BustId, Load, Fill
  <2>2. CASE Bump(p)
    <3> DEFINE l == req[p].lst
               delta == IF req[p].op = "favourite" THEN 1 ELSE -1
               e == [doc[l] EXCEPT !.favs = doc[l].favs + delta]
    <3>1. (doc[l] # NoDoc /\ doc' = [doc EXCEPT ![l].favs = @ + delta]) \/ doc' = doc
      BY <2>2 DEF Bump
    <3>2. [doc EXCEPT ![l].favs = @ + delta] = [doc EXCEPT ![l] = e]
      OBVIOUS
    <3>3. doc[m] \in Document \cup {NoDoc} /\ delta \in Int
      BY DEF Typed, StoresTyped
    <3> HIDE DEF delta
    <3>4. QED BY <3>1, <3>2, <3>3 DEF Typed, StoresTyped
  <2>3. QED BY <2>1, <2>2
<1>6. QED BY <1>1, <1>2, <1>4, <1>5, OtherTurn

LEMMA NextInTurn ==
  ASSUME MongoOutcomes = {"ok"}, "lost" \notin PostgresOutcomes, ~MayCrash
  PROVE  Typed /\ InTurn /\ OneWriterEach /\ OneWriterEach' /\ [Next]_vars => InTurn'
<1> SUFFICES ASSUME Typed, InTurn, OneWriterEach, OneWriterEach', [Next]_vars PROVE InTurn'
  OBVIOUS
<1>1. CASE UNCHANGED vars
  BY <1>1 DEF vars, stores, locals, InTurn, StoresAgree, Settled
<1>2. ASSUME NEW l \in Listings, NEW k \in CacheKeys, Lapse(l, k) PROVE InTurn'
  BY <1>2 DEF Lapse, locals, InTurn, StoresAgree, Settled
<1>3. ASSUME NEW p \in Handlers, Step(p) PROVE InTurn'
  BY <1>3, CreateInTurn, UpdateInTurn, RemoveInTurn, RestInTurn DEF Step
<1>4. QED BY <1>1, <1>2, <1>3, ArriveInTurn DEF Next, Crash

\* However many requests race, on one listing or on several, a listing nobody is writing is
\* the same in both stores as long as its writers take turns, whichever Postgres writes were
\* refused and undone, whether or not Redis answers, and whoever counts favourites meanwhile.
THEOREM WritersInTurnAgree ==
  ASSUME MongoOutcomes = {"ok"}, "lost" \notin PostgresOutcomes, ~MayCrash
  PROVE  Spec /\ []OneWriterEach => []StoresAgree
<1>1. InTurn => StoresAgree
  BY DEF InTurn
<1>2. QED BY <1>1, InitTyped, InitInTurn, NextTyped, NextInTurn, PTL DEF Spec

\* A lone handler takes turns: StoresAgree needs no more than one request at a time.
THEOREM StoresStayEqual ==
  ASSUME NEW h, Handlers = {h}, MongoOutcomes = {"ok"}, "lost" \notin PostgresOutcomes, ~MayCrash
  PROVE  Spec => []StoresAgree
<1>1. OneWriterEach
  BY DEF OneWriterEach
<1>2. QED BY <1>1, WritersInTurnAgree, PTL

-----------------------------------------------------------------------------
(* FavouritesCounted, for any number of handlers.                              *)

Favers(l)     == {u \in Users : <<u, l>> \in faved}
Bumpers(o, l) == {p \in Handlers : pc[p] = "bump" /\ req[p].op = o /\ req[p].lst = l}

Counted ==
    \A l \in Listings \ undone :
       doc[l].favs + Cardinality(Bumpers("favourite", l)) - Cardinality(Bumpers("unfavourite", l))
          = Cardinality(Favers(l))

\* What is a favourite, or becomes one, has a row, so that its document stays; and what
\* each await of the two handlers is for.
FavAwaits == {"checkFav", "createFav", "deleteFav", "bump"}
Liked ==
    /\ \A u \in Users, l \in Listings : <<u, l>> \in faved => row[l] # NoRow
    /\ \A p \in Handlers : pc[p] \in {"checkFav", "createFav", "bump"} => row[req[p].lst] # NoRow
    /\ \A p \in Handlers : pc[p] \in {"checkFav", "createFav"} => req[p].op = "favourite"
    /\ \A p \in Handlers : pc[p] = "deleteFav" => req[p].op = "unfavourite"

\* Handler p moves to another await; the others keep theirs and their requests.
Moves(p, label) == Goto(p, label) /\ \A q \in Handlers \ {p} : req'[q] = req[q]

LEMMA MovesAll ==
  ASSUME Typed, NEW p \in Handlers
  PROVE  /\ Finish(p) => Moves(p, "idle")
         /\ \A label : Continue(p, label) => Moves(p, label) /\ req' = req
         /\ \A label : Goto(p, label) /\ UNCHANGED req => Moves(p, label)
         /\ \A label, r : Begin(p, r, label) => Moves(p, label) /\ req'[p] = r
  BY DEF Moves, Finish, Continue, Begin, Typed, HandlersTyped

\* A step that neither counts nor likes, and keeps the rows there are.
LEMMA QuietCounted ==
  ASSUME Typed, Counted, NEW p \in Handlers, NEW label, Moves(p, label),
         pc[p] # "bump", label # "bump", faved' = faved,
         \A l \in Listings \ undone' : doc'[l].favs = doc[l].favs
  PROVE  Counted'
<1>1. \A q \in Handlers : pc'[q] = "bump" <=> pc[q] = "bump"
  BY DEF Moves, Goto, Typed, HandlersTyped
<1>2. \A q \in Handlers : pc'[q] = "bump" => req'[q] = req[q]
  BY <1>1 DEF Moves
<1>3. \A o, l : Bumpers(o, l)' = Bumpers(o, l)
  BY <1>1, <1>2 DEF Bumpers
<1>4. \A l : Favers(l)' = Favers(l)
  BY DEF Favers
<1>5. undone \subseteq undone'
  BY DEF Moves, Goto
<1>6. QED BY <1>3, <1>4, <1>5 DEF Counted

LEMMA QuietLiked ==
  ASSUME Typed, Liked, NEW p \in Handlers, NEW label, Moves(p, label),
         label \notin FavAwaits, faved' = faved,
         \A l \in Listings : row[l] # NoRow => row'[l] # NoRow
  PROVE  Liked'
<1>1. \A q \in Handlers : pc'[q] \in FavAwaits => q # p /\ pc'[q] = pc[q] /\ req'[q] = req[q]
  BY DEF Moves, Goto, Typed, HandlersTyped
<1>2. \A q \in Handlers : pc[q] \in FavAwaits => req[q].lst \in Listings
  BY DEF FavAwaits, Typed, HandlersTyped, Shape, ShapeOf
<1>3. QED BY <1>1, <1>2 DEF Liked, FavAwaits

LEMMA InitCounted == Init => Counted /\ Liked
<1> SUFFICES ASSUME Init PROVE Counted /\ Liked
  OBVIOUS
<1>1. \A o, l : Bumpers(o, l) = {}
  BY DEF Init, Bumpers
<1>2. \A l : Favers(l) = {}
  BY DEF Init, Favers
<1>3. Counted
  <2>1. Cardinality({}) = 0
    BY FS_EmptySet
  <2>2. \A l \in Listings : doc[l].favs = 0
    BY DEF Init, NoDoc
  <2>3. QED BY <1>1, <1>2, <2>1, <2>2 DEF Counted
<1>4. Liked
  BY DEF Init, Liked
<1>5. QED BY <1>3, <1>4

LEMMA ArriveCounted ==
  ASSUME Typed, Counted, Liked, NEW p \in Handlers, Arrive(p)
  PROVE  Counted' /\ Liked'
<1>1. PICK l \in Listings :
         \/ \E f \in Facts, a \in Areas : Create(p, l, f, a)
         \/ \E f \in Facts \cup {None}, a \in Areas \cup {None} : Update(p, l, f, a)
         \/ Remove(p, l)
         \/ \E u \in Users : Favourite(p, u, l) \/ Unfavourite(p, u, l)
         \/ \E k \in Keys : Get(p, l, k)
  BY DEF Arrive
<1>2. ASSUME NEW r, NEW label, Begin(p, r, label), label # "bump",
             label \in {"checkFav", "createFav"} =>
                r.op = "favourite" /\ r.lst = l /\ row[l] # NoRow,
             label = "deleteFav" => r.op = "unfavourite"
      PROVE  Counted' /\ Liked'
  <2>1. Moves(p, label) /\ req'[p] = r /\ UNCHANGED <<doc, row, faved>> /\ pc[p] = "idle"
    BY <1>2, MovesAll DEF Begin, stores
  <2>2. Counted'
    BY <1>2, <2>1, QuietCounted
  <2>3. \A q \in Handlers : IF q = p THEN pc'[q] = label ELSE pc'[q] = pc[q] /\ req'[q] = req[q]
    BY <2>1 DEF Moves, Goto, Typed, HandlersTyped
  <2>4. QED BY <1>2, <2>1, <2>2, <2>3 DEF Liked
<1>3. ASSUME NEW f, NEW a, Create(p, l, f, a) PROVE Counted' /\ Liked'
  BY <1>2, <1>3 DEF Create
<1>4. ASSUME NEW f, NEW a, Update(p, l, f, a) PROVE Counted' /\ Liked'
  BY <1>2, <1>4 DEF Update
<1>5. ASSUME Remove(p, l) PROVE Counted' /\ Liked'
  BY <1>2, <1>5 DEF Remove
<1>6. ASSUME NEW u, Favourite(p, u, l) PROVE Counted' /\ Liked'
  BY <1>2, <1>6 DEF Favourite, LiveRow, NoRequest
<1>7. ASSUME NEW u, Unfavourite(p, u, l) PROVE Counted' /\ Liked'
  BY <1>2, <1>7 DEF Unfavourite, NoRequest
<1>8. ASSUME NEW k, Get(p, l, k) PROVE Counted' /\ Liked'
  BY <1>2, <1>8 DEF Get
<1>9. QED BY <1>1, <1>3, <1>4, <1>5, <1>6, <1>7, <1>8

\* One favourite more or less, and its handler about to count it.
LEMMA LikeCounted ==
  ASSUME IsFiniteSet(Users), IsFiniteSet(Handlers), Typed, Counted, Liked, NEW p \in Handlers,
         Continue(p, "bump"), UNCHANGED <<doc, row>>,
         LET fav == <<req[p].usr, req[p].lst>>
         IN  \/ pc[p] = "createFav" /\ fav \notin faved /\ faved' = faved \cup {fav}
             \/ pc[p] = "deleteFav" /\ fav \in faved /\ faved' = faved \ {fav}
  PROVE  Counted' /\ Liked'
<1> DEFINE l == req[p].lst
           u == req[p].usr
<1>1. u \in Users /\ l \in Listings /\ pc' = [pc EXCEPT ![p] = "bump"] /\ UNCHANGED <<req, undone>>
  BY DEF Typed, HandlersTyped, Shape, ShapeOf, Continue, Goto
<1>2. pc'[p] = "bump" /\ \A q \in Handlers \ {p} : pc'[q] = pc[q]
  BY <1>1 DEF Typed, HandlersTyped
<1>3. req[p].op = (IF pc[p] = "createFav" THEN "favourite" ELSE "unfavourite")
  BY DEF Liked
<1>4. row[l] # NoRow
  BY <1>1 DEF Liked
<1>5. Liked'
  <2>1. \A v \in Users, m \in Listings : <<v, m>> \in faved' => row[m] # NoRow
    BY <1>4 DEF Liked
  <2>2. QED BY <1>1, <1>2, <1>3, <1>4, <2>1 DEF Liked
<1>6. Counted'
  <2> SUFFICES ASSUME NEW m \in Listings \ undone
               PROVE  doc[m].favs + Cardinality(Bumpers("favourite", m)') - Cardinality(Bumpers("unfavourite", m)')
                         = Cardinality(Favers(m)')
    BY <1>1 DEF Counted
  <2>1. \A o : Bumpers(o, m)' = IF m = l /\ o = req[p].op THEN Bumpers(o, m) \cup {p} ELSE Bumpers(o, m)
    BY <1>1, <1>2 DEF Bumpers
  <2>2. Favers(m)' = IF m # l THEN Favers(m)
                     ELSE IF pc[p] = "createFav" THEN Favers(m) \cup {u} ELSE Favers(m) \ {u}
    BY <1>1 DEF Favers
  <2>3. \A o : IsFiniteSet(Bumpers(o, m)) /\ p \notin Bumpers(o, m)
    BY FS_Subset DEF Bumpers
  <2>4. IsFiniteSet(Favers(m)) /\ (m = l => (u \in Favers(m) <=> pc[p] # "createFav"))
    BY <1>1, FS_Subset DEF Favers
  <2>5. /\ \A o : Cardinality(Bumpers(o, m)) \in Nat /\ Cardinality(Bumpers(o, m) \cup {p}) = Cardinality(Bumpers(o, m)) + 1
        /\ Cardinality(Favers(m)) \in Nat
        /\ u \notin Favers(m) => Cardinality(Favers(m) \cup {u}) = Cardinality(Favers(m)) + 1
        /\ u \in Favers(m) => Cardinality(Favers(m) \ {u}) = Cardinality(Favers(m)) - 1
    BY <2>3, <2>4, FS_CardinalityType, FS_AddElement, FS_RemoveElement
  <2>6. doc[m].favs \in Int
    BY DEF Typed, StoresTyped, Document, NoDoc
  <2>7. doc[m].favs + Cardinality(Bumpers("favourite", m)) - Cardinality(Bumpers("unfavourite", m))
           = Cardinality(Favers(m))
    BY DEF Counted
  <2>8. CASE m # l
    BY <2>1, <2>2, <2>7, <2>8
  <2>9. CASE m = l /\ pc[p] = "createFav"
    <3>1. /\ Bumpers("favourite", m)' = Bumpers("favourite", m) \cup {p}
          /\ Bumpers("unfavourite", m)' = Bumpers("unfavourite", m)
          /\ Favers(m)' = Favers(m) \cup {u} /\ u \notin Favers(m)
      BY <1>3, <2>1, <2>2, <2>4, <2>9
    <3>2. QED BY <2>5, <2>6, <2>7, <3>1
  <2>10. CASE m = l /\ pc[p] = "deleteFav"
    <3>1. /\ Bumpers("favourite", m)' = Bumpers("favourite", m)
          /\ Bumpers("unfavourite", m)' = Bumpers("unfavourite", m) \cup {p}
          /\ Favers(m)' = Favers(m) \ {u} /\ u \in Favers(m)
      BY <1>3, <2>1, <2>2, <2>4, <2>10
    <3>2. QED BY <2>5, <2>6, <2>7, <3>1
  <2>11. QED BY <2>8, <2>9, <2>10
<1>7. QED BY <1>5, <1>6

\* The counter on the document moves, and the handler goes on.
LEMMA BumpCounted ==
  ASSUME IsFiniteSet(Handlers), MongoOutcomes = {"ok"},
         Typed, Whole, Counted, Liked, NEW p \in Handlers, Bump(p)
  PROVE  Counted' /\ Liked'
<1> DEFINE l     == req[p].lst
           delta == IF req[p].op = "favourite" THEN 1 ELSE -1
           e     == [doc[l] EXCEPT !.favs = doc[l].favs + delta]
<1>1. /\ l \in Listings /\ pc[p] = "bump" /\ req[p].op \in {"favourite", "unfavourite"}
      /\ Continue(p, "bustId") /\ UNCHANGED <<row, faved>>
  BY DEF Bump, Typed, HandlersTyped, Shape, ShapeOf
<1>2. doc[l] # NoDoc
  <2>1. row[l] # NoRow
    BY <1>1 DEF Liked
  <2>2. CASE BeingCreated(l)
    BY <2>1, <2>2 DEF BeingCreated, Whole
  <2>3. QED BY <1>1, <2>1, <2>2 DEF Whole, BothOrNeither
<1>3. doc' = [doc EXCEPT ![l] = e]
  BY <1>2 DEF Bump, Done
<1>4. doc[l] \in Document /\ delta \in Int
  BY <1>1, <1>2 DEF Typed, StoresTyped
<1>5. e.favs = doc[l].favs + delta
  BY <1>4 DEF Document
<1> HIDE DEF e
<1>6. Moves(p, "bustId") /\ req' = req /\ undone' = undone
  BY <1>1, MovesAll DEF Moves, Goto
<1>7. pc'[p] = "bustId" /\ \A q \in Handlers \ {p} : pc'[q] = pc[q]
  BY <1>6 DEF Moves, Goto, Typed, HandlersTyped
<1>8. Liked'
  BY <1>1, <1>6, QuietLiked DEF FavAwaits
<1>9. Counted'
  <2> SUFFICES ASSUME NEW m \in Listings \ undone
               PROVE  doc'[m].favs + Cardinality(Bumpers("favourite", m)') - Cardinality(Bumpers("unfavourite", m)')
                         = Cardinality(Favers(m)')
    BY <1>6 DEF Counted
  <2>1. \A o : Bumpers(o, m)' = IF m = l /\ o = req[p].op THEN Bumpers(o, m) \ {p} ELSE Bumpers(o, m)
    BY <1>1, <1>6, <1>7 DEF Bumpers
  <2>2. Favers(m)' = Favers(m)
    BY <1>1 DEF Favers
  <2>3. \A o : IsFiniteSet(Bumpers(o, m)) /\ (p \in Bumpers(o, m) <=> m = l /\ o = req[p].op)
    BY <1>1, FS_Subset DEF Bumpers
  <2>4. /\ \A o : Cardinality(Bumpers(o, m)) \in Nat
        /\ \A o : p \in Bumpers(o, m) => Cardinality(Bumpers(o, m) \ {p}) = Cardinality(Bumpers(o, m)) - 1
    BY <2>3, FS_CardinalityType, FS_RemoveElement
  <2>5. doc[m].favs \in Int
    BY DEF Typed, StoresTyped, Document, NoDoc
  <2>6. doc[m].favs + Cardinality(Bumpers("favourite", m)) - Cardinality(Bumpers("unfavourite", m))
           = Cardinality(Favers(m))
    BY DEF Counted
  <2>7. doc'[m].favs = IF m = l THEN doc[m].favs + delta ELSE doc[m].favs
    BY <1>3, <1>5 DEF Typed, StoresTyped
  <2>8. CASE m # l
    BY <2>1, <2>2, <2>6, <2>7, <2>8
  <2>9. CASE m = l /\ req[p].op = "favourite"
    <3>1. /\ Bumpers("favourite", m)' = Bumpers("favourite", m) \ {p} /\ p \in Bumpers("favourite", m)
          /\ Bumpers("unfavourite", m)' = Bumpers("unfavourite", m)
      BY <2>1, <2>3, <2>9
    <3>2. QED BY <2>2, <2>4, <2>5, <2>6, <2>7, <2>9, <3>1
  <2>10. CASE m = l /\ req[p].op = "unfavourite"
    <3>1. /\ Bumpers("unfavourite", m)' = Bumpers("unfavourite", m) \ {p} /\ p \in Bumpers("unfavourite", m)
          /\ Bumpers("favourite", m)' = Bumpers("favourite", m)
      BY <2>1, <2>3, <2>10
    <3>2. QED BY <2>2, <2>4, <2>5, <2>6, <2>7, <2>10, <3>1
  <2>11. QED BY <1>1, <2>8, <2>9, <2>10
<1>10. QED BY <1>8, <1>9

LEMMA StepCounted ==
  ASSUME IsFiniteSet(Users), IsFiniteSet(Handlers), MongoOutcomes = {"ok"}, "lost" \notin PostgresOutcomes,
         Typed, Whole, Counted, Liked, NEW p \in Handlers, Step(p)
  PROVE  Counted' /\ Liked'
<1> DEFINE l == req[p].lst
\* Every await that is not about a favourite: no count and no row is lost.
<1>0. /\ pc[p] # "idle" => l \in Listings
      /\ \A outcome \in PostgresOutcomes : outcome = "ok" \/ outcome = "refused"
      /\ \A d \in Document : mirrorOf(d) # NoRow
      /\ \A m \in Listings : (doc[m] # NoDoc => doc[m] \in Document) /\ (row[m] # NoRow => row[m] \in Mirror)
  BY Records, ListingsAssumption DEF Typed, StoresTyped, HandlersTyped, Shape, ShapeOf, Outcomes
<1>1. ASSUME pc[p] # "bump", NEW label, Moves(p, label), label \notin FavAwaits, faved' = faved,
             \A m \in Listings : row[m] # NoRow => row'[m] # NoRow,
             \A m \in Listings \ undone' : doc'[m].favs = doc[m].favs
      PROVE  Counted' /\ Liked'
  BY <1>1, QuietCounted, QuietLiked DEF FavAwaits
<1>2. ASSUME pc[p] # "bump", UNCHANGED <<doc, row, faved>>,
             \/ Finish(p)
             \/ \E label : label \notin FavAwaits /\ (Continue(p, label) \/ (Goto(p, label) /\ UNCHANGED req))
      PROVE  Counted' /\ Liked'
  BY <1>1, <1>2, MovesAll DEF FavAwaits
<1> USE DEF FavAwaits
<1>3. CASE CreateDoc(p)
  <2>1. /\ doc' = [doc EXCEPT ![l] = [facts |-> req[p].facts, area |-> req[p].area,
                                      deleted |-> FALSE, favs |-> 0]]
        /\ Goto(p, "createRow") /\ UNCHANGED <<req, row, faved>> /\ pc[p] = "createDoc"
    BY <1>3 DEF CreateDoc, Done
  <2>2. doc[l] = NoDoc
    BY <2>1 DEF Whole
  <2>3. \A m \in Listings : doc'[m].favs = doc[m].favs
    BY <2>1, <2>2 DEF NoDoc, Typed, StoresTyped
  <2>4. QED BY <1>1, <2>1, <2>3, MovesAll
<1>4. CASE CreateRow(p)
  <2>1. /\ UNCHANGED <<doc, faved>> /\ pc[p] = "createRow"
        /\ row' = [row EXCEPT ![l] = mirrorOf(after[p])] \/ row' = row
        /\ Continue(p, "bust") \/ Continue(p, "deleteDoc")
    BY <1>0, <1>4 DEF CreateRow, Then
  <2>2. after[p] \in Document
    BY <2>1 DEF Typed, HandlersTyped, Shape, ShapeOf
  <2>3. \A m \in Listings : row[m] # NoRow => row'[m] # NoRow
    BY <1>0, <2>1, <2>2 DEF Typed, StoresTyped
  <2>4. QED BY <1>1, <2>1, <2>3, MovesAll
<1>5. CASE DeleteDoc(p)
  <2>1. /\ UNCHANGED <<row, faved>> /\ pc[p] = "deleteDoc" /\ Finish(p)
        /\ doc' = [doc EXCEPT ![l] = NoDoc]
    BY <1>5 DEF DeleteDoc, Done
  <2>2. row[l] = NoRow /\ l \in Listings
    BY <1>0, <2>1 DEF Whole
  <2>3. Favers(l) = {} /\ \A o : Bumpers(o, l) = {}
    BY <2>2 DEF Favers, Bumpers, Liked
  <2>4. l \notin undone => doc[l].favs = 0
    <3>1. Cardinality({}) = 0
      BY FS_EmptySet
    <3>2. doc[l].favs \in Int
      BY <2>2 DEF Typed, StoresTyped, Document, NoDoc
    <3>3. ASSUME l \notin undone
          PROVE  doc[l].favs + Cardinality(Bumpers("favourite", l)) - Cardinality(Bumpers("unfavourite", l))
                    = Cardinality(Favers(l))
      BY <2>2, <3>3 DEF Counted
    <3>4. /\ Cardinality(Favers(l)) = 0 /\ Cardinality(Bumpers("favourite", l)) = 0
          /\ Cardinality(Bumpers("unfavourite", l)) = 0
      BY <2>3, <3>1
    <3>5. QED BY <3>2, <3>3, <3>4
  <2>5. Moves(p, "idle") /\ undone' = undone
    BY <2>1, MovesAll DEF Moves, Goto
  <2>6. \A m \in Listings \ undone' : doc'[m].favs = doc[m].favs
    BY <2>1, <2>4, <2>5 DEF NoDoc, Typed, StoresTyped
  <2>7. QED BY <1>1, <2>1, <2>5, <2>6
<1>6. CASE ReadBefore(p)
  BY <1>2, <1>6 DEF ReadBefore, stores
<1>7. CASE SetDoc(p)
  <2>1. /\ UNCHANGED <<row, faved>> /\ pc[p] = "setDoc"
        /\ doc' = [doc EXCEPT ![l] = Patched(@, req[p])] \/ doc' = doc
        /\ Finish(p) \/ (Goto(p, "setRow") /\ UNCHANGED req)
    BY <1>7 DEF SetDoc
  <2>2. \A d \in Document \cup {NoDoc} : Patched(d, req[p]).favs = d.favs
    BY DEF Patched, Document, NoDoc
  <2>3. \A m \in Listings : doc'[m].favs = doc[m].favs
    BY <2>1, <2>2 DEF Typed, StoresTyped
  <2>4. QED BY <1>1, <2>1, <2>3, MovesAll
<1>8. CASE SetRow(p)
  <2>1. /\ UNCHANGED <<doc, faved>> /\ pc[p] = "setRow"
        /\ row' = [row EXCEPT ![l] = mirrorOf(after[p])] \/ row' = row
        /\ Continue(p, "bust") \/ Continue(p, "restoreDoc")
    BY <1>0, <1>8 DEF SetRow, Then
  <2>2. after[p] \in Document
    BY <2>1 DEF Typed, HandlersTyped, Shape, ShapeOf
  <2>3. \A m \in Listings : row[m] # NoRow => row'[m] # NoRow
    BY <1>0, <2>1, <2>2 DEF Typed, StoresTyped
  <2>4. QED BY <1>1, <2>1, <2>3, MovesAll
<1>9. CASE RestoreDoc(p)
  <2>1. /\ UNCHANGED <<row, faved>> /\ pc[p] = "restoreDoc" /\ Finish(p)
        /\ doc' = [doc EXCEPT ![l] = before[p]] \/ doc' = doc
    BY <1>9 DEF RestoreDoc
  <2>2. l \in undone'
    BY <2>1 DEF Finish, Goto
  <2>3. \A m \in Listings \ undone' : doc'[m].favs = doc[m].favs
    BY <2>1, <2>2 DEF Typed, StoresTyped
  <2>4. QED BY <1>1, <2>1, <2>3, MovesAll
<1>10. ASSUME NEW b \in BOOLEAN, doc' = [doc EXCEPT ![l].deleted = b] \/ doc' = doc
       PROVE  \A m \in Listings : doc'[m].favs = doc[m].favs
  <2> DEFINE e == [doc[l] EXCEPT !.deleted = b]
  <2>1. l \in Listings => e.favs = doc[l].favs
    BY DEF Typed, StoresTyped, Document, NoDoc
  <2>2. [doc EXCEPT ![l].deleted = b] = [doc EXCEPT ![l] = e]
    OBVIOUS
  <2> HIDE DEF e
  <2>3. QED BY <1>10, <2>1, <2>2 DEF Typed, StoresTyped
<1>11. CASE MarkDoc(p)
  <2>1. /\ UNCHANGED <<row, faved>> /\ pc[p] = "markDoc"
        /\ doc' = [doc EXCEPT ![l].deleted = TRUE] \/ doc' = doc
        /\ Finish(p) \/ Continue(p, "markRow")
    BY <1>11 DEF MarkDoc, Then
  <2>2. \A m \in Listings : doc'[m].favs = doc[m].favs
    BY <1>10, <2>1
  <2>3. QED BY <1>1, <2>1, <2>2, MovesAll
<1>12. CASE MarkRow(p)
  <2> DEFINE e == [row[l] EXCEPT !.deleted = TRUE]
  <2>1. /\ UNCHANGED <<doc, faved>> /\ pc[p] = "markRow"
        /\ (row[l] # NoRow /\ row' = [row EXCEPT ![l].deleted = TRUE]) \/ row' = row
        /\ Continue(p, "bust") \/ Continue(p, "unmarkDoc")
    BY <1>12 DEF MarkRow, Then
  <2>2. [row EXCEPT ![l].deleted = TRUE] = [row EXCEPT ![l] = e]
    OBVIOUS
  <2>3. row[l] # NoRow => e # NoRow
    <3>1. row[l] # NoRow => row[l] \in Mirror
      BY <1>0, <2>1
    <3>2. row[l] # NoRow => e \in Mirror
      BY <3>1, Fields
    <3>3. QED BY <3>2, Records
  <2> HIDE DEF e
  <2>4. \A m \in Listings : row[m] # NoRow => row'[m] # NoRow
    BY <2>1, <2>2, <2>3 DEF Typed, StoresTyped
  <2>5. QED BY <1>1, <2>1, <2>4, MovesAll
<1>13. CASE UnmarkDoc(p)
  <2>1. /\ UNCHANGED <<row, faved>> /\ pc[p] = "unmarkDoc" /\ Finish(p)
        /\ doc' = [doc EXCEPT ![l].deleted = FALSE] \/ doc' = doc
    BY <1>13 DEF UnmarkDoc
  <2>2. \A m \in Listings : doc'[m].favs = doc[m].favs
    BY <1>10, <2>1
  <2>3. QED BY <1>1, <2>1, <2>2, MovesAll
<1>14. CASE Bust(p)
  BY <1>2, <1>14 DEF Bust
<1>15. CASE CountRows(p)
  BY <1>2, <1>15 DEF CountRows, stores
<1>16. CASE SyncCount(p)
  BY <1>2, <1>16 DEF SyncCount
<1>17. CASE CheckFav(p)
  <2>1. /\ UNCHANGED <<doc, row, faved>> /\ pc[p] = "checkFav"
        /\ Finish(p) \/ Continue(p, "createFav")
    BY <1>17 DEF CheckFav, stores, Then
  <2>2. CASE Continue(p, "createFav")
    <3>1. Moves(p, "createFav") /\ req' = req
      BY <2>2, MovesAll
    <3>2. Counted'
      BY <2>1, <3>1, QuietCounted
    <3>3. \A q \in Handlers : pc'[q] = IF q = p THEN "createFav" ELSE pc[q]
      BY <3>1 DEF Moves, Goto, Typed, HandlersTyped
    <3>4. QED BY <2>1, <3>1, <3>2, <3>3 DEF Liked
  <2>3. QED BY <1>2, <2>1, <2>2
<1>18. CASE CreateFav(p)
  <2> DEFINE fav == <<req[p].usr, l>>
  <2>1. /\ UNCHANGED <<doc, row>> /\ pc[p] = "createFav"
        /\ \/ fav \notin faved /\ faved' = faved \cup {fav} /\ Continue(p, "bump")
           \/ faved' = faved /\ Finish(p)
    BY <1>0, <1>18 DEF CreateFav, Then, Done
  <2>2. QED BY <1>2, <2>1, LikeCounted
<1>19. CASE DeleteFav(p)
  <2> DEFINE fav == <<req[p].usr, l>>
  <2>1. /\ UNCHANGED <<doc, row>> /\ pc[p] = "deleteFav"
        /\ \/ fav \in faved /\ faved' = faved \ {fav} /\ Continue(p, "bump")
           \/ faved' = faved /\ Finish(p)
    BY <1>0, <1>19 DEF DeleteFav, Then, Done
  <2>2. QED BY <1>2, <2>1, LikeCounted
<1>20. CASE Bump(p)
  BY <1>20, BumpCounted
<1>21. CASE BustId(p)
  BY <1>2, <1>21 DEF BustId
<1>22. CASE Load(p)
  BY <1>2, <1>22 DEF Load, stores
<1>23. CASE Fill(p)
  BY <1>2, <1>23 DEF Fill
<1>24. QED
  BY <1>3, <1>4, <1>5, <1>6, <1>7, <1>8, <1>9, <1>11, <1>12, <1>13, <1>14, <1>15, <1>16, <1>17,
     <1>18, <1>19, <1>20, <1>21, <1>22, <1>23 DEF Step

\* While Mongo answers, the favourites counted on a document are the rows in Postgres, give or
\* take the handlers between the two, for any number of users and handlers, through refused
\* creates, updates and removals: only an undone update may take a count with it.
THEOREM FavouritesAddUp ==
  ASSUME IsFiniteSet(Users), IsFiniteSet(Handlers),
         MongoOutcomes = {"ok"}, "lost" \notin PostgresOutcomes, ~MayCrash
  PROVE  Spec => []FavouritesCounted
<1>1. Typed /\ Whole /\ Counted /\ Liked /\ [Next]_vars => Counted' /\ Liked'
  <2> SUFFICES ASSUME Typed, Whole, Counted, Liked, [Next]_vars PROVE Counted' /\ Liked'
    OBVIOUS
  <2>1. CASE UNCHANGED vars
    BY <2>1 DEF vars, stores, Counted, Liked, Bumpers, Favers
  <2>2. ASSUME NEW l \in Listings, NEW k \in CacheKeys, Lapse(l, k) PROVE Counted' /\ Liked'
    BY <2>2 DEF Lapse, Counted, Liked, Bumpers, Favers
  <2>3. QED BY <2>1, <2>2, ArriveCounted, StepCounted DEF Next, Crash
<1>2. Counted => FavouritesCounted
  BY DEF Counted, FavouritesCounted, Bumpers, Favers
<1>3. Init => Whole
  BY DEF Init, Whole, Creating, BothOrNeither
<1>4. QED BY <1>1, <1>2, <1>3, InitTyped, InitCounted, NextTyped, NextWhole, PTL DEF Spec

=============================================================================
