----------------------------- MODULE Catalogue -----------------------------
(***************************************************************************)
(* The catalogue of api-core: developers, areas, the compounds that belong *)
(* to one of each, and the listings of a compound as property_index has    *)
(* them.  A handler is a sequence of queries, and other handlers may run   *)
(* between any two; a foreign key may refuse the last of them.  A request  *)
(* that fails, or dies, leaves what it has written.                        *)
(*                                                                         *)
(* Names, slugs, prices and the other fields of a PATCH are left out, and  *)
(* so is the cache of lists, which every write drops as in Listings.       *)
(***************************************************************************)
EXTENDS Integers, Sequences, FiniteSets

CONSTANTS
    Developers, Areas, Compounds,
    Units,             \* bounds the listings ever created
    Clerks,            \* bounds the requests under way
    Blank,             \* null, or a field that a request does not name
    Patches,           \* the fields updates name: a developer, an area, isActive
    MaxEdits,          \* bounds the requests
    EditsMayFail       \* a query may throw, or the process die before it

ASSUME CatalogueAssumption ==
    /\ Blank \notin Developers \cup Areas \cup Compounds
    /\ Developers \cap Areas = {} /\ Compounds \cap (Developers \cup Areas) = {}
    /\ Patches \subseteq [by : Developers \cup {Blank}, in : Areas \cup {Blank},
                         active : BOOLEAN \cup {Blank}]
    /\ MaxEdits \in Nat /\ EditsMayFail \in BOOLEAN

Parents == Developers \cup Areas

VARIABLES
    parent,            \* developers and areas
    projects,          \* projectsCount, of each developer
    compound,
    unit,              \* property_index: the compound of each listing
    work,              \* the requests under way
    edits,
    \* History
    unsure,            \* developers whose count may be wrong
    cut                \* listings that lost their compound between two queries of its removal

catalogueVars == <<parent, projects, compound, unit, work, edits, unsure, cut>>

Stages   == {"idle", "relations", "write", "links", "remove", "count", "put", "find", "insert"}
Compound == [here : BOOLEAN, active : BOOLEAN, by : Developers \cup {Blank},
             in : Areas \cup {Blank}]
Unit     == [live : BOOLEAN, compound : Compounds \cup {Blank}]
Work     == [at     : Stages,
             id     : Parents \cup Compounds \cup Units \cup {Blank},
             new    : BOOLEAN,
             by     : Developers \cup {Blank},       \* what the request names
             in     : Areas \cup {Blank},
             active : BOOLEAN \cup {Blank},
             was    : Developers \cup {Blank},       \* existing.developerId
             linked : BOOLEAN,                       \* something still points at it
             due    : Seq(Developers),               \* developers to count for
             n      : Nat,
             home   : Compounds \cup {Blank},        \* of a listing
             late   : BOOLEAN]                        \* history: what it counted has changed since
NoCompound == [here |-> FALSE, active |-> FALSE, by |-> Blank, in |-> Blank]
NoUnit     == [live |-> FALSE, compound |-> Blank]
NoWork     == [at |-> "idle", id |-> Blank, new |-> FALSE, by |-> Blank, in |-> Blank,
               active |-> Blank, was |-> Blank, linked |-> FALSE, due |-> <<>>, n |-> 0,
               home |-> Blank, late |-> FALSE]

Of(d)      == {c \in Compounds : compound[c].here /\ compound[c].by = d}
Running(d) == Cardinality({c \in Of(d) : compound[c].active})
\* A listing a removal counts: it is not deleted, and points at the compound.
LivesIn(c) == {u \in Units : unit[u].live /\ unit[u].compound = c}

CatalogueTypeOK ==
    /\ parent \in [Parents -> {"none", "active", "inactive"}]
    /\ projects \in [Developers -> Nat]
    /\ compound \in [Compounds -> Compound]
    /\ unit \in [Units -> Unit]
    /\ work \in [Clerks -> Work]
    /\ edits \in 0..MaxEdits
    /\ unsure \subseteq Developers /\ cut \subseteq Units
    \* The foreign keys.
    /\ \A c \in Compounds : compound[c].here =>
          parent[compound[c].by] # "none" /\ parent[compound[c].in] # "none"
    /\ \A u \in Units : unit[u].compound # Blank => compound[unit[u].compound].here

\* A catalogue whose counts are right.
CatalogueInit ==
    /\ parent = [x \in Parents |-> "active"]
    /\ compound \in [Compounds -> {NoCompound} \cup
          [here : {TRUE}, active : {TRUE}, by : Developers, in : Areas]]
    /\ projects = [d \in Developers |-> Running(d)]
    /\ unit = [u \in Units |-> NoUnit]
    /\ work = [p \in Clerks |-> NoWork] /\ edits = 0
    /\ unsure = {} /\ cut = {}

-----------------------------------------------------------------------------
Data    == <<parent, projects, compound, unit>>
Stage(p, stage) == work[p].at = stage
Moves(p, stage) == work' = [work EXCEPT ![p].at = stage]
Ends(p)         == work' = [work EXCEPT ![p] = NoWork]
\* A request that may still have counts to bring up to date leaves them unsure.
Throws(p)       == Ends(p) /\ unsure' = unsure \cup {work[p].due[i] : i \in DOMAIN work[p].due}

Begins(p, j) ==
    /\ Stage(p, "idle") /\ edits < MaxEdits
    /\ edits' = edits + 1
    /\ work' = [work EXCEPT ![p] = j]
    /\ UNCHANGED <<Data, unsure, cut>>

CreateCompound(p, c, by, in, active) ==
    /\ ~compound[c].here
    /\ Begins(p, [NoWork EXCEPT !.at = "relations", !.id = c, !.new = TRUE, !.by = by,
                               !.in = in, !.active = active])

\* update and remove read the compound first, and answer 404 if there is none.
UpdateCompound(p, c, dto) ==
    /\ compound[c].here
    /\ Begins(p, [NoWork EXCEPT !.at = "relations", !.id = c, !.by = dto.by, !.in = dto.in,
                                !.active = dto.active, !.was = compound[c].by])

RemoveCompound(p, c) ==
    /\ compound[c].here
    /\ Begins(p, [NoWork EXCEPT !.at = "links", !.id = c, !.was = compound[c].by])

\* assertRelationsExist, for what the request names.
CheckRelations(p) ==
    /\ Stage(p, "relations")
    /\ \/ /\ \A x \in {work[p].by, work[p].in} \ {Blank} : parent[x] # "none"
          /\ Moves(p, "write")
       \/ /\ \E x \in {work[p].by, work[p].in} \ {Blank} : parent[x] = "none"
          /\ Ends(p)
    /\ UNCHANGED <<Data, edits, unsure, cut>>

Named(value, otherwise) == IF value = Blank THEN otherwise ELSE value
Patched(c, j) == [here |-> TRUE, by |-> Named(j.by, c.by), in |-> Named(j.in, c.in),
                  active |-> Named(j.active, c.active)]

\* Mutant: a compound that moves is counted for its new developer only.
SyncedNew(j) == <<Named(j.by, j.was)>>

\* For a compound that moves, the new developer and then the one that was read.
Synced(j) == IF j.by # Blank /\ j.was \notin {Blank, j.by} THEN <<j.by, j.was>>
             ELSE <<Named(j.by, j.was)>>

\* A compound is now as given: counts under way for its developers are late.
PutCompound(p, c, d, next) ==
    LET touched == {compound[c].by, d.by} \ {Blank}
    IN  /\ compound' = [compound EXCEPT ![c] = d]
        /\ work' = [q \in Clerks |-> IF q = p THEN next
                      ELSE IF Stage(q, "put") /\ Head(work[q].due) \in touched
                           THEN [work[q] EXCEPT !.late = TRUE] ELSE work[q]]
        \* The compound had moved since it was read.
        /\ unsure' = unsure \cup ({compound[c].by} \ {next.was})

\* The insert or the transaction, which throw if the compound or a parent is gone.
WriteCompound(p) ==
    /\ Stage(p, "write") /\ work[p].id \in Compounds
    /\ LET j == work[p]
           d == Patched(compound[j.id], j)
       IN  IF /\ compound[j.id].here # j.new
              /\ parent[d.by] # "none" /\ parent[d.in] # "none"
           THEN PutCompound(p, j.id, d, [j EXCEPT !.at = "count", !.due = Synced(j)])
           ELSE Ends(p) /\ UNCHANGED <<compound, unsure>>
    /\ UNCHANGED <<parent, projects, unit, edits, cut>>

\* syncProjectsCount: the count, and the number written.
CountProjects(p) ==
    /\ Stage(p, "count")
    /\ work' = [work EXCEPT ![p].at = "put", ![p].n = Running(Head(work[p].due)), ![p].late = FALSE]
    /\ UNCHANGED <<Data, edits, unsure, cut>>

PutProjects(p) ==
    /\ Stage(p, "put")
    /\ LET d == Head(work[p].due)
           rest == Tail(work[p].due)
       IN  IF parent[d] = "none"
           THEN Throws(p) /\ UNCHANGED projects
           ELSE /\ projects' = [projects EXCEPT ![d] = work[p].n]
                /\ unsure' = IF work[p].late THEN unsure \cup {d} ELSE unsure \ {d}
                /\ IF rest = <<>> THEN Ends(p)
                   ELSE work' = [work EXCEPT ![p].at = "count", ![p].due = rest]
    /\ UNCHANGED <<parent, compound, unit, edits, cut>>

-----------------------------------------------------------------------------
(* remove, of a compound, a developer or an area: is anything linked, then one write *)

CreateParent(p, x) ==
    /\ parent[x] = "none"
    /\ Begins(p, [NoWork EXCEPT !.at = "write", !.id = x, !.new = TRUE, !.active = TRUE])
UpdateParent(p, x, active) ==
    /\ parent[x] # "none"
    /\ Begins(p, [NoWork EXCEPT !.at = "write", !.id = x, !.active = active])
RemoveParent(p, x) ==
    /\ parent[x] # "none"
    /\ Begins(p, [NoWork EXCEPT !.at = "links", !.id = x])

WriteParent(p) ==
    /\ Stage(p, "write") /\ work[p].id \in Parents
    /\ parent' = IF (parent[work[p].id] = "none") = work[p].new
                 THEN [parent EXCEPT ![work[p].id] = IF work[p].active THEN "active" ELSE "inactive"]
                 ELSE parent
    /\ projects' = IF work[p].new /\ parent[work[p].id] = "none" /\ work[p].id \in Developers
                   THEN [projects EXCEPT ![work[p].id] = 0] ELSE projects
    /\ unsure' = unsure \ IF work[p].new /\ parent[work[p].id] = "none" THEN {work[p].id} ELSE {}
    /\ Ends(p)
    /\ UNCHANGED <<compound, unit, edits, cut>>

CompoundsOf(x) == {c \in Compounds : compound[c].here /\ x \in {compound[c].by, compound[c].in}}

LinkedTo(x) == IF x \in Compounds THEN LivesIn(x) ELSE CompoundsOf(x)

CountLinks(p) ==
    /\ Stage(p, "links")
    /\ work' = [work EXCEPT ![p].at = "remove", ![p].linked = LinkedTo(work[p].id) # {}]
    /\ UNCHANGED <<Data, edits, unsure, cut>>

\* A developer or an area with compounds is not deleted: Restrict.
RemoveWhat(p) ==
    /\ Stage(p, "remove") /\ work[p].id \in Parents
    /\ LET x == work[p].id
       IN  parent' = IF work[p].linked
                     THEN IF parent[x] = "none" THEN parent ELSE [parent EXCEPT ![x] = "inactive"]
                     ELSE IF CompoundsOf(x) = {} THEN [parent EXCEPT ![x] = "none"] ELSE parent
    /\ Ends(p)
    /\ UNCHANGED <<projects, compound, unit, edits, unsure, cut>>

\* The listings of a compound that is deleted point at none: SetNull.
RemoveListed(p) ==
    /\ Stage(p, "remove") /\ work[p].id \in Compounds
    /\ LET c == work[p].id
           next == [work[p] EXCEPT !.at = "count", !.due = <<work[p].was>>]
       IN  IF ~compound[c].here THEN Ends(p) /\ UNCHANGED <<compound, unit, unsure, cut>>
           ELSE IF work[p].linked
           THEN /\ PutCompound(p, c, [compound[c] EXCEPT !.active = FALSE], next)
                /\ UNCHANGED <<unit, cut>>
           ELSE /\ PutCompound(p, c, NoCompound, next)
                /\ unit' = [u \in Units |-> IF unit[u].compound = c
                               THEN [unit[u] EXCEPT !.compound = Blank] ELSE unit[u]]
                /\ cut' = cut \cup IF work[p].late THEN LivesIn(c) ELSE {}
    /\ UNCHANGED <<parent, projects, edits>>

-----------------------------------------------------------------------------
(* Listings, of which the compound is looked up first *)

CreateUnit(p, u, c) ==
    /\ unit[u] = NoUnit /\ u \notin cut /\ \A q \in Clerks : work[q].id # u
    /\ Begins(p, [NoWork EXCEPT !.at = "find", !.id = u, !.new = TRUE, !.home = c])
MoveUnit(p, u, c) ==
    /\ unit[u].live /\ unit[u].compound # c
    /\ Begins(p, [NoWork EXCEPT !.at = "find", !.id = u, !.home = c])

FindCompound(p) ==
    /\ Stage(p, "find")
    /\ IF compound[work[p].home].here THEN Moves(p, "insert") ELSE Ends(p)
    /\ UNCHANGED <<Data, edits, unsure, cut>>

\* The foreign key refuses a compound that is gone.
WriteUnit(p) ==
    /\ Stage(p, "insert")
    /\ LET u == work[p].id
           c == work[p].home
       IN  IF compound[c].here /\ (unit[u].live \/ work[p].new)
           THEN /\ unit' = [unit EXCEPT ![u] = [live |-> TRUE, compound |-> c]]
                /\ cut' = cut \ {u}
                /\ work' = [q \in Clerks |-> IF q = p THEN NoWork
                              ELSE IF Stage(q, "remove") /\ work[q].id = c
                                   THEN [work[q] EXCEPT !.late = TRUE] ELSE work[q]]
           ELSE Ends(p) /\ UNCHANGED <<unit, cut>>
    /\ UNCHANGED <<parent, projects, compound, edits, unsure>>

RemoveUnit(u) ==
    /\ unit[u].live /\ edits < MaxEdits /\ edits' = edits + 1
    /\ unit' = [unit EXCEPT ![u].live = FALSE]
    /\ UNCHANGED <<parent, projects, compound, work, unsure, cut>>

\* A request that fails before it has written is as if it had not been made.
FailEdit(p) ==
    /\ EditsMayFail /\ work[p].due # <<>>
    /\ Throws(p)
    /\ UNCHANGED <<Data, edits, cut>>

CatalogueNext ==
    \/ \E p \in Clerks :
          \/ \E c \in Compounds :
                \/ \E d \in Developers, a \in Areas, active \in BOOLEAN :
                      CreateCompound(p, c, d, a, active)
                \/ \E dto \in Patches : UpdateCompound(p, c, dto)
                \/ RemoveCompound(p, c)
                \/ \E u \in Units : CreateUnit(p, u, c) \/ MoveUnit(p, u, c)
          \/ \E x \in Parents : \/ CreateParent(p, x) \/ RemoveParent(p, x)
                                \/ \E active \in BOOLEAN : UpdateParent(p, x, active)
          \/ CheckRelations(p) \/ WriteCompound(p) \/ CountProjects(p) \/ PutProjects(p)
          \/ WriteParent(p) \/ CountLinks(p) \/ RemoveWhat(p) \/ RemoveListed(p)
          \/ FindCompound(p) \/ WriteUnit(p) \/ FailEdit(p)
    \/ \E u \in Units : RemoveUnit(u)

CatalogueSpec == CatalogueInit /\ [][CatalogueNext]_catalogueVars
-----------------------------------------------------------------------------
(* What the catalogue promises *)

\* A developer's projectsCount is the number of its active compounds, however compounds
\* move between developers, are switched off and removed, and though requests overlap:
\* it may be off only while a count is still due, or after a request that failed between
\* a compound's write and its count, counted before another's write and wrote after the
\* other's count, or moved a compound from a developer it had not read.
ProjectsCounted ==
    \A d \in Developers : parent[d] # "none" /\ d \notin unsure =>
        \/ projects[d] = Running(d)
        \/ \E p \in Clerks : d \in {work[p].due[i] : i \in DOMAIN work[p].due}

\* "Deactivate so the catalogue stays consistent": a live listing keeps a compound that
\* exists, though the compound is removed; only one that is written between the removal's
\* count and its delete loses it.
ListingsKeepCompound ==
    \A u \in Units : unit[u].live /\ u \notin cut => unit[u].compound # Blank

\* What the catalogue promises of itself: counts that follow, links that last.
CatalogueHolds == ProjectsCounted /\ ListingsKeepCompound
=============================================================================
