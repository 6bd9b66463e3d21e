---------------------------- MODULE SearchProofs ----------------------------
(***************************************************************************)
(* Of SearchIndex: that one index stands behind the alias, that a listing  *)
(* readers can find stays findable, and that an undisturbed run heals the  *)
(* index.  Of SearchQuery: that what its cache keeps is what the index     *)
(* answers, and that the parts of an answer fit together.                  *)
(***************************************************************************)
EXTENDS SearchIndex, SearchQuery, FiniteSetTheorems, FunctionTheorems, TLAPS

\* SearchIndex: one rebuild at a time fills the next version behind readers.

USE SearchAssumption

-----------------------------------------------------------------------------
(* The indices and the jobs: what each may be, and where a run writes *)

IndexType == [Indices -> [Listings -> Entry \cup {NoEntry}]]

JobFits(j) ==
    /\ j.at = "idle" => j.kind = "none"
    /\ j.at = "fetch" => j.kind = "index"
    /\ j.at = "resolve" => j.kind \in {"index", "delete"}
    /\ j.at = "put" => j.kind = "index"
    /\ j.at = "erase" => j.kind = "delete"
    /\ j.at \in {"count", "target", "read", "bulk"} => j.kind \in {"full", "rebuild"}
    /\ j.at \in {"create", "swap", "drop"} => j.kind = "rebuild"
    /\ j.at = "prune" => j.kind = "full"
    /\ j.at \in {"fetch", "resolve", "put", "erase", "bulk"} => j.lst \in Listings
    /\ j.at \in {"put", "bulk"} \/ (j.at = "resolve" /\ j.kind = "index") =>
          j.doc \in Listing /\ j.doc.live
    /\ j.at \in {"put", "erase", "create", "read", "bulk", "prune", "swap", "drop"} =>
          j.target \in Indices

\* A run behind readers' backs writes to the next version, all others to the one readers
\* have, or had.
Placed(j, behind, held) ==
    /\ j.at \in {"put", "erase", "read", "bulk", "prune"} /\ j.kind # "rebuild" =>
          \A a \in behind : j.target <= a
    /\ j.at \in {"create", "read", "bulk", "swap"} /\ j.kind = "rebuild" =>
          \A a \in behind : j.target = a + 1
    /\ j.at \in {"read", "bulk", "swap"} /\ j.kind = "rebuild" => j.target \in held
    /\ j.at = "drop" => behind = {j.target} /\ j.target \notin j.old

OneBehind  == \E a \in exists : alias = {a}
OneRebuild == \A w, x \in Workers : job[w].kind = "rebuild" /\ job[x].kind = "rebuild" => w = x
Types ==
    /\ source \in [Listings -> Listing \cup {NoSource}]
    /\ exists \subseteq Indices
    /\ index \in IndexType
    /\ mail \subseteq Call
    /\ job \in [Workers -> Job]
    /\ events \in 0..MaxEvents

Indexing ==
    /\ Types /\ OneBehind /\ OneRebuild
    /\ \A w \in Workers : JobFits(job[w]) /\ Placed(job[w], alias, exists)

LEMMA NoJobTyped ==
    /\ NoJob \in Job /\ JobFits(NoJob) /\ NoJob.at = "idle" /\ NoJob.kind = "none"
    /\ NoJob.quiet = FALSE /\ NoJob.after = {}
BY DEF NoJob, Job, JobFits

LEMMA NoEntryTyped ==
    /\ NoEntry.v = -1 /\ NoEntry.after = {} /\ NoSource.v = -1 /\ NoSource.live = FALSE
    /\ \A e \in Entry \cup {NoEntry} : e # NoEntry <=> e.v # -1
BY DEF Entry, NoEntry, NoSource, Versions

LEMMA InitIndexing == SearchInit => Indexing
<1>. SUFFICES ASSUME SearchInit PROVE Indexing
  OBVIOUS
<1>1. 1 \in Indices /\ 0 \in Versions
  BY DEF Indices, Versions
<1>2. source \in [Listings -> Listing \cup {NoSource}]
  BY <1>1 DEF SearchInit, Listing
<1>3. index \in IndexType
  <2>1. [v |-> 0, after |-> {}] \in Entry
    BY <1>1 DEF Entry
  <2>2. QED BY <2>1 DEF SearchInit, IndexType
<1>4. \A w \in Workers : job[w] = NoJob
  BY DEF SearchInit
<1>5. job \in [Workers -> Job]
  BY NoJobTyped DEF SearchInit
<1>6. \A w \in Workers : JobFits(job[w]) /\ Placed(job[w], alias, exists) /\ job[w].kind = "none"
  BY <1>4, NoJobTyped DEF Placed
<1>7. QED BY <1>1, <1>2, <1>3, <1>5, <1>6 DEF SearchInit, Indexing, Types, OneBehind, OneRebuild

LEMMA HeadOf ==
    ASSUME NEW a \in Int, alias = {a}
    PROVE  write_index = a
<1>1. \E i \in alias : \A j \in alias : i <= j
  OBVIOUS
<1>2. Smallest(alias) \in alias
  BY <1>1 DEF Smallest
<1>3. QED BY <1>2 DEF write_index

LEMMA Behind ==
    ASSUME Indexing
    PROVE  /\ write_index \in exists /\ write_index \in Indices /\ alias = {write_index}
<1>1. PICK a \in exists : alias = {a}
  BY DEF Indexing, OneBehind
<1>2. a \in Indices /\ a \in Int
  BY <1>1 DEF Indexing, Types, Indices
<1>3. QED BY <1>1, <1>2, HeadOf

-----------------------------------------------------------------------------
(* What the others' steps leave of a job *)

Alike(j, k) ==
    /\ k.at = j.at /\ k.kind = j.kind /\ k.lst = j.lst /\ k.doc = j.doc /\ k.target = j.target
    /\ k.old = j.old /\ k.todo = j.todo /\ k.seed = j.seed /\ k.wrote = j.wrote
    /\ k.failed = j.failed /\ k.born = j.born
    /\ k.quiet => j.quiet
    /\ k.after \subseteq j.after

LEMMA AlikeFits ==
    ASSUME NEW j, NEW k, Alike(j, k), JobFits(j)
    PROVE  JobFits(k)
BY DEF Alike, JobFits

LEMMA FinishFacts ==
    ASSUME job \in [Workers -> Job], NEW w \in Workers, NEW ix \in IndexType, Finish(w, ix)
    PROVE  /\ job' \in [Workers -> Job] /\ job'[w] = NoJob
           /\ \A x \in Workers \ {w} : /\ Alike(job[x], job'[x]) /\ job'[x].quiet = job[x].quiet
                                       /\ job'[x].after = job[x].after \ {w}
           /\ index' \in IndexType
           /\ \A i \in Indices, l \in Listings : /\ index'[i][l].v = ix[i][l].v
                                                 /\ index'[i][l].after = ix[i][l].after \ {w}
                                                 /\ (index'[i][l] = NoEntry <=> ix[i][l] = NoEntry)
<1>1. job' = [x \in Workers |-> IF x = w THEN NoJob ELSE [job[x] EXCEPT !.after = @ \ {w}]]
  BY DEF Finish
<1>2. ASSUME NEW x \in Workers, x # w
      PROVE  /\ job'[x] \in Job /\ Alike(job[x], job'[x]) /\ job'[x].quiet = job[x].quiet
             /\ job'[x].after = job[x].after \ {w}
  <2>1. PICK s \in SUBSET Workers : s = job[x].after \ {w}
    BY DEF Job
  <2>2. PICK k : k = [job[x] EXCEPT !.after = s]
    OBVIOUS
  <2>3. job'[x] = k
    BY <1>1, <1>2, <2>1, <2>2
  <2>4. k \in Job /\ k.after = s
    BY <2>2 DEF Job
  <2>5. Alike(job[x], k) /\ k.quiet = job[x].quiet
    BY <2>1, <2>2 DEF Job, Alike
  <2>6. QED BY <2>1, <2>3, <2>4, <2>5
<1>3. job' \in [Workers -> Job] /\ job'[w] = NoJob
  BY <1>1, <1>2, NoJobTyped
<1>4. index' = [i \in Indices |-> [l \in Listings |-> [ix[i][l] EXCEPT !.after = @ \ {w}]]]
  BY DEF Finish, Unstamped
<1>5. ASSUME NEW i \in Indices, NEW l \in Listings
      PROVE  /\ index'[i][l] \in Entry \cup {NoEntry}
             /\ index'[i][l].v = ix[i][l].v
             /\ index'[i][l].after = ix[i][l].after \ {w}
             /\ (index'[i][l] = NoEntry <=> ix[i][l] = NoEntry)
  <2>1. PICK e \in Entry \cup {NoEntry} : e = ix[i][l]
    BY DEF IndexType
  <2>2. index'[i][l] = [e EXCEPT !.after = @ \ {w}]
    BY <1>4, <2>1
  <2>3. CASE e = NoEntry
    BY <2>1, <2>2, <2>3 DEF NoEntry
  <2>4. CASE e \in Entry
    <3>1. PICK s \in SUBSET Workers : s = e.after \ {w}
      BY <2>4 DEF Entry
    <3>2. PICK d : d = [e EXCEPT !.after = s]
      OBVIOUS
    <3>3. d \in Entry /\ d.v = e.v /\ d.after = s
      BY <2>4, <3>2 DEF Entry
    <3>4. d # NoEntry /\ e # NoEntry
      BY <2>4, <3>3, NoEntryTyped DEF Entry, Versions
    <3>5. index'[i][l] = d
      BY <2>2, <3>1, <3>2
    <3>6. QED BY <2>1, <3>1, <3>3, <3>4, <3>5
  <2>5. QED BY <2>3, <2>4
<1>6. index' \in IndexType
  BY <1>4, <1>5 DEF IndexType
<1>7. QED BY <1>2, <1>3, <1>5, <1>6

LEMMA BeginFacts ==
    ASSUME job \in [Workers -> Job], NEW w \in Workers, NEW j \in Job, Begin(w, j)
    PROVE  /\ job' \in [Workers -> Job] /\ job[w].at = "idle" /\ j.kind \in Kinds
           /\ \A x \in Workers \ {w} : /\ Alike(job[x], job'[x]) /\ job'[x].quiet = FALSE
                                       /\ job'[x].after = job[x].after
           /\ job'[w] = [j EXCEPT !.born = {l \in Listings : Live(l)},
                                  !.quiet = (mail = {} /\ \A x \in Workers : ~Busy(x))]
<1>0. job[w].at = "idle" /\ j.kind \in Kinds
  BY DEF Begin, Busy
<1>1. PICK calm \in BOOLEAN : calm = (mail = {} /\ \A x \in Workers : ~Busy(x))
  OBVIOUS
<1>2. PICK k : k = [j EXCEPT !.born = {l \in Listings : Live(l)}, !.quiet = calm]
  OBVIOUS
<1>3. k \in Job
  BY <1>2 DEF Job
<1>4. job' = [x \in Workers |-> IF x = w THEN k ELSE [job[x] EXCEPT !.quiet = FALSE]]
  BY <1>1, <1>2 DEF Begin, Disturbed
<1>5. ASSUME NEW x \in Workers, x # w
      PROVE  /\ job'[x] \in Job /\ Alike(job[x], job'[x]) /\ job'[x].quiet = FALSE
             /\ job'[x].after = job[x].after
  <2>1. job'[x] = [job[x] EXCEPT !.quiet = FALSE]
    BY <1>4, <1>5
  <2>2. PICK y \in Job : y = job[x]
    OBVIOUS
  <2>3. PICK z : z = [y EXCEPT !.quiet = FALSE]
    OBVIOUS
  <2>4. z \in Job
    BY <2>3 DEF Job
  <2>5. Alike(y, z) /\ z.quiet = FALSE /\ z.after = y.after
    BY <2>3 DEF Job, Alike
  <2>6. QED BY <2>1, <2>2, <2>3, <2>4, <2>5
<1>6. job'[w] = k /\ job' \in [Workers -> Job]
  BY <1>3, <1>4, <1>5
<1>7. QED BY <1>0, <1>1, <1>2, <1>5, <1>6

\* A step that leaves the alias alone, and that lets its own job fit.
LEMMA JobMoves ==
    ASSUME Indexing, NEW w \in Workers, job' \in [Workers -> Job],
           \A x \in Workers \ {w} : Alike(job[x], job'[x]),
           JobFits(job'[w]), Placed(job'[w], alias', exists'),
           job'[w].kind = "rebuild" =>
               job[w].kind = "rebuild" \/ \A x \in Workers \ {w} : job[x].kind # "rebuild",
           alias' = alias, exists \subseteq exists', exists' \subseteq Indices, index' \in IndexType,
           source' = source, mail' \subseteq Call, events' \in 0..MaxEvents
    PROVE  Indexing'
<1>1. Types' /\ OneBehind'
  BY DEF Indexing, Types, OneBehind
<1>2. ASSUME NEW x \in Workers, x # w PROVE JobFits(job'[x]) /\ Placed(job'[x], alias', exists')
  <2>1. JobFits(job[x]) /\ Placed(job[x], alias, exists) /\ Alike(job[x], job'[x])
    BY <1>2 DEF Indexing
  <2>2. JobFits(job'[x])
    BY <2>1, AlikeFits
  <2>3. QED BY <2>1, <2>2 DEF Placed, Alike
<1>3. \A x \in Workers \ {w} : job'[x].kind = job[x].kind
  BY DEF Alike
<1>4. OneRebuild'
  BY <1>3 DEF Indexing, OneRebuild
<1>5. QED BY <1>1, <1>2, <1>4 DEF Indexing

\* A job that changes under its own hands only.
LEMMA JobSteps ==
    ASSUME Indexing, NEW w \in Workers, NEW k \in Job, job' = [job EXCEPT ![w] = k],
           JobFits(k), Placed(k, alias', exists'), k.kind = job[w].kind,
           alias' = alias, exists \subseteq exists', exists' \subseteq Indices, index' \in IndexType,
           UNCHANGED <<source, mail, events>>
    PROVE  Indexing'
<1>1. job \in [Workers -> Job] /\ mail \subseteq Call /\ events \in 0..MaxEvents
  BY DEF Indexing, Types
<1>2. job' \in [Workers -> Job] /\ job'[w] = k /\ \A x \in Workers \ {w} : job'[x] = job[x]
  BY <1>1
<1>3. \A x \in Workers \ {w} : Alike(job[x], job'[x])
  BY <1>2 DEF Alike
<1>4. Placed(job'[w], alias', exists')
  BY <1>2 DEF Placed
<1>5. QED BY <1>1, <1>2, <1>3, <1>4, JobMoves

\* A job that ends.
LEMMA JobEnds ==
    ASSUME Indexing, NEW w \in Workers, NEW ix \in IndexType, Finish(w, ix),
           alias' = alias, exists \subseteq exists', exists' \subseteq Indices,
           UNCHANGED <<source, mail, events>>
    PROVE  Indexing'
<1>1. job \in [Workers -> Job] /\ mail \subseteq Call /\ events \in 0..MaxEvents
  BY DEF Indexing, Types
<1>2. /\ job' \in [Workers -> Job] /\ job'[w] = NoJob /\ index' \in IndexType
      /\ \A x \in Workers \ {w} : Alike(job[x], job'[x])
  BY <1>1, FinishFacts
<1>3. JobFits(job'[w]) /\ Placed(job'[w], alias', exists') /\ job'[w].kind = "none"
  BY <1>2, NoJobTyped DEF Placed
<1>4. QED BY <1>1, <1>2, <1>3, JobMoves

\* A job that begins.
LEMMA JobBegins ==
    ASSUME Indexing, NEW w \in Workers, NEW j \in Job, Begin(w, j), JobFits(j),
           j.at \in {"fetch", "resolve", "count"},
           j.kind = "rebuild" => \A x \in Workers : job[x].kind # "rebuild",
           UNCHANGED <<source, exists, index, alias>>, mail' \subseteq Call, events' \in 0..MaxEvents
    PROVE  Indexing'
<1>1. job \in [Workers -> Job] /\ exists \subseteq Indices /\ index \in IndexType
  BY DEF Indexing, Types
<1>2. PICK calm : calm = (mail = {} /\ \A x \in Workers : ~Busy(x))
  OBVIOUS
<1>3. PICK born : born = {l \in Listings : Live(l)}
  OBVIOUS
<1>4. PICK k : k = [j EXCEPT !.born = born, !.quiet = calm]
  OBVIOUS
<1>5. /\ job' \in [Workers -> Job] /\ job'[w] = k
      /\ \A x \in Workers \ {w} : Alike(job[x], job'[x])
  BY <1>1, <1>2, <1>3, <1>4, BeginFacts
<1>6. k.at = j.at /\ k.kind = j.kind /\ k.lst = j.lst /\ k.doc = j.doc /\ k.target = j.target
  BY <1>4 DEF Job
<1>7. JobFits(k) /\ k.at \in {"fetch", "resolve", "count"}
  BY <1>6 DEF JobFits
<1>8. JobFits(job'[w]) /\ Placed(job'[w], alias', exists') /\ job'[w].kind = j.kind
  BY <1>5, <1>6, <1>7 DEF Placed
<1>9. QED BY <1>1, <1>5, <1>8, JobMoves

\* What is known of a job at work, and a way to change it.
LEMMA JobFacts ==
    ASSUME Indexing, NEW w \in Workers
    PROVE  /\ job[w] \in Job /\ JobFits(job[w]) /\ Placed(job[w], alias, exists)
           /\ job = [x \in Workers |-> job[x]] /\ index \in IndexType /\ exists \subseteq Indices
           /\ source \in [Listings -> Listing \cup {NoSource}] /\ mail \subseteq Call
           /\ events \in 0..MaxEvents
BY DEF Indexing, Types

LEMMA StoredTyped ==
    ASSUME index \in IndexType, NEW i \in Indices, NEW l \in Listings, NEW e \in Entry \cup {NoEntry}
    PROVE  /\ Stored(i, l, e) \in IndexType
           /\ \A k \in Indices, m \in Listings :
                 Stored(i, l, e)[k][m] = IF k = i /\ m = l THEN e ELSE index[k][m]
BY DEF Stored, IndexType

LEMMA WriteSourceIndexes ==
    ASSUME Indexing, NEW l \in Listings, CreateListing(l) \/ UpdateListing(l) \/ RemoveListing(l)
    PROVE  Indexing'
<1>1. Types
  BY DEF Indexing
<1>2. PICK d \in Listing, call \in {"index", "delete"} : WriteSource(l, d, call)
  <2>1. CASE CreateListing(l)
    <3>1. [v |-> 0, live |-> TRUE] \in Listing
      BY DEF Listing, Versions
    <3>2. QED BY <2>1, <3>1 DEF CreateListing
  <2>2. CASE UpdateListing(l)
    <3>1. source[l] \in Listing
      BY <1>1, <2>2, NoEntryTyped DEF Types, UpdateListing, Live
    <3>2. source[l].v + 1 \in Versions
      BY <2>2, <3>1 DEF UpdateListing, Listing, Versions
    <3>3. [v |-> source[l].v + 1, live |-> TRUE] \in Listing
      BY <3>2 DEF Listing
    <3>4. QED BY <2>2, <3>3 DEF UpdateListing
  <2>3. CASE RemoveListing(l)
    <3>1. source[l] \in Listing
      BY <1>1, <2>3, NoEntryTyped DEF Types, RemoveListing, Live
    <3>2. [source[l] EXCEPT !.live = FALSE] \in Listing
      BY <3>1 DEF Listing
    <3>3. QED BY <2>3, <3>2 DEF RemoveListing
  <2>4. QED BY <2>1, <2>2, <2>3
<1>3. source' \in [Listings -> Listing \cup {NoSource}]
  BY <1>1, <1>2 DEF WriteSource, Types
<1>4. mail' \subseteq Call
  BY <1>1, <1>2 DEF WriteSource, Types, Call
<1>5. events' \in 0..MaxEvents
  BY <1>1, <1>2 DEF WriteSource, Happens, Types
<1>6. \A x \in Workers : job'[x] = [job[x] EXCEPT !.quiet = FALSE]
  BY <1>2 DEF WriteSource, Disturbed
<1>7. \A x \in Workers : job'[x] \in Job /\ Alike(job[x], job'[x])
  <2>. SUFFICES ASSUME NEW x \in Workers PROVE job'[x] \in Job /\ Alike(job[x], job'[x])
    OBVIOUS
  <2>1. PICK y \in Job : y = job[x]
    BY <1>1 DEF Types
  <2>2. PICK z : z = [y EXCEPT !.quiet = FALSE]
    OBVIOUS
  <2>3. z \in Job
    BY <2>2 DEF Job
  <2>4. Alike(y, z)
    BY <2>2 DEF Job, Alike
  <2>5. QED BY <1>6, <2>1, <2>2, <2>3, <2>4
<1>8. job' = [x \in Workers |-> job'[x]]
  BY <1>2 DEF WriteSource, Disturbed
<1>9. job' \in [Workers -> Job]
  BY <1>7, <1>8
<1>10. UNCHANGED <<exists, index, alias>>
  BY <1>2 DEF WriteSource
<1>11. \A x \in Workers : JobFits(job'[x]) /\ Placed(job'[x], alias', exists')
  <2>. SUFFICES ASSUME NEW x \in Workers PROVE JobFits(job'[x]) /\ Placed(job'[x], alias', exists')
    OBVIOUS
  <2>1. JobFits(job[x]) /\ Placed(job[x], alias, exists) /\ Alike(job[x], job'[x])
    BY <1>7 DEF Indexing
  <2>2. JobFits(job'[x])
    BY <2>1, AlikeFits
  <2>3. QED BY <1>10, <2>1, <2>2 DEF Placed, Alike
<1>12. OneRebuild'
  BY <1>7 DEF Indexing, OneRebuild, Alike
<1>13. OneBehind'
  BY <1>10 DEF Indexing, OneBehind
<1>14. Types'
  BY <1>1, <1>3, <1>4, <1>5, <1>9, <1>10 DEF Types
<1>15. QED BY <1>11, <1>12, <1>13, <1>14 DEF Indexing

LEMMA MailIndexes ==
    ASSUME Indexing, NEW m \in mail, Lose(m) \/ \E w \in Workers : Deliver(w, m)
    PROVE  Indexing'
<1>1. m \in Call /\ mail \subseteq Call /\ events \in 0..MaxEvents
  BY DEF Indexing, Types
<1>2. CASE Lose(m)
  <2>1. mail' \subseteq Call /\ UNCHANGED <<source, exists, index, alias, job, events>>
    BY <1>1, <1>2 DEF Lose
  <2>2. QED BY <2>1 DEF Indexing, Types, OneBehind, OneRebuild
<1>3. ASSUME NEW w \in Workers, Deliver(w, m) PROVE Indexing'
  <2>1. PICK at \in {"fetch", "resolve"} : at = IF m.kind = "index" THEN "fetch" ELSE "resolve"
    OBVIOUS
  <2>2. m.kind \in {"index", "delete"} /\ m.lst \in Listings
    BY <1>1 DEF Call
  <2>3. PICK j : j = [NoJob EXCEPT !.at = at, !.kind = m.kind, !.ident = "uuid", !.lst = m.lst]
    OBVIOUS
  <2>4. j \in Job /\ j.at = at /\ j.kind = m.kind /\ j.lst = m.lst
    BY <2>1, <2>2, <2>3, NoJobTyped DEF Job, AllKinds
  <2>5. j.at = "fetch" => j.kind = "index"
    BY <2>1, <2>4
  <2>5a. at = "resolve" => j.kind = "delete"
    BY <2>1, <2>2, <2>4
  <2>6. JobFits(j)
    BY <2>1, <2>2, <2>4, <2>5, <2>5a DEF JobFits
  <2>7. Begin(w, j) /\ mail' = mail \ {m} /\ UNCHANGED <<source, exists, index, alias, events>>
    BY <1>3, <2>1, <2>3 DEF Deliver
  <2>8. mail' \subseteq Call
    BY <1>1, <2>7
  <2>9. QED BY <1>1, <2>1, <2>2, <2>4, <2>6, <2>7, <2>8, JobBegins
<1>4. QED BY <1>2, <1>3

LEMMA AskIndexes ==
    ASSUME ~RebuildsOverlap, Indexing, NEW w \in Workers, NEW kind \in AllKinds, NEW l \in Listings,
           NEW ident \in Idents, Ask(w, kind, l, ident)
    PROVE  Indexing'
<1>1. mail' = mail /\ mail \subseteq Call /\ events' \in 0..MaxEvents
  BY DEF Indexing, Types, Ask, Happens
<1>2. PICK at \in {"fetch", "count"} : at = IF kind = "index" THEN "fetch" ELSE "count"
  OBVIOUS
<1>3. PICK id \in {"uuid", "slug", "none"} : id = IF kind = "index" THEN ident ELSE "none"
  OBVIOUS
<1>4. PICK lst \in Listings \cup {None} : lst = IF kind = "index" THEN l ELSE None
  OBVIOUS
<1>5. PICK j : j = [NoJob EXCEPT !.at = at, !.kind = kind, !.ident = id, !.lst = lst]
  OBVIOUS
<1>6. j \in Job /\ j.at = at /\ j.kind = kind /\ j.lst = lst
  <2>1. NoJob \in Job
    BY NoJobTyped
  <2>2. [NoJob EXCEPT !.at = at, !.kind = kind] \in Job
    BY <2>1 DEF Job
  <2>3. j = [[NoJob EXCEPT !.at = at, !.kind = kind] EXCEPT !.ident = id, !.lst = lst]
    BY ONLY <1>5
  <2>4. j \in Job
    BY ONLY <2>2, <2>3 DEF Job
  <2>5. j.at = at /\ j.kind = kind /\ j.lst = lst
    BY ONLY <2>1, <1>5 DEF Job
  <2>6. QED BY <2>4, <2>5
<1>7. kind \in {"index", "full", "rebuild"}
  BY DEF Ask, AllKinds
<1>8. at = "fetch" => kind = "index" /\ lst \in Listings
  BY <1>2, <1>4
<1>9. at = "count" => kind \in {"full", "rebuild"}
  BY <1>2, <1>7
<1>10. JobFits(j)
  BY <1>2, <1>6, <1>8, <1>9 DEF JobFits
<1>11. Begin(w, j) /\ UNCHANGED <<source, exists, index, alias>>
  BY <1>2, <1>3, <1>4, <1>5 DEF Ask
<1>12. kind = "rebuild" => \A x \in Workers : job[x].kind # "rebuild"
  BY DEF Ask
<1>13. QED BY <1>1, <1>2, <1>6, <1>10, <1>11, <1>12, JobBegins

LEMMA FetchIndexes ==
    ASSUME Indexing, NEW w \in Workers, Fetch(w)
    PROVE  Indexing'
<1>1. /\ job[w] \in Job /\ JobFits(job[w]) /\ index \in IndexType /\ exists \subseteq Indices
      /\ source \in [Listings -> Listing \cup {NoSource}] /\ job = [x \in Workers |-> job[x]]
  BY JobFacts
<1>2. UNCHANGED <<source, exists, alias, mail, events>> /\ job[w].at = "fetch"
  BY DEF Fetch
<1>3. job[w].kind = "index" /\ job[w].lst \in Listings
  BY <1>1, <1>2 DEF JobFits
<1>4. CASE Finish(w, index)
  BY <1>1, <1>2, <1>4, JobEnds
<1>5. ASSUME NEW doc \in Listing, doc.live,
             job' = [job EXCEPT ![w].doc = doc, ![w].at = "resolve"], UNCHANGED index
      PROVE  Indexing'
  <2>1. PICK k : k = [job[w] EXCEPT !.doc = doc, !.at = "resolve"]
    OBVIOUS
  <2>2. /\ k \in Job /\ k.at = "resolve" /\ k.kind = job[w].kind /\ k.lst = job[w].lst
        /\ k.doc = doc
    BY <1>1, <2>1 DEF Job
  <2>3. job' = [job EXCEPT ![w] = k]
    BY <1>1, <1>5, <2>1
  <2>4. JobFits(k)
    BY <1>3, <1>5, <2>2 DEF JobFits
  <2>5. Placed(k, alias', exists')
    BY <2>2 DEF Placed
  <2>6. QED BY <1>1, <1>2, <1>5, <2>2, <2>3, <2>4, <2>5, JobSteps
<1>6. \/ Finish(w, index)
      \/ \E doc \in Listing :
            doc.live /\ job' = [job EXCEPT ![w].doc = doc, ![w].at = "resolve"] /\ UNCHANGED index
  <2>1. Live(job[w].lst) => source[job[w].lst] \in Listing
    BY <1>1, <1>3, NoEntryTyped DEF Live
  <2>2. [v |-> 0, live |-> TRUE] \in Listing
    BY DEF Listing, Versions
  <2>3. QED BY <2>1, <2>2 DEF Fetch, Live
<1>7. QED BY <1>4, <1>5, <1>6

LEMMA ResolveIndexes ==
    ASSUME Indexing, NEW w \in Workers, Resolve(w)
    PROVE  Indexing'
<1>1. /\ job[w] \in Job /\ JobFits(job[w]) /\ index \in IndexType /\ exists \subseteq Indices
      /\ job = [x \in Workers |-> job[x]]
  BY JobFacts
<1>2. PICK at \in {"erase", "put"} : at = IF job[w].kind = "delete" THEN "erase" ELSE "put"
  OBVIOUS
<1>3. PICK target : target = write_index
  OBVIOUS
<1>4. PICK after \in SUBSET Workers : after = FullRuns
  BY DEF FullRuns
<1>5. PICK k : k = [job[w] EXCEPT !.target = target, !.after = after, !.at = at]
  OBVIOUS
<1>6. target \in Indices /\ alias = {target}
  BY <1>3, Behind
<1>7. /\ k \in Job /\ k.at = at /\ k.kind = job[w].kind /\ k.lst = job[w].lst /\ k.doc = job[w].doc
      /\ k.target = target
  BY <1>1, <1>2, <1>4, <1>5, <1>6 DEF Job
<1>8. job' = [job EXCEPT ![w] = k] /\ UNCHANGED <<source, exists, index, alias, mail, events>>
  BY <1>1, <1>2, <1>3, <1>4, <1>5 DEF Resolve
<1>9. job[w].at = "resolve"
  BY DEF Resolve
<1>10. JobFits(k)
  BY <1>1, <1>2, <1>6, <1>7, <1>9 DEF JobFits
<1>11. Placed(k, alias', exists')
  BY <1>2, <1>6, <1>7, <1>8 DEF Placed, Indices
<1>12. QED BY <1>1, <1>7, <1>8, <1>10, <1>11, JobSteps

LEMMA PutIndexes ==
    ASSUME Indexing, NEW w \in Workers, Put(w) \/ Erase(w)
    PROVE  Indexing'
<1>1. job[w] \in Job /\ JobFits(job[w]) /\ index \in IndexType /\ exists \subseteq Indices
  BY JobFacts
<1>2. CASE Put(w)
  <2>1. job[w].target \in Indices /\ job[w].lst \in Listings /\ job[w].doc \in Listing
    BY <1>1, <1>2 DEF JobFits, Put
  <2>2. PICK e : e = [v |-> job[w].doc.v, after |-> job[w].after]
    OBVIOUS
  <2>3. e \in Entry
    BY <1>1, <2>1, <2>2 DEF Entry, Listing, Job
  <2>4. Stored(job[w].target, job[w].lst, e) \in IndexType
    BY <1>1, <2>1, <2>3, StoredTyped
  <2>5. PICK ix \in IndexType : ix = Stored(job[w].target, job[w].lst, e)
    BY <2>4
  <2>6. Finish(w, ix) /\ exists' = exists \cup {job[w].target} /\ UNCHANGED <<source, alias, mail, events>>
    BY <1>2, <2>2, <2>5 DEF Put
  <2>7. exists \subseteq exists' /\ exists' \subseteq Indices
    BY <1>1, <2>1, <2>6
  <2>8. QED BY <2>6, <2>7, JobEnds
<1>3. CASE Erase(w)
  <2>1. job[w].target \in Indices /\ job[w].lst \in Listings
    BY <1>1, <1>3 DEF JobFits, Erase
  <2>2. PICK ix : ix = Stored(job[w].target, job[w].lst, NoEntry)
    OBVIOUS
  <2>3. ix \in IndexType
    BY <1>1, <2>1, <2>2, StoredTyped
  <2>4. Finish(w, ix) /\ UNCHANGED <<source, exists, alias, mail, events>>
    BY <1>3, <2>2 DEF Erase
  <2>5. QED BY <1>1, <2>3, <2>4, JobEnds
<1>4. QED BY <1>2, <1>3

LEMMA CountIndexes ==
    ASSUME Indexing, NEW w \in Workers, Count(w)
    PROVE  Indexing'
<1>1. /\ job[w] \in Job /\ JobFits(job[w]) /\ index \in IndexType /\ exists \subseteq Indices
      /\ job = [x \in Workers |-> job[x]]
  BY JobFacts
<1>2. PICK seed \in BOOLEAN : \E todo \in SUBSET Listings :
         job' = [job EXCEPT ![w].seed = seed, ![w].todo = todo, ![w].at = "target"]
  BY DEF Count
<1>3. PICK todo \in SUBSET Listings :
         job' = [job EXCEPT ![w].seed = seed, ![w].todo = todo, ![w].at = "target"]
  BY <1>2
<1>4. PICK k : k = [job[w] EXCEPT !.seed = seed, !.todo = todo, !.at = "target"]
  OBVIOUS
<1>5. k \in Job /\ k.at = "target" /\ k.kind = job[w].kind
  BY <1>1, <1>4 DEF Job
<1>6. job' = [job EXCEPT ![w] = k]
  BY <1>1, <1>3, <1>4
<1>7. JobFits(k) /\ Placed(k, alias', exists')
  BY <1>1, <1>5 DEF JobFits, Placed, Count
<1>8. UNCHANGED <<source, exists, index, alias, mail, events>>
  BY DEF Count
<1>9. QED BY <1>1, <1>5, <1>6, <1>7, <1>8, JobSteps

LEMMA TargetIndexes ==
    ASSUME Indexing, NEW w \in Workers, Target(w)
    PROVE  Indexing'
<1>1. /\ job[w] \in Job /\ JobFits(job[w]) /\ index \in IndexType /\ exists \subseteq Indices
      /\ job = [x \in Workers |-> job[x]]
  BY JobFacts
<1>2. PICK a : a = write_index
  OBVIOUS
<1>3. a \in Indices /\ alias = {a}
  BY <1>2, Behind
<1>4. PICK after \in SUBSET Workers : after = FullRuns
  BY DEF FullRuns
<1>5. job[w].at = "target" /\ UNCHANGED <<source, exists, index, alias, mail, events>>
  BY DEF Target
<1>6. PICK at \in {"read", "create"} : \E target \in Indices :
         /\ job' = [job EXCEPT ![w].target = target, ![w].after = after, ![w].at = at]
         /\ at = "read" => job[w].kind # "rebuild" /\ target = a
         /\ at = "create" => job[w].kind = "rebuild" /\ target = a + 1
  <2>1. CASE /\ job[w].kind # "rebuild"
             /\ job' = [job EXCEPT ![w].target = write_index, ![w].after = FullRuns, ![w].at = "read"]
    BY <1>2, <1>3, <1>4, <2>1
  <2>2. CASE /\ job[w].kind = "rebuild" /\ write_index < MaxIndex
             /\ job' = [job EXCEPT ![w].target = write_index + 1, ![w].after = FullRuns,
                                   ![w].at = "create"]
    <3>1. a + 1 \in Indices
      BY <1>2, <1>3, <2>2 DEF Indices
    <3>2. QED BY <1>2, <1>4, <2>2, <3>1
  <2>3. QED BY <2>1, <2>2 DEF Target
<1>7. PICK target \in Indices :
         /\ job' = [job EXCEPT ![w].target = target, ![w].after = after, ![w].at = at]
         /\ at = "read" => job[w].kind # "rebuild" /\ target = a
         /\ at = "create" => job[w].kind = "rebuild" /\ target = a + 1
  BY <1>6
<1>8. PICK k : k = [job[w] EXCEPT !.target = target, !.after = after, !.at = at]
  OBVIOUS
<1>9. k \in Job /\ k.at = at /\ k.kind = job[w].kind /\ k.target = target
  BY <1>1, <1>4, <1>6, <1>7, <1>8 DEF Job
<1>10. job' = [job EXCEPT ![w] = k]
  BY <1>1, <1>7, <1>8
<1>11. JobFits(k)
  BY <1>1, <1>5, <1>6, <1>7, <1>9 DEF JobFits
<1>12. Placed(k, alias', exists')
  BY <1>3, <1>5, <1>6, <1>7, <1>9 DEF Placed, Indices
<1>13. QED BY <1>1, <1>5, <1>9, <1>10, <1>11, <1>12, JobSteps

\* The version that is filled is never the one behind the alias.
LEMMA CreateTargetIndexes ==
    ASSUME Indexing, NEW w \in Workers, CreateTarget(w)
    PROVE  Indexing'
<1>1. /\ job[w] \in Job /\ JobFits(job[w]) /\ index \in IndexType /\ exists \subseteq Indices
      /\ job = [x \in Workers |-> job[x]] /\ Placed(job[w], alias, exists)
  BY JobFacts
<1>2. job[w].at = "create" /\ job[w].kind = "rebuild" /\ job[w].target \in Indices
  BY <1>1 DEF CreateTarget, JobFits
<1>3. PICK a \in Indices : alias = {a}
  BY Behind
<1>4. job[w].target = a + 1
  BY <1>1, <1>2, <1>3 DEF Placed
<1>5. alias' = alias /\ exists' = exists \cup {job[w].target} /\ UNCHANGED <<source, mail, events>>
  BY <1>3, <1>4 DEF CreateTarget, Indices
<1>6. index' \in IndexType
  <2>1. Empty \in [Listings -> Entry \cup {NoEntry}]
    BY DEF Empty
  <2>2. index' = [index EXCEPT ![job[w].target] = Empty]
    BY DEF CreateTarget
  <2>3. QED BY <1>1, <2>1, <2>2 DEF IndexType
<1>7. PICK k : k = [job[w] EXCEPT !.at = "read"]
  OBVIOUS
<1>8. k \in Job /\ k.at = "read" /\ k.kind = "rebuild" /\ k.target = job[w].target
  BY <1>1, <1>2, <1>7 DEF Job
<1>9. job' = [job EXCEPT ![w] = k]
  BY <1>1, <1>7 DEF CreateTarget, Go
<1>10. JobFits(k) /\ Placed(k, alias', exists')
  BY <1>2, <1>3, <1>4, <1>5, <1>8 DEF JobFits, Placed
<1>11. exists \subseteq exists' /\ exists' \subseteq Indices
  BY <1>1, <1>2, <1>5
<1>12. QED BY <1>1, <1>2, <1>5, <1>6, <1>8, <1>9, <1>10, <1>11, JobSteps

LEMMA ReadIndexes ==
    ASSUME Indexing, NEW w \in Workers, Read(w)
    PROVE  Indexing'
<1>1. /\ job[w] \in Job /\ JobFits(job[w]) /\ index \in IndexType /\ exists \subseteq Indices
      /\ job = [x \in Workers |-> job[x]] /\ Placed(job[w], alias, exists)
      /\ source \in [Listings -> Listing \cup {NoSource}]
  BY JobFacts
<1>2. job[w].at = "read" /\ UNCHANGED <<source, exists, index, alias, mail, events>>
  BY DEF Read
<1>3. job[w].kind \in {"full", "rebuild"} /\ job[w].target \in Indices
  BY <1>1, <1>2 DEF JobFits
<1>4. CASE job[w].todo = {} /\ Go(w, CASE job[w].kind = "rebuild" -> "swap" [] OTHER -> "prune")
  <2>1. PICK at \in {"swap", "prune"} : at = CASE job[w].kind = "rebuild" -> "swap" [] OTHER -> "prune"
    OBVIOUS
  <2>2. PICK k : k = [job[w] EXCEPT !.at = at]
    OBVIOUS
  <2>3. k \in Job /\ k.at = at /\ k.kind = job[w].kind /\ k.target = job[w].target
    BY <1>1, <2>1, <2>2 DEF Job
  <2>4. job' = [job EXCEPT ![w] = k]
    BY <1>1, <1>4, <2>1, <2>2 DEF Go
  <2>5. at = "swap" <=> job[w].kind = "rebuild"
    BY <2>1
  <2>6. JobFits(k)
    BY <1>3, <2>1, <2>3, <2>5 DEF JobFits
  <2>7. Placed(k, alias', exists')
    BY <1>1, <1>2, <2>1, <2>3, <2>5 DEF Placed
  <2>8. QED BY <1>1, <1>2, <2>3, <2>4, <2>6, <2>7, JobSteps
<1>5. ASSUME NEW l \in job[w].todo,
             NEW d, d = IF job[w].seed THEN [v |-> 0, live |-> TRUE] ELSE source[l],
             job' = [job EXCEPT ![w] = IF d.live
                            THEN [job[w] EXCEPT !.todo = @ \ {l}, !.at = "bulk", !.lst = l, !.doc = d]
                            ELSE [job[w] EXCEPT !.todo = @ \ {l}]]
      PROVE  Indexing'
  <2>1. PICK todo \in SUBSET Listings : todo = job[w].todo \ {l}
    BY <1>1 DEF Job
  <2>2. l \in Listings
    BY <1>1 DEF Job
  <2>3. d \in Listing \cup {NoSource}
    <3>1. [v |-> 0, live |-> TRUE] \in Listing
      BY DEF Listing, Versions
    <3>2. QED BY <1>1, <1>5, <2>2, <3>1
  <2>4. CASE d.live
    <3>1. PICK k : k = [job[w] EXCEPT !.todo = todo, !.at = "bulk", !.lst = l, !.doc = d]
      OBVIOUS
    <3>2. /\ k \in Job /\ k.at = "bulk" /\ k.kind = job[w].kind /\ k.target = job[w].target
          /\ k.lst = l /\ k.doc = d
      BY <1>1, <2>1, <2>2, <2>3, <3>1 DEF Job
    <3>3. job' = [job EXCEPT ![w] = k]
      BY <1>1, <1>5, <2>1, <2>4, <3>1
    <3>4. JobFits(k)
      BY <1>3, <2>2, <2>3, <2>4, <3>2, NoEntryTyped DEF JobFits
    <3>5. Placed(k, alias', exists')
      BY <1>1, <1>2, <3>2 DEF Placed
    <3>6. QED BY <1>1, <1>2, <3>2, <3>3, <3>4, <3>5, JobSteps
  <2>5. CASE ~d.live
    <3>1. PICK k : k = [job[w] EXCEPT !.todo = todo]
      OBVIOUS
    <3>2. k \in Job /\ k.at = job[w].at /\ k.kind = job[w].kind /\ k.target = job[w].target
      BY <1>1, <2>1, <3>1 DEF Job
    <3>3. job' = [job EXCEPT ![w] = k]
      BY <1>1, <1>5, <2>1, <2>5, <3>1
    <3>4. JobFits(k)
      BY <1>2, <1>3, <3>2 DEF JobFits
    <3>5. Placed(k, alias', exists')
      BY <1>1, <1>2, <3>2 DEF Placed
    <3>6. QED BY <1>1, <1>2, <3>2, <3>3, <3>4, <3>5, JobSteps
  <2>6. QED BY <2>4, <2>5
<1>6. QED BY <1>4, <1>5 DEF Read

LEMMA BulkIndexes ==
    ASSUME Indexing, NEW w \in Workers, Bulk(w)
    PROVE  Indexing'
<1>1. /\ job[w] \in Job /\ JobFits(job[w]) /\ index \in IndexType /\ exists \subseteq Indices
      /\ job = [x \in Workers |-> job[x]] /\ Placed(job[w], alias, exists)
  BY JobFacts
<1>2. job[w].at = "bulk" /\ UNCHANGED <<source, alias, mail, events>>
  BY DEF Bulk
<1>3. /\ job[w].kind \in {"full", "rebuild"} /\ job[w].target \in Indices /\ job[w].lst \in Listings
      /\ job[w].doc \in Listing
  BY <1>1, <1>2 DEF JobFits
<1>4. ASSUME NEW wrote \in SUBSET Listings, NEW failed \in BOOLEAN,
             NEW k, k = [job[w] EXCEPT !.at = "read", !.lst = None, !.doc = NoSource,
                                       !.wrote = wrote, !.failed = failed],
             job' = [job EXCEPT ![w] = k], index' \in IndexType,
             exists \subseteq exists', exists' \subseteq Indices
      PROVE  Indexing'
  <2>1. k \in Job /\ k.at = "read" /\ k.kind = job[w].kind /\ k.target = job[w].target
    BY <1>1, <1>4 DEF Job
  <2>2. JobFits(k)
    BY <1>3, <2>1 DEF JobFits
  <2>3. Placed(k, alias', exists')
    BY <1>1, <1>2, <1>4, <2>1 DEF Placed
  <2>4. QED BY <1>2, <1>4, <2>1, <2>2, <2>3, JobSteps
<1>5. CASE /\ index' = Stored(job[w].target, job[w].lst, [v |-> job[w].doc.v, after |-> job[w].after])
           /\ exists' = exists \cup {job[w].target}
           /\ job' = [job EXCEPT ![w] = [NextItem(job[w]) EXCEPT !.wrote = @ \cup {job[w].lst}]]
  <2>1. PICK wrote \in SUBSET Listings : wrote = job[w].wrote \cup {job[w].lst}
    BY <1>1, <1>3 DEF Job
  <2>2. PICK failed \in BOOLEAN : failed = job[w].failed
    BY <1>1 DEF Job
  <2>3. PICK k : k = [job[w] EXCEPT !.at = "read", !.lst = None, !.doc = NoSource, !.wrote = wrote,
                                    !.failed = failed]
    OBVIOUS
  <2>4. job' = [job EXCEPT ![w] = k]
    <3>1. PICK n : n = NextItem(job[w])
      OBVIOUS
    <3>2. job' = [job EXCEPT ![w] = [n EXCEPT !.wrote = @ \cup {job[w].lst}]]
      BY <1>1, <1>5, <3>1
    <3>3. [n EXCEPT !.wrote = @ \cup {job[w].lst}] = k
      BY <1>1, <2>1, <2>2, <2>3, <3>1 DEF NextItem, Job
    <3>4. QED BY <3>2, <3>3
  <2>5. [v |-> job[w].doc.v, after |-> job[w].after] \in Entry
    BY <1>1, <1>3 DEF Entry, Listing, Job
  <2>6. index' \in IndexType
    BY <1>1, <1>3, <1>5, <2>5, StoredTyped
  <2>7. exists \subseteq exists' /\ exists' \subseteq Indices
    BY <1>1, <1>3, <1>5
  <2>8. QED BY <1>4, <2>3, <2>4, <2>6, <2>7
<1>6. CASE /\ job' = [job EXCEPT ![w] = [NextItem(job[w]) EXCEPT !.failed = TRUE]]
           /\ UNCHANGED <<exists, index>>
  <2>1. PICK wrote \in SUBSET Listings : wrote = job[w].wrote
    BY <1>1 DEF Job
  <2>2. PICK k : k = [job[w] EXCEPT !.at = "read", !.lst = None, !.doc = NoSource, !.wrote = wrote,
                                    !.failed = TRUE]
    OBVIOUS
  <2>3. job' = [job EXCEPT ![w] = k]
    <3>1. PICK n : n = NextItem(job[w])
      OBVIOUS
    <3>2. job' = [job EXCEPT ![w] = [n EXCEPT !.failed = TRUE]]
      BY <1>1, <1>6, <3>1
    <3>3. [n EXCEPT !.failed = TRUE] = k
      BY <1>1, <2>1, <2>2, <3>1 DEF NextItem, Job
    <3>4. QED BY <3>2, <3>3
  <2>4. QED BY <1>1, <1>4, <1>6, <2>2, <2>3
<1>7. QED BY <1>5, <1>6 DEF Bulk

LEMMA PrunedTyped ==
    ASSUME index \in IndexType, NEW w \in Workers, NEW i \in Indices, NEW ix,
           ix = [index EXCEPT ![i] = [l \in Listings |-> IF w \in @[l].after THEN @[l] ELSE NoEntry]]
    PROVE  /\ ix \in IndexType
           /\ \A k \in Indices, l \in Listings :
                 ix[k][l] = IF k = i /\ w \notin index[i][l].after THEN NoEntry ELSE index[k][l]
BY DEF IndexType

LEMMA PruneIndexes ==
    ASSUME Indexing, NEW w \in Workers, Prune(w)
    PROVE  Indexing'
<1>1. job[w] \in Job /\ JobFits(job[w]) /\ index \in IndexType /\ exists \subseteq Indices
  BY JobFacts
<1>2. job[w].target \in Indices
  BY <1>1 DEF JobFits, Prune
<1>3. UNCHANGED <<source, exists, alias, mail, events>>
  BY DEF Prune
<1>4. PICK ix \in IndexType : Finish(w, ix)
  <2>1. PICK px : px = [index EXCEPT ![job[w].target] =
                          [l \in Listings |-> IF w \in @[l].after THEN @[l] ELSE NoEntry]]
    OBVIOUS
  <2>2. px \in IndexType
    BY <1>1, <1>2, <2>1, PrunedTyped
  <2>3. Finish(w, IF ~job[w].failed /\ job[w].wrote # {} THEN px ELSE index)
    BY <2>1 DEF Prune
  <2>4. QED BY <1>1, <2>2, <2>3
<1>5. QED BY <1>1, <1>3, <1>4, JobEnds

\* Only the one rebuild moves the alias, to the version it has filled.
LEMMA SwapIndexes ==
    ASSUME Indexing, NEW w \in Workers, Swap(w)
    PROVE  Indexing'
<1>1. /\ job[w] \in Job /\ JobFits(job[w]) /\ index \in IndexType /\ exists \subseteq Indices
      /\ job = [x \in Workers |-> job[x]] /\ Placed(job[w], alias, exists)
  BY JobFacts
<1>2. job[w].at = "swap" /\ job[w].kind = "rebuild" /\ job[w].target \in exists
  BY <1>1 DEF Swap, JobFits, Placed
<1>3. PICK a \in Indices : alias = {a}
  BY Behind
<1>4. job[w].target = a + 1
  BY <1>1, <1>2, <1>3 DEF Placed
<1>5. PICK old \in SUBSET Indices : old = alias \ {job[w].target}
  BY <1>3
<1>6. PICK k : k = [job[w] EXCEPT !.old = old, !.at = "drop"]
  OBVIOUS
<1>7. /\ k \in Job /\ k.at = "drop" /\ k.kind = "rebuild" /\ k.target = job[w].target /\ k.old = old
  BY <1>1, <1>2, <1>5, <1>6 DEF Job
<1>8. /\ job' = [job EXCEPT ![w] = k] /\ alias' = {job[w].target}
      /\ UNCHANGED <<source, exists, index, mail, events>>
  BY <1>1, <1>5, <1>6 DEF Swap
<1>9. JobFits(k) /\ Placed(k, alias', exists')
  BY <1>1, <1>2, <1>5, <1>7, <1>8 DEF JobFits, Placed
<1>10. ASSUME NEW x \in Workers, x # w
       PROVE  job'[x] = job[x] /\ JobFits(job[x]) /\ Placed(job[x], alias', exists')
  <2>1. JobFits(job[x]) /\ Placed(job[x], alias, exists) /\ job[x].kind # "rebuild"
    BY <1>2, <1>10 DEF Indexing, OneRebuild
  <2>2. job[x].at \in {"put", "erase", "read", "bulk", "prune"} => job[x].target <= a + 1
    <3>1. job[x].at \in {"put", "erase", "read", "bulk", "prune"} =>
             job[x].target <= a /\ job[x].target \in Indices
      BY <1>3, <2>1 DEF Placed, JobFits
    <3>2. QED BY <1>3, <3>1 DEF Indices
  <2>3. job[x].at # "drop"
    BY <2>1 DEF JobFits
  <2>4. Placed(job[x], alias', exists')
    BY <1>4, <1>8, <2>1, <2>2, <2>3 DEF Placed
  <2>5. QED BY <1>1, <1>8, <1>10, <2>1, <2>4
<1>11. job'[w] = k
  BY <1>1, <1>8
<1>12. \A x \in Workers : JobFits(job'[x]) /\ Placed(job'[x], alias', exists')
  BY <1>9, <1>10, <1>11
<1>13. OneRebuild'
  <2>1. \A x \in Workers : job'[x].kind = job[x].kind
    BY <1>2, <1>7, <1>10, <1>11
  <2>2. QED BY <2>1 DEF Indexing, OneRebuild
<1>14. Types'
  BY <1>1, <1>7, <1>8 DEF Indexing, Types
<1>15. OneBehind'
  BY <1>2, <1>8 DEF OneBehind
<1>16. QED BY <1>12, <1>13, <1>14, <1>15 DEF Indexing

LEMMA DropOldIndexes ==
    ASSUME Indexing, NEW w \in Workers, DropOld(w)
    PROVE  Indexing'
<1>1. /\ job[w] \in Job /\ JobFits(job[w]) /\ index \in IndexType /\ exists \subseteq Indices
      /\ job \in [Workers -> Job] /\ Placed(job[w], alias, exists)
  BY JobFacts DEF Indexing, Types
<1>2. /\ job[w].at = "drop" /\ job[w].kind = "rebuild" /\ alias = {job[w].target}
      /\ job[w].target \notin job[w].old
  BY <1>1 DEF DropOld, JobFits, Placed
<1>3. alias' = alias /\ exists' = exists \ job[w].old /\ UNCHANGED <<source, mail, events>>
  BY <1>2 DEF DropOld
<1>4. PICK ix : ix = [i \in Indices |-> IF i \in job[w].old THEN Empty ELSE index[i]]
  OBVIOUS
<1>5. ix \in IndexType
  BY <1>1, <1>4 DEF IndexType, Empty
<1>6. Finish(w, ix)
  BY <1>4 DEF DropOld
<1>7. /\ job' \in [Workers -> Job] /\ job'[w] = NoJob /\ index' \in IndexType
      /\ \A x \in Workers \ {w} : Alike(job[x], job'[x])
  BY <1>1, <1>5, <1>6, FinishFacts
<1>8. ASSUME NEW x \in Workers, x # w
      PROVE  JobFits(job'[x]) /\ Placed(job'[x], alias', exists') /\ job'[x].kind # "rebuild"
  <2>1. JobFits(job[x]) /\ Placed(job[x], alias, exists) /\ job[x].kind # "rebuild"
    BY <1>2, <1>8 DEF Indexing, OneRebuild
  <2>2. Alike(job[x], job'[x])
    BY <1>7, <1>8
  <2>3. JobFits(job'[x]) /\ job'[x].kind # "rebuild"
    BY <2>1, <2>2, AlikeFits DEF Alike
  <2>4. job'[x].at # "drop"
    BY <2>3 DEF JobFits
  <2>5. QED BY <1>3, <2>1, <2>2, <2>3, <2>4 DEF Placed, Alike
<1>9. JobFits(job'[w]) /\ Placed(job'[w], alias', exists') /\ job'[w].kind = "none"
  BY <1>7, NoJobTyped DEF Placed
<1>10. OneRebuild'
  BY <1>8, <1>9 DEF OneRebuild
<1>11. OneBehind'
  <2>1. PICK a \in exists : alias = {a}
    BY DEF Indexing, OneBehind
  <2>2. a \in exists'
    BY <1>2, <1>3, <2>1
  <2>3. QED BY <1>3, <2>1, <2>2 DEF OneBehind
<1>12. Types'
  BY <1>1, <1>3, <1>7 DEF Indexing, Types
<1>13. QED BY <1>8, <1>9, <1>10, <1>11, <1>12 DEF Indexing

LEMMA RestartIndexes ==
    ASSUME Indexing, Restart
    PROVE  Indexing'
<1>1. job' = [w \in Workers |-> NoJob] /\ UNCHANGED <<source, exists, alias, mail, events>>
  BY DEF Restart
<1>2. index' \in IndexType
  <2>1. ASSUME NEW e \in Entry \cup {NoEntry} PROVE [e EXCEPT !.after = {}] \in Entry \cup {NoEntry}
    <3>1. CASE e = NoEntry
      BY <3>1 DEF NoEntry
    <3>2. CASE e \in Entry
      BY <3>2 DEF Entry
    <3>3. QED BY <3>1, <3>2
  <2>2. index' = [i \in Indices |-> [l \in Listings |-> [index[i][l] EXCEPT !.after = {}]]]
    BY DEF Restart
  <2>3. index \in IndexType
    BY DEF Indexing, Types
  <2>4. QED BY <2>1, <2>2, <2>3 DEF IndexType
<1>3. \A w \in Workers : job'[w] = NoJob
  BY <1>1
<1>4. \A w \in Workers : /\ JobFits(job'[w]) /\ Placed(job'[w], alias', exists')
                         /\ job'[w].kind = "none"
  BY <1>3, NoJobTyped DEF Placed
<1>5. job' \in [Workers -> Job]
  BY <1>1, NoJobTyped
<1>6. QED BY <1>1, <1>2, <1>4, <1>5 DEF Indexing, Types, OneBehind, OneRebuild

LEMMA AbortIndexes ==
    ASSUME Indexing, NEW w \in Workers, Abort(w)
    PROVE  Indexing'
<1>1. index \in IndexType /\ exists \subseteq Indices
  BY DEF Indexing, Types
<1>2. QED BY <1>1, JobEnds DEF Abort

LEMMA StepIndexing == ~RebuildsOverlap /\ Indexing /\ [SearchNext]_searchVars => Indexing'
<1>. SUFFICES ASSUME ~RebuildsOverlap, Indexing, [SearchNext]_searchVars PROVE Indexing'
  OBVIOUS
<1>1. CASE UNCHANGED searchVars
  BY <1>1 DEF Indexing, Types, OneBehind, OneRebuild, searchVars
<1>2. CASE SearchNext
  <2>1. ASSUME NEW w \in Workers, SearchStep(w) PROVE Indexing'
    BY <2>1, FetchIndexes, ResolveIndexes, PutIndexes, CountIndexes, TargetIndexes,
       CreateTargetIndexes, ReadIndexes, BulkIndexes, PruneIndexes, SwapIndexes, DropOldIndexes,
       AbortIndexes DEF SearchStep
  <2>2. QED BY <1>2, <2>1, WriteSourceIndexes, MailIndexes, AskIndexes, RestartIndexes DEF SearchNext
<1>3. QED BY <1>1, <1>2

LEMMA AlwaysIndexing ==
    ASSUME ~RebuildsOverlap
    PROVE  SearchSpec => []Indexing
<1>1. Indexing /\ [SearchNext]_searchVars => Indexing'
  BY StepIndexing
<1>2. QED BY InitIndexing, <1>1, PTL DEF SearchSpec

-----------------------------------------------------------------------------
(* Types, and one index behind the alias *)

\* Listings, indices and jobs keep their types, and readers have one index behind the alias,
\* whatever runs fail, overlap and die between swap_alias and the deletion of the old version.
THEOREM SearchTypes ==
    ASSUME ~RebuildsOverlap
    PROVE  SearchSpec => []SearchTypeOK
<1>1. ASSUME Indexing PROVE SearchTypeOK
  <2>1. PICK a \in exists : alias = {a}
    BY <1>1 DEF Indexing, OneBehind
  <2>2. Cardinality(alias) = 1 /\ alias \subseteq exists
    BY <2>1, FS_Singleton
  <2>3. \A w \in Workers : job[w].at \in {"put", "bulk"} => job[w].doc.live
    BY <1>1 DEF Indexing, JobFits
  <2>4. QED BY <1>1, <2>2, <2>3 DEF SearchTypeOK, OneIndexAnswers, Indexing, Types, IndexType
<1>2. SearchSpec => []Indexing
  BY AlwaysIndexing
<1>3. QED BY <1>1, <1>2, PTL

-----------------------------------------------------------------------------
(* What a run has copied, and whom a delete is for *)

Stands(j, src, ix) ==
    /\ j.kind = "delete" => j.lst \in Listings /\ src[j.lst] # NoSource /\ ~src[j.lst].live
    /\ \A l \in j.born : l \in Listings /\ src[l] # NoSource
    /\ j.at \in {"target", "create", "read", "bulk", "prune", "swap"} /\ ~j.seed /\ ~j.failed =>
          \A l \in j.born : src[l].live => l \in j.todo \cup j.wrote \/ (j.at = "bulk" /\ l = j.lst)
    /\ j.at \in {"prune", "swap"} => j.todo = {}
    /\ j.at \in {"count", "target", "create"} => j.wrote = {}
    /\ j.at \in {"read", "bulk", "swap"} /\ j.kind = "rebuild" =>
          \A l \in j.wrote \cap j.born : src[l].live => ix[j.target][l] # NoEntry

Standing ==
    /\ \A m \in mail : m.kind = "delete" => source[m.lst] # NoSource /\ ~source[m.lst].live
    /\ \A w \in Workers : Stands(job[w], source, index)

\* Once a listing is there it stays, and once it is removed it stays removed.
SourceGrows == \A l \in Listings : source[l] # NoSource => source'[l] # NoSource /\ (source'[l].live => source[l].live)

\* No entry of a live listing leaves the index i.
Keeps(i) ==
    \A l \in Listings : source[l].live /\ source'[l].live /\ index[i][l] # NoEntry => index'[i][l] # NoEntry

LEMMA NoJobStands ==
    ASSUME NEW src, NEW ix
    PROVE  Stands(NoJob, src, ix)
BY DEF NoJob, Stands

LEMMA AlikeStands ==
    ASSUME NEW j, NEW k, Alike(j, k), Stands(j, source, index), SourceGrows,
           j.at \in {"read", "bulk", "swap"} /\ j.kind = "rebuild" => Keeps(j.target)
    PROVE  Stands(k, source', index')
<1>1. \A l \in j.born : l \in Listings /\ source'[l] # NoSource /\ (source'[l].live => source[l].live)
  BY DEF Stands, SourceGrows
<1>2. j.kind = "delete" => j.lst \in Listings /\ source'[j.lst] # NoSource /\ ~source'[j.lst].live
  BY DEF Stands, SourceGrows
<1>3. ASSUME j.at \in {"target", "create", "read", "bulk", "prune", "swap"}, ~j.seed, ~j.failed,
             NEW l \in j.born, source'[l].live
      PROVE  l \in j.todo \cup j.wrote \/ (j.at = "bulk" /\ l = j.lst)
  BY <1>1, <1>3 DEF Stands
<1>4. ASSUME j.at \in {"read", "bulk", "swap"}, j.kind = "rebuild",
             NEW l \in j.wrote \cap j.born, source'[l].live
      PROVE  index'[j.target][l] # NoEntry
  BY <1>1, <1>4 DEF Stands, Keeps
<1>5. /\ j.at \in {"prune", "swap"} => j.todo = {}
      /\ j.at \in {"count", "target", "create"} => j.wrote = {}
  BY DEF Stands
<1>6. QED BY <1>1, <1>2, <1>3, <1>4, <1>5 DEF Stands, Alike

LEMMA OthersStand ==
    ASSUME Standing, NEW w \in Workers, \A x \in Workers \ {w} : Alike(job[x], job'[x]),
           Stands(job'[w], source', index'), SourceGrows,
           \A x \in Workers \ {w} : job[x].at \in {"read", "bulk", "swap"} /\ job[x].kind = "rebuild"
                                   => Keeps(job[x].target),
           \A m \in mail' : m.kind = "delete" => source'[m.lst] # NoSource /\ ~source'[m.lst].live
    PROVE  Standing'
<1>1. \A x \in Workers \ {w} : Stands(job'[x], source', index')
  BY AlikeStands DEF Standing
<1>2. QED BY <1>1 DEF Standing

LEMMA InitStanding == SearchInit => Standing
<1>. SUFFICES ASSUME SearchInit PROVE Standing
  OBVIOUS
<1>1. \A w \in Workers : job[w] = NoJob
  BY DEF SearchInit
<1>2. mail = {}
  BY DEF SearchInit
<1>3. QED BY <1>1, <1>2, NoJobStands DEF Standing

\* The steps that leave the listings and the mail alone.
LEMMA QuietMail ==
    ASSUME Standing, UNCHANGED <<source, mail>>
    PROVE  /\ SourceGrows
           /\ \A m \in mail' : m.kind = "delete" => source'[m.lst] # NoSource /\ ~source'[m.lst].live
BY DEF Standing, SourceGrows

\* A job that ends, with what it has written.
LEMMA EndStands ==
    ASSUME Indexing, Standing, NEW w \in Workers, NEW ix \in IndexType, Finish(w, ix),
           UNCHANGED <<source, mail>>,
           \A x \in Workers \ {w} : job[x].at \in {"read", "bulk", "swap"} /\ job[x].kind = "rebuild" =>
              /\ job[x].target \in Indices
              /\ \A l \in Listings : source[l].live /\ index[job[x].target][l] # NoEntry
                                   => ix[job[x].target][l] # NoEntry
    PROVE  Standing'
<1>1. job \in [Workers -> Job]
  BY DEF Indexing, Types
<1>2. /\ job'[w] = NoJob /\ \A x \in Workers \ {w} : Alike(job[x], job'[x])
      /\ \A i \in Indices, l \in Listings : index'[i][l] = NoEntry <=> ix[i][l] = NoEntry
  BY <1>1, FinishFacts
<1>3. Stands(job'[w], source', index')
  BY <1>2, NoJobStands
<1>4. \A x \in Workers \ {w} : job[x].at \in {"read", "bulk", "swap"} /\ job[x].kind = "rebuild"
                             => Keeps(job[x].target)
  BY <1>2 DEF Keeps
<1>5. QED BY <1>2, <1>3, <1>4, QuietMail, OthersStand

\* A step of a job's own that leaves the index alone.
LEMMA StepStands ==
    ASSUME Standing, NEW w \in Workers, NEW k, job = [x \in Workers |-> job[x]],
           job' = [job EXCEPT ![w] = k], Stands(k, source, index),
           UNCHANGED <<source, mail, index>>
    PROVE  Standing'
<1>1. job'[w] = k /\ \A x \in Workers \ {w} : job'[x] = job[x]
  OBVIOUS
<1>2. QED BY <1>1 DEF Standing

LEMMA SourceStands ==
    ASSUME Indexing, Standing, NEW l \in Listings,
           CreateListing(l) \/ UpdateListing(l) \/ RemoveListing(l)
    PROVE  Standing'
<1>0. source \in [Listings -> Listing \cup {NoSource}]
  BY DEF Indexing, Types
<1>1. PICK d, call :
         /\ WriteSource(l, d, call)
         /\ d # NoSource
         /\ source[l] # NoSource => (d.live => source[l].live)
         /\ call = "delete" => ~d.live
  <2>1. CASE CreateListing(l)
    <3>1. [v |-> 0, live |-> TRUE] # NoSource
      BY DEF NoSource
    <3>2. QED BY <2>1, <3>1 DEF CreateListing
  <2>2. CASE UpdateListing(l)
    <3>1. [v |-> source[l].v + 1, live |-> TRUE] # NoSource
      BY DEF NoSource
    <3>2. QED BY <2>2, <3>1 DEF UpdateListing, Live
  <2>3. CASE RemoveListing(l)
    <3>1. source[l] \in Listing
      BY <1>0, <2>3, NoEntryTyped DEF RemoveListing, Live
    <3>2. PICK d : d = [source[l] EXCEPT !.live = FALSE]
      OBVIOUS
    <3>3. d.live = FALSE /\ d.v = source[l].v /\ source[l].v # -1
      BY <3>1, <3>2 DEF Listing, Versions
    <3>4. d # NoSource
      BY <3>3, NoEntryTyped
    <3>5. WriteSource(l, d, "delete")
      BY <2>3, <3>2 DEF RemoveListing
    <3>6. QED BY <3>3, <3>4, <3>5
  <2>4. QED BY <2>1, <2>2, <2>3
<1>2. \A k \in Listings : source'[k] = IF k = l THEN d ELSE source[k]
  BY <1>0, <1>1 DEF WriteSource
<1>3. SourceGrows
  BY <1>1, <1>2 DEF SourceGrows
<1>4. UNCHANGED index /\ mail' = mail \cup {[kind |-> call, lst |-> l]}
  BY <1>1 DEF WriteSource
<1>5. \A i : Keeps(i)
  BY <1>4 DEF Keeps
<1>6. \A x \in Workers : Alike(job[x], job'[x])
  <2>. SUFFICES ASSUME NEW x \in Workers PROVE Alike(job[x], job'[x])
    OBVIOUS
  <2>1. job'[x] = IF x = None THEN job[x] ELSE [job[x] EXCEPT !.quiet = FALSE]
    BY <1>1 DEF WriteSource, Disturbed
  <2>2. PICK y \in Job : y = job[x]
    BY DEF Indexing, Types
  <2>3. job'[x] = [y EXCEPT !.quiet = FALSE]
    BY <2>1, <2>2
  <2>4. QED BY <2>2, <2>3 DEF Job, Alike
<1>7. \A x \in Workers : Stands(job'[x], source', index')
  BY <1>3, <1>5, <1>6, AlikeStands DEF Standing
<1>8. \A m \in mail' : m.kind = "delete" => source'[m.lst] # NoSource /\ ~source'[m.lst].live
  <2>. SUFFICES ASSUME NEW m \in mail', m.kind = "delete"
                PROVE  source'[m.lst] # NoSource /\ ~source'[m.lst].live
    OBVIOUS
  <2>1. CASE m \in mail
    <3>1. m.lst \in Listings
      BY <2>1 DEF Indexing, Types, Call
    <3>2. QED BY <1>3, <2>1, <3>1 DEF Standing, SourceGrows
  <2>2. CASE m = [kind |-> call, lst |-> l]
    BY <1>1, <1>2, <2>2
  <2>3. QED BY <1>4, <2>1, <2>2
<1>9. QED BY <1>7, <1>8 DEF Standing

LEMMA BeginStands ==
    ASSUME Indexing, Standing, NEW w \in Workers, NEW j \in Job, Begin(w, j),
           UNCHANGED <<source, index>>, mail' \subseteq mail,
           j.at \in {"fetch", "resolve", "count"}, j.wrote = {},
           j.kind = "delete" => j.lst \in Listings /\ source[j.lst] # NoSource /\ ~source[j.lst].live
    PROVE  Standing'
<1>1. job \in [Workers -> Job]
  BY DEF Indexing, Types
<1>2. PICK born : born = {l \in Listings : Live(l)}
  OBVIOUS
<1>3. PICK k : k = [j EXCEPT !.born = born, !.quiet = (mail = {} /\ \A x \in Workers : ~Busy(x))]
  OBVIOUS
<1>4. job'[w] = k /\ \A x \in Workers \ {w} : Alike(job[x], job'[x])
  BY <1>1, <1>2, <1>3, BeginFacts
<1>5. k.at = j.at /\ k.kind = j.kind /\ k.lst = j.lst /\ k.wrote = j.wrote /\ k.born = born
  BY <1>3 DEF Job
<1>6. \A l \in born : l \in Listings /\ source[l] # NoSource
  BY <1>2, NoEntryTyped DEF Live
<1>7. Stands(k, source, index)
  BY <1>5, <1>6 DEF Stands
<1>8. Stands(job'[w], source', index')
  BY <1>4, <1>7
<1>9. SourceGrows /\ \A i : Keeps(i)
  BY DEF SourceGrows, Keeps
<1>10. QED BY <1>4, <1>8, <1>9, OthersStand DEF Standing

LEMMA MailStands ==
    ASSUME Indexing, Standing, NEW m \in mail, Lose(m) \/ \E w \in Workers : Deliver(w, m)
    PROVE  Standing'
<1>1. CASE Lose(m)
  BY <1>1 DEF Lose, Standing
<1>2. ASSUME NEW w \in Workers, Deliver(w, m) PROVE Standing'
  <2>1. PICK at \in {"fetch", "resolve"} : at = IF m.kind = "index" THEN "fetch" ELSE "resolve"
    OBVIOUS
  <2>2. m.kind \in {"index", "delete"} /\ m.lst \in Listings
    BY DEF Indexing, Types, Call
  <2>3. PICK j : j = [NoJob EXCEPT !.at = at, !.kind = m.kind, !.ident = "uuid", !.lst = m.lst]
    OBVIOUS
  <2>4. j \in Job /\ j.at = at /\ j.kind = m.kind /\ j.lst = m.lst
    BY <2>1, <2>2, <2>3, NoJobTyped DEF Job, AllKinds
  <2>4a. j.wrote = {}
    BY ONLY <2>3 DEF NoJob
  <2>5. Begin(w, j) /\ mail' = mail \ {m} /\ UNCHANGED <<source, index>>
    BY <1>2, <2>1, <2>3 DEF Deliver
  <2>6. m.kind = "delete" => source[m.lst] # NoSource /\ ~source[m.lst].live
    BY DEF Standing
  <2>7. QED BY <2>1, <2>2, <2>4, <2>4a, <2>5, <2>6, BeginStands
<1>3. QED BY <1>1, <1>2

LEMMA AskStands ==
    ASSUME Indexing, Standing, NEW w \in Workers, NEW kind \in AllKinds, NEW l \in Listings,
           NEW ident \in Idents, Ask(w, kind, l, ident)
    PROVE  Standing'
<1>1. kind # "delete" /\ UNCHANGED <<source, index, mail>>
  BY DEF Ask
<1>2. PICK at \in {"fetch", "count"} : at = IF kind = "index" THEN "fetch" ELSE "count"
  OBVIOUS
<1>3. PICK id \in {"uuid", "slug", "none"} : id = IF kind = "index" THEN ident ELSE "none"
  OBVIOUS
<1>4. PICK lst \in Listings \cup {None} : lst = IF kind = "index" THEN l ELSE None
  OBVIOUS
<1>5. PICK j : j = [NoJob EXCEPT !.at = at, !.kind = kind, !.ident = id, !.lst = lst]
  OBVIOUS
<1>6. j \in Job /\ j.at = at /\ j.kind = kind /\ j.wrote = {}
  <2>1. NoJob \in Job
    BY NoJobTyped
  <2>2. [NoJob EXCEPT !.at = at, !.kind = kind] \in Job
    BY <2>1 DEF Job
  <2>3. j = [[NoJob EXCEPT !.at = at, !.kind = kind] EXCEPT !.ident = id, !.lst = lst]
    BY ONLY <1>5
  <2>4. j \in Job
    BY ONLY <2>2, <2>3 DEF Job
  <2>5. j.at = at /\ j.kind = kind /\ j.wrote = {}
    BY ONLY <2>1, <1>5 DEF NoJob, Job
  <2>6. QED BY <2>4, <2>5
<1>7. Begin(w, j)
  BY <1>2, <1>3, <1>4, <1>5 DEF Ask
<1>8. QED BY <1>1, <1>2, <1>6, <1>7, BeginStands

\* What a job keeps while it moves on.
Onwards(j, k) ==
    /\ k.kind = j.kind /\ k.lst = j.lst /\ k.born = j.born /\ k.seed = j.seed
    /\ k.failed = j.failed /\ k.todo = j.todo /\ k.wrote = j.wrote

LEMMA FetchStands ==
    ASSUME Indexing, Standing, NEW w \in Workers, Fetch(w)
    PROVE  Standing'
<1>1. /\ job[w] \in Job /\ index \in IndexType /\ job = [x \in Workers |-> job[x]]
      /\ \A x \in Workers : JobFits(job[x])
  BY JobFacts
<1>2. UNCHANGED <<source, mail>> /\ job[w].at = "fetch" /\ Stands(job[w], source, index)
  BY DEF Fetch, Standing
<1>3. CASE Finish(w, index)
  BY <1>1, <1>2, <1>3, EndStands DEF JobFits
<1>4. ASSUME NEW doc, job' = [job EXCEPT ![w].doc = doc, ![w].at = "resolve"], UNCHANGED index
      PROVE  Standing'
  <2>1. PICK k : k = [job[w] EXCEPT !.doc = doc, !.at = "resolve"]
    OBVIOUS
  <2>2. k.at = "resolve" /\ Onwards(job[w], k)
    BY <1>1, <2>1 DEF Job, Onwards
  <2>3. job' = [job EXCEPT ![w] = k]
    BY <1>1, <1>4, <2>1
  <2>4. Stands(k, source, index)
    BY <1>2, <2>2 DEF Stands, Onwards
  <2>5. QED BY <1>1, <1>2, <1>4, <2>3, <2>4, StepStands
<1>5. QED BY <1>3, <1>4 DEF Fetch

LEMMA ResolveStands ==
    ASSUME Indexing, Standing, NEW w \in Workers, Resolve(w)
    PROVE  Standing'
<1>1. job[w] \in Job /\ job = [x \in Workers |-> job[x]]
  BY JobFacts
<1>2. PICK at \in {"erase", "put"} : at = IF job[w].kind = "delete" THEN "erase" ELSE "put"
  OBVIOUS
<1>3. PICK k : k = [job[w] EXCEPT !.target = write_index, !.after = FullRuns, !.at = at]
  OBVIOUS
<1>4. k.at = at /\ Onwards(job[w], k)
  BY <1>1, <1>3 DEF Job, Onwards
<1>5. job' = [job EXCEPT ![w] = k] /\ UNCHANGED <<source, mail, index>>
  BY <1>1, <1>2, <1>3 DEF Resolve
<1>6. Stands(job[w], source, index)
  BY DEF Standing
<1>7. Stands(k, source, index)
  BY <1>2, <1>4, <1>6 DEF Stands, Onwards
<1>8. QED BY <1>1, <1>5, <1>7, StepStands

LEMMA PutStands ==
    ASSUME Indexing, Standing, NEW w \in Workers, Put(w) \/ Erase(w)
    PROVE  Standing' /\ \A i \in Indices : Keeps(i)
<1>1. /\ job[w] \in Job /\ JobFits(job[w]) /\ index \in IndexType /\ Stands(job[w], source, index)
      /\ job \in [Workers -> Job] /\ \A x \in Workers : JobFits(job[x])
  BY JobFacts DEF Standing
<1>2. job[w].target \in Indices /\ job[w].lst \in Listings
  BY <1>1 DEF JobFits, Put, Erase
<1>3. PICK e \in Entry \cup {NoEntry} :
         /\ Finish(w, Stored(job[w].target, job[w].lst, e))
         /\ e = NoEntry => ~source[job[w].lst].live
  <2>1. CASE Put(w)
    <3>1. job[w].doc \in Listing
      BY <1>1, <2>1 DEF JobFits, Put
    <3>2. [v |-> job[w].doc.v, after |-> job[w].after] \in Entry
      BY <1>1, <3>1 DEF Entry, Listing, Job
    <3>3. [v |-> job[w].doc.v, after |-> job[w].after] # NoEntry
      BY <3>1, <3>2, NoEntryTyped DEF Listing, Versions
    <3>4. QED BY <2>1, <3>2, <3>3 DEF Put
  <2>2. CASE Erase(w)
    <3>1. job[w].kind = "delete"
      BY <1>1, <2>2 DEF JobFits, Erase
    <3>2. ~source[job[w].lst].live
      BY <1>1, <3>1 DEF Stands
    <3>3. QED BY <2>2, <3>2 DEF Erase
  <2>3. QED BY <2>1, <2>2
<1>4. PICK ix : ix = Stored(job[w].target, job[w].lst, e)
  OBVIOUS
<1>5. /\ ix \in IndexType
      /\ \A i \in Indices, l \in Listings :
            ix[i][l] = IF i = job[w].target /\ l = job[w].lst THEN e ELSE index[i][l]
  BY <1>1, <1>2, <1>4, StoredTyped
<1>6. \A i \in Indices, l \in Listings :
         source[l].live /\ index[i][l] # NoEntry => ix[i][l] # NoEntry
  BY <1>3, <1>5
<1>7. UNCHANGED <<source, mail>>
  BY DEF Put, Erase
<1>8. Finish(w, ix)
  BY <1>3, <1>4
<1>9. \A x \in Workers : job[x].at \in {"read", "bulk", "swap"} => job[x].target \in Indices
  BY <1>1 DEF JobFits
<1>10. Standing'
  BY <1>5, <1>6, <1>7, <1>8, <1>9, EndStands
<1>11. \A i \in Indices, l \in Listings : index'[i][l] = NoEntry <=> ix[i][l] = NoEntry
  BY <1>1, <1>5, <1>8, FinishFacts
<1>12. QED BY <1>6, <1>10, <1>11 DEF Keeps

LEMMA CountStands ==
    ASSUME Indexing, Standing, NEW w \in Workers, Count(w)
    PROVE  Standing'
<1>1. job[w] \in Job /\ job = [x \in Workers |-> job[x]] /\ Stands(job[w], source, index)
  BY JobFacts DEF Standing
<1>2. PICK seed \in BOOLEAN :
         job' = [job EXCEPT ![w].seed = seed, ![w].todo = IF seed THEN Seeded ELSE Listings,
                            ![w].at = "target"]
  BY DEF Count
<1>3. PICK todo : todo = IF seed THEN Seeded ELSE Listings
  OBVIOUS
<1>4. PICK k : k = [job[w] EXCEPT !.seed = seed, !.todo = todo, !.at = "target"]
  OBVIOUS
<1>5. /\ k.at = "target" /\ k.kind = job[w].kind /\ k.lst = job[w].lst /\ k.born = job[w].born
      /\ k.wrote = job[w].wrote /\ k.seed = seed /\ k.todo = todo
  BY <1>1, <1>4 DEF Job
<1>6. job' = [job EXCEPT ![w] = k] /\ UNCHANGED <<source, mail, index>>
  BY <1>1, <1>2, <1>3, <1>4 DEF Count
<1>7. job[w].at = "count"
  BY DEF Count
<1>8. Stands(k, source, index)
  BY <1>1, <1>3, <1>5, <1>7 DEF Stands
<1>9. QED BY <1>1, <1>6, <1>8, StepStands

LEMMA TargetStands ==
    ASSUME Indexing, Standing, NEW w \in Workers, Target(w)
    PROVE  Standing'
<1>1. job[w] \in Job /\ job = [x \in Workers |-> job[x]] /\ Stands(job[w], source, index)
  BY JobFacts DEF Standing
<1>2. PICK at \in {"read", "create"}, target \in Int :
         job' = [job EXCEPT ![w].target = target, ![w].after = FullRuns, ![w].at = at]
  <2>1. write_index \in Int /\ write_index + 1 \in Int
    BY Behind DEF Indices
  <2>2. QED BY <2>1 DEF Target
<1>3. PICK k : k = [job[w] EXCEPT !.target = target, !.after = FullRuns, !.at = at]
  OBVIOUS
<1>4. k.at = at /\ Onwards(job[w], k)
  BY <1>1, <1>3 DEF Job, Onwards
<1>5. job' = [job EXCEPT ![w] = k] /\ UNCHANGED <<source, mail, index>>
  BY <1>1, <1>2, <1>3 DEF Target
<1>6. job[w].at = "target"
  BY DEF Target
<1>7. Stands(k, source, index)
  BY <1>1, <1>2, <1>4, <1>6 DEF Stands, Onwards
<1>8. QED BY <1>1, <1>5, <1>7, StepStands

\* The version to fill is not one that readers have, and is filled from nothing.
LEMMA CreateTargetStands ==
    ASSUME Indexing, Standing, NEW w \in Workers, CreateTarget(w)
    PROVE  Standing' /\ alias' = alias /\ \A i \in alias : Keeps(i)
<1>1. /\ job[w] \in Job /\ JobFits(job[w]) /\ Placed(job[w], alias, exists)
      /\ job = [x \in Workers |-> job[x]] /\ Stands(job[w], source, index)
      /\ index \in IndexType
  BY JobFacts DEF Standing
<1>2. job[w].at = "create" /\ job[w].kind = "rebuild" /\ job[w].target \in Indices
  BY <1>1 DEF CreateTarget, JobFits
<1>3. PICK a \in Indices : alias = {a}
  BY Behind
<1>4. job[w].target # a
  BY <1>1, <1>2, <1>3 DEF Placed, Indices
<1>5. UNCHANGED <<source, mail, alias>>
  BY <1>3, <1>4 DEF CreateTarget
<1>6. PICK k : k = [job[w] EXCEPT !.at = "read"]
  OBVIOUS
<1>7. k.at = "read" /\ Onwards(job[w], k)
  BY <1>1, <1>6 DEF Job, Onwards
<1>8. job' = [job EXCEPT ![w] = k]
  BY <1>1, <1>6 DEF CreateTarget, Go
<1>9. k.wrote = {}
  BY <1>1, <1>2, <1>7 DEF Stands, Onwards
<1>10. Stands(k, source', index')
  BY <1>1, <1>2, <1>5, <1>7, <1>9 DEF Stands, Onwards
<1>11. job'[w] = k /\ \A x \in Workers \ {w} : job'[x] = job[x]
  BY <1>1, <1>8
<1>12. \A x \in Workers \ {w} : Alike(job[x], job'[x]) /\ job[x].kind # "rebuild"
  BY <1>2, <1>11 DEF Alike, Indexing, OneRebuild
<1>13. Standing'
  <2>1. Stands(job'[w], source', index')
    BY <1>10, <1>11
  <2>2. QED BY <1>5, <1>12, <2>1, QuietMail, OthersStand
<1>14. \A i \in Indices : i # job[w].target => index'[i] = index[i]
  BY <1>1 DEF CreateTarget, IndexType
<1>15. Keeps(a)
  BY <1>3, <1>4, <1>14 DEF Keeps
<1>16. QED BY <1>3, <1>5, <1>13, <1>15

LEMMA ReadStands ==
    ASSUME Indexing, Standing, NEW w \in Workers, Read(w)
    PROVE  Standing'
<1>1. /\ job[w] \in Job /\ JobFits(job[w]) /\ job = [x \in Workers |-> job[x]]
      /\ Stands(job[w], source, index)
  BY JobFacts DEF Standing
<1>2. job[w].at = "read" /\ UNCHANGED <<source, mail, index>>
  BY DEF Read
<1>3. CASE job[w].todo = {} /\ Go(w, CASE job[w].kind = "rebuild" -> "swap" [] OTHER -> "prune")
  <2>1. PICK at \in {"swap", "prune"} : at = CASE job[w].kind = "rebuild" -> "swap" [] OTHER -> "prune"
    OBVIOUS
  <2>2. PICK k : k = [job[w] EXCEPT !.at = at]
    OBVIOUS
  <2>3. k.at = at /\ Onwards(job[w], k) /\ k.target = job[w].target
    BY <1>1, <2>1, <2>2 DEF Job, Onwards
  <2>4. job' = [job EXCEPT ![w] = k]
    BY <1>1, <1>3, <2>1, <2>2 DEF Go
  <2>5. Stands(k, source, index)
    BY <1>1, <1>2, <1>3, <2>1, <2>3 DEF Stands, Onwards
  <2>6. QED BY <1>1, <1>2, <2>4, <2>5, StepStands
<1>4. ASSUME NEW l \in job[w].todo,
             NEW d, d = IF job[w].seed THEN [v |-> 0, live |-> TRUE] ELSE source[l],
             job' = [job EXCEPT ![w] = IF d.live
                            THEN [job[w] EXCEPT !.todo = @ \ {l}, !.at = "bulk", !.lst = l, !.doc = d]
                            ELSE [job[w] EXCEPT !.todo = @ \ {l}]]
      PROVE  Standing'
  <2>1. PICK todo : todo = job[w].todo \ {l}
    OBVIOUS
  <2>2. job[w].kind # "delete"
    BY <1>1, <1>2 DEF JobFits
  <2>3. CASE d.live
    <3>1. PICK k : k = [job[w] EXCEPT !.todo = todo, !.at = "bulk", !.lst = l, !.doc = d]
      OBVIOUS
    <3>2. /\ k.at = "bulk" /\ k.kind = job[w].kind /\ k.lst = l /\ k.born = job[w].born
          /\ k.seed = job[w].seed /\ k.failed = job[w].failed /\ k.todo = todo
          /\ k.wrote = job[w].wrote /\ k.target = job[w].target
      BY <1>1, <3>1 DEF Job
    <3>3. job' = [job EXCEPT ![w] = k]
      BY <1>1, <1>4, <2>1, <2>3, <3>1
    <3>4. Stands(k, source, index)
      BY <1>1, <1>2, <2>1, <2>2, <3>2 DEF Stands
    <3>5. QED BY <1>1, <1>2, <3>3, <3>4, StepStands
  <2>4. CASE ~d.live
    <3>1. PICK k : k = [job[w] EXCEPT !.todo = todo]
      OBVIOUS
    <3>2. /\ k.at = "read" /\ k.kind = job[w].kind /\ k.lst = job[w].lst /\ k.born = job[w].born
          /\ k.seed = job[w].seed /\ k.failed = job[w].failed /\ k.todo = todo
          /\ k.wrote = job[w].wrote /\ k.target = job[w].target
      BY <1>1, <1>2, <3>1 DEF Job
    <3>3. job' = [job EXCEPT ![w] = k]
      BY <1>1, <1>4, <2>1, <2>4, <3>1
    <3>4. ~job[w].seed /\ ~source[l].live
      BY <1>4, <2>4
    <3>5. Stands(k, source, index)
      BY <1>1, <1>2, <2>1, <2>2, <3>2, <3>4 DEF Stands
    <3>6. QED BY <1>1, <1>2, <3>3, <3>5, StepStands
  <2>5. QED BY <2>3, <2>4
<1>5. QED BY <1>3, <1>4 DEF Read

LEMMA BulkStands ==
    ASSUME Indexing, Standing, NEW w \in Workers, Bulk(w)
    PROVE  Standing' /\ \A i \in Indices : Keeps(i)
<1>1. /\ job[w] \in Job /\ JobFits(job[w]) /\ index \in IndexType
      /\ job = [x \in Workers |-> job[x]] /\ Stands(job[w], source, index)
  BY JobFacts DEF Standing
<1>2. job[w].at = "bulk" /\ UNCHANGED <<source, mail>>
  BY DEF Bulk
<1>3. /\ job[w].kind # "delete" /\ job[w].target \in Indices /\ job[w].lst \in Listings
      /\ job[w].doc \in Listing
  BY <1>1, <1>2 DEF JobFits
<1>4. ASSUME NEW wrote, NEW failed,
             NEW k, k = [job[w] EXCEPT !.at = "read", !.lst = None, !.doc = NoSource,
                                       !.wrote = wrote, !.failed = failed],
             job' = [job EXCEPT ![w] = k], \A i \in Indices : Keeps(i),
             failed \/ (failed = job[w].failed /\ wrote = job[w].wrote \cup {job[w].lst}),
             wrote \subseteq job[w].wrote \cup {job[w].lst},
             job[w].lst \in wrote \ job[w].wrote => index'[job[w].target][job[w].lst] # NoEntry
      PROVE  Standing'
  <2>1. /\ k.at = "read" /\ k.kind = job[w].kind /\ k.born = job[w].born
        /\ k.seed = job[w].seed /\ k.failed = failed /\ k.todo = job[w].todo
        /\ k.wrote = wrote /\ k.target = job[w].target
    BY <1>1, <1>4 DEF Job
  <2>2. ASSUME NEW l \in wrote \cap job[w].born, source[l].live, job[w].kind = "rebuild"
        PROVE  index'[job[w].target][l] # NoEntry
    <3>1. CASE l \in job[w].wrote
      BY <1>1, <1>2, <1>3, <1>4, <2>2, <3>1 DEF Stands, Keeps
    <3>2. CASE l = job[w].lst /\ l \notin job[w].wrote
      BY <1>4, <2>2, <3>2
    <3>3. QED BY <1>4, <2>2, <3>1, <3>2
  <2>3. \A l \in job[w].born : l \in Listings /\ source[l] # NoSource
    BY <1>1 DEF Stands
  <2>4. ASSUME ~job[w].seed, ~failed, NEW l \in job[w].born, source[l].live
        PROVE  l \in job[w].todo \cup wrote
    BY <1>1, <1>2, <1>4, <2>4 DEF Stands
  <2>5. Stands(k, source', index')
    BY <1>2, <1>3, <2>1, <2>2, <2>3, <2>4 DEF Stands
  <2>6. job'[w] = k /\ \A x \in Workers \ {w} : job'[x] = job[x]
    BY <1>1, <1>4
  <2>7. Stands(job'[w], source', index') /\ \A x \in Workers \ {w} : Alike(job[x], job'[x])
    BY <2>5, <2>6 DEF Alike
  <2>8. \A x \in Workers : job[x].at \in {"read", "bulk", "swap"} => job[x].target \in Indices
    BY JobFacts DEF JobFits
  <2>9. QED BY <1>2, <1>4, <2>7, <2>8, QuietMail, OthersStand
<1>5. CASE /\ index' = Stored(job[w].target, job[w].lst, [v |-> job[w].doc.v, after |-> job[w].after])
           /\ job' = [job EXCEPT ![w] = [NextItem(job[w]) EXCEPT !.wrote = @ \cup {job[w].lst}]]
  <2>1. PICK wrote : wrote = job[w].wrote \cup {job[w].lst}
    OBVIOUS
  <2>2. PICK failed : failed = job[w].failed
    OBVIOUS
  <2>3. PICK k : k = [job[w] EXCEPT !.at = "read", !.lst = None, !.doc = NoSource, !.wrote = wrote,
                                    !.failed = failed]
    OBVIOUS
  <2>4. job' = [job EXCEPT ![w] = k]
    <3>1. PICK n : n = NextItem(job[w])
      OBVIOUS
    <3>2. job' = [job EXCEPT ![w] = [n EXCEPT !.wrote = @ \cup {job[w].lst}]]
      BY <1>1, <1>5, <3>1
    <3>3. [n EXCEPT !.wrote = @ \cup {job[w].lst}] = k
      BY <1>1, <2>1, <2>2, <2>3, <3>1 DEF NextItem, Job
    <3>4. QED BY <3>2, <3>3
  <2>5. PICK e : e = [v |-> job[w].doc.v, after |-> job[w].after]
    OBVIOUS
  <2>6. e \in Entry /\ e # NoEntry
    <3>1. e \in Entry /\ e.v \in Versions
      BY <1>1, <1>3, <2>5 DEF Entry, Listing, Job
    <3>2. QED BY <3>1, NoEntryTyped DEF Versions
  <2>7. \A i \in Indices, l \in Listings :
           index'[i][l] = IF i = job[w].target /\ l = job[w].lst THEN e ELSE index[i][l]
    BY <1>1, <1>3, <1>5, <2>5, <2>6, StoredTyped
  <2>8. \A i \in Indices : Keeps(i)
    BY <2>6, <2>7 DEF Keeps
  <2>9. index'[job[w].target][job[w].lst] # NoEntry
    BY <1>3, <2>6, <2>7
  <2>10. Standing'
    BY <1>4, <2>1, <2>2, <2>3, <2>4, <2>8, <2>9
  <2>11. QED BY <2>8, <2>10
<1>6. CASE job' = [job EXCEPT ![w] = [NextItem(job[w]) EXCEPT !.failed = TRUE]] /\ UNCHANGED index
  <2>1. PICK wrote : wrote = job[w].wrote
    OBVIOUS
  <2>2. PICK k : k = [job[w] EXCEPT !.at = "read", !.lst = None, !.doc = NoSource, !.wrote = wrote,
                                    !.failed = TRUE]
    OBVIOUS
  <2>3. job' = [job EXCEPT ![w] = k]
    <3>1. PICK n : n = NextItem(job[w])
      OBVIOUS
    <3>2. job' = [job EXCEPT ![w] = [n EXCEPT !.failed = TRUE]]
      BY <1>1, <1>6, <3>1
    <3>3. [n EXCEPT !.failed = TRUE] = k
      BY <1>1, <2>1, <2>2, <3>1 DEF NextItem, Job
    <3>4. QED BY <3>2, <3>3
  <2>4. \A i \in Indices : Keeps(i)
    BY <1>6 DEF Keeps
  <2>5. Standing'
    BY <1>4, <2>1, <2>2, <2>3, <2>4
  <2>6. QED BY <2>4, <2>5
<1>7. QED BY <1>5, <1>6 DEF Bulk

\* A prune never reaches the version that a rebuild is filling.
LEMMA PruneStands ==
    ASSUME Indexing, Standing, NEW w \in Workers, Prune(w)
    PROVE  Standing' /\ \A i \in alias, l \in Listings :
              source[l].live /\ index[i][l] # NoEntry /\ index'[i][l] = NoEntry =>
                 job[w].seed \/ l \in job[w].wrote \/ l \notin job[w].born
<1>1. /\ job[w] \in Job /\ JobFits(job[w]) /\ index \in IndexType /\ Stands(job[w], source, index)
      /\ Placed(job[w], alias, exists) /\ job \in [Workers -> Job]
  BY JobFacts DEF Standing
<1>2. job[w].at = "prune" /\ job[w].kind = "full" /\ job[w].target \in Indices /\ job[w].todo = {}
  BY <1>1 DEF JobFits, Prune, Stands
<1>3. PICK px : px = [index EXCEPT ![job[w].target] =
                          [l \in Listings |-> IF w \in @[l].after THEN @[l] ELSE NoEntry]]
  OBVIOUS
<1>4. /\ px \in IndexType
      /\ \A k \in Indices, l \in Listings :
           px[k][l] = IF k = job[w].target /\ w \notin index[job[w].target][l].after
                      THEN NoEntry ELSE index[k][l]
  <2>1. PICK t \in Indices : t = job[w].target
    BY <1>2
  <2>2. px = [index EXCEPT ![t] = [l \in Listings |-> IF w \in @[l].after THEN @[l] ELSE NoEntry]]
    BY <1>3, <2>1
  <2>3. /\ px \in IndexType
        /\ \A k \in Indices, l \in Listings :
              px[k][l] = IF k = t /\ w \notin index[t][l].after THEN NoEntry ELSE index[k][l]
    BY <1>1, <2>2 DEF IndexType
  <2>4. QED BY <2>1, <2>3
<1>5. PICK ix : ix = IF ~job[w].failed /\ job[w].wrote # {} THEN px ELSE index
  OBVIOUS
<1>6. ix \in IndexType /\ Finish(w, ix) /\ UNCHANGED <<source, mail, alias>>
  BY <1>1, <1>3, <1>4, <1>5 DEF Prune
<1>7. /\ \A k \in Indices, l \in Listings : k # job[w].target => ix[k][l] = index[k][l]
      /\ job[w].failed => \A k \in Indices, l \in Listings : ix[k][l] = index[k][l]
  BY <1>4, <1>5
<1>8. PICK a \in Indices : alias = {a}
  BY Behind
<1>9. job[w].target <= a
  BY <1>1, <1>2, <1>8 DEF Placed
<1>10. ASSUME NEW x \in Workers, job[x].at \in {"read", "bulk", "swap"}, job[x].kind = "rebuild"
       PROVE  job[x].target \in Indices /\ job[x].target # job[w].target
  <2>1. JobFits(job[x]) /\ Placed(job[x], alias, exists)
    BY JobFacts
  <2>2. job[x].target = a + 1 /\ job[x].target \in Indices
    BY <1>8, <1>10, <2>1 DEF Placed, JobFits
  <2>3. QED BY <1>2, <1>9, <2>2 DEF Indices
<1>11. Standing'
  BY <1>6, <1>7, <1>10, EndStands
<1>12. \A i \in Indices, l \in Listings : index'[i][l] = NoEntry <=> ix[i][l] = NoEntry
  BY <1>1, <1>6, FinishFacts
<1>13. ASSUME NEW l \in Listings, source[l].live, index[a][l] # NoEntry, index'[a][l] = NoEntry
       PROVE  job[w].seed \/ l \in job[w].wrote \/ l \notin job[w].born
  <2>1. ~job[w].failed
    BY <1>7, <1>12, <1>13
  <2>2. QED BY <1>1, <1>2, <1>13, <2>1 DEF Stands
<1>14. QED BY <1>8, <1>11, <1>13

\* What the rebuild has written is there when readers come to its version.
LEMMA SwapStands ==
    ASSUME Indexing, Standing, NEW w \in Workers, Swap(w)
    PROVE  Standing' /\ \A l \in Listings :
              source[l].live /\ (\A i \in alias' : index'[i][l] = NoEntry) =>
                 job[w].seed \/ job[w].failed \/ l \notin job[w].born
<1>1. /\ job[w] \in Job /\ JobFits(job[w]) /\ job = [x \in Workers |-> job[x]]
      /\ Stands(job[w], source, index)
  BY JobFacts DEF Standing
<1>2. job[w].at = "swap" /\ job[w].kind = "rebuild" /\ job[w].todo = {}
  BY <1>1 DEF Swap, JobFits, Stands
<1>3. PICK old : old = alias \ {job[w].target}
  OBVIOUS
<1>4. PICK k : k = [job[w] EXCEPT !.old = old, !.at = "drop"]
  OBVIOUS
<1>5. k.at = "drop" /\ Onwards(job[w], k)
  BY <1>1, <1>4 DEF Job, Onwards
<1>6. /\ job' = [job EXCEPT ![w] = k] /\ alias' = {job[w].target}
      /\ UNCHANGED <<source, mail, index>>
  BY <1>1, <1>3, <1>4 DEF Swap
<1>7. Stands(k, source, index)
  BY <1>1, <1>2, <1>5 DEF Stands, Onwards
<1>8. Standing'
  BY <1>1, <1>6, <1>7, StepStands
<1>9. ASSUME NEW l \in Listings, source[l].live, \A i \in alias' : index'[i][l] = NoEntry,
             ~job[w].seed, ~job[w].failed
      PROVE  l \notin job[w].born
  <2>1. index[job[w].target][l] = NoEntry
    BY <1>6, <1>9
  <2>2. QED BY <1>1, <1>2, <1>9, <2>1 DEF Stands
<1>10. QED BY <1>8, <1>9

LEMMA DropOldStands ==
    ASSUME Indexing, Standing, NEW w \in Workers, DropOld(w)
    PROVE  Standing' /\ alias' = alias /\ \A i \in alias : Keeps(i)
<1>1. /\ job[w] \in Job /\ JobFits(job[w]) /\ Placed(job[w], alias, exists)
      /\ job \in [Workers -> Job] /\ index \in IndexType
  BY JobFacts DEF Indexing, Types
<1>2. /\ job[w].at = "drop" /\ job[w].kind = "rebuild" /\ alias = {job[w].target}
      /\ job[w].target \notin job[w].old
  BY <1>1 DEF DropOld, JobFits, Placed
<1>3. PICK ix : ix = [i \in Indices |-> IF i \in job[w].old THEN Empty ELSE index[i]]
  OBVIOUS
<1>4. ix \in IndexType /\ Finish(w, ix) /\ UNCHANGED <<source, mail>> /\ alias' = alias
  BY <1>1, <1>2, <1>3 DEF DropOld, IndexType, Empty
<1>5. \A x \in Workers \ {w} : job[x].kind # "rebuild"
  BY <1>2 DEF Indexing, OneRebuild
<1>6. Standing'
  BY <1>4, <1>5, EndStands
<1>7. \A i \in Indices, l \in Listings : index'[i][l] = NoEntry <=> ix[i][l] = NoEntry
  BY <1>1, <1>4, FinishFacts
<1>8. PICK a \in Indices : alias = {a}
  BY Behind
<1>9. ix[a] = index[a]
  BY <1>2, <1>3, <1>8
<1>10. Keeps(a)
  BY <1>7, <1>9 DEF Keeps
<1>11. QED BY <1>4, <1>6, <1>8, <1>10

LEMMA AbortStands ==
    ASSUME Indexing, Standing, NEW w \in Workers, Abort(w)
    PROVE  Standing' /\ \A i \in Indices : Keeps(i)
<1>1. index \in IndexType /\ job \in [Workers -> Job] /\ \A x \in Workers : JobFits(job[x])
  BY DEF Indexing, Types
<1>2. Finish(w, index) /\ UNCHANGED <<source, mail>>
  BY DEF Abort
<1>3. \A x \in Workers : job[x].at \in {"read", "bulk", "swap"} => job[x].target \in Indices
  BY <1>1 DEF JobFits
<1>4. Standing'
  BY <1>1, <1>2, <1>3, EndStands
<1>5. \A i \in Indices, l \in Listings : index'[i][l] = NoEntry <=> index[i][l] = NoEntry
  BY <1>1, <1>2, FinishFacts
<1>6. QED BY <1>4, <1>5 DEF Keeps

LEMMA RestartStands ==
    ASSUME Indexing, Standing, Restart
    PROVE  Standing' /\ \A i \in Indices : Keeps(i)
<1>1. UNCHANGED <<source, mail>> /\ \A w \in Workers : job'[w] = NoJob
  BY DEF Restart
<1>2. Standing'
  BY <1>1, NoJobStands DEF Standing
<1>3. index' = [i \in Indices |-> [l \in Listings |-> [index[i][l] EXCEPT !.after = {}]]]
  BY DEF Restart
<1>4. ASSUME NEW i \in Indices, NEW l \in Listings, index[i][l] # NoEntry
      PROVE  index'[i][l] # NoEntry
  <2>1. PICK e \in Entry : e = index[i][l]
    BY <1>4 DEF Indexing, Types, IndexType
  <2>2. PICK d : d = [e EXCEPT !.after = {}]
    OBVIOUS
  <2>3. d.v = e.v /\ e.v # -1
    BY <2>2 DEF Entry, Versions
  <2>4. d # NoEntry
    BY <2>3, NoEntryTyped
  <2>5. QED BY <1>3, <2>1, <2>2, <2>4
<1>5. QED BY <1>2, <1>4 DEF Keeps

LEMMA StepStanding == ~RebuildsOverlap /\ Indexing /\ Standing /\ [SearchNext]_searchVars => Standing'
<1>. SUFFICES ASSUME ~RebuildsOverlap, Indexing, Standing, [SearchNext]_searchVars PROVE Standing'
  OBVIOUS
<1>1. CASE UNCHANGED searchVars
  BY <1>1 DEF Standing, searchVars
<1>2. CASE SearchNext
  <2>1. ASSUME NEW w \in Workers, SearchStep(w) PROVE Standing'
    BY <2>1, FetchStands, ResolveStands, PutStands, CountStands, TargetStands, CreateTargetStands,
       ReadStands, BulkStands, PruneStands, SwapStands, DropOldStands, AbortStands DEF SearchStep
  <2>2. QED BY <1>2, <2>1, SourceStands, MailStands, AskStands, RestartStands DEF SearchNext
<1>3. QED BY <1>1, <1>2

LEMMA AlwaysStanding ==
    ASSUME ~RebuildsOverlap
    PROVE  SearchSpec => [](Indexing /\ Standing)
<1>1. Indexing /\ Standing /\ [SearchNext]_searchVars => Standing'
  BY StepStanding
<1>2. SearchSpec => []Indexing
  BY AlwaysIndexing
<1>3. QED BY InitStanding, <1>1, <1>2, PTL DEF SearchSpec

-----------------------------------------------------------------------------
(* What readers can find *)

MayVanish(w, l) ==
    \/ (Swap(w) \/ Prune(w)) /\ job[w].seed
    \/ Swap(w) /\ (job[w].failed \/ l \notin job[w].born)
    \/ Prune(w) /\ (l \in job[w].wrote \/ l \notin job[w].born)

Vanishes(l) == source[l].live /\ source'[l].live /\ Found(l) /\ ~Found(l)'

LEMMA KeepsFinds ==
    ASSUME NEW l \in Listings, alias' = alias, \A i \in alias : Keeps(i)
    PROVE  ~Vanishes(l)
BY DEF Vanishes, Found, Keeps

LEMMA StepFinds ==
    ASSUME ~RebuildsOverlap, Indexing, Standing, [SearchNext]_searchVars,
           NEW l \in Listings, Vanishes(l)
    PROVE  \E w \in Workers : MayVanish(w, l)
<1>1. alias \subseteq Indices
  BY Behind
<1>2. UNCHANGED index => \A i \in Indices : Keeps(i)
  BY DEF Keeps
<1>3. CASE UNCHANGED searchVars
  BY <1>1, <1>2, <1>3, KeepsFinds DEF searchVars
<1>4. CASE SearchNext
  <2>1. ASSUME NEW k \in Listings, CreateListing(k) \/ UpdateListing(k) \/ RemoveListing(k)
        PROVE  FALSE
    BY <1>1, <1>2, <2>1, KeepsFinds DEF CreateListing, UpdateListing, RemoveListing, WriteSource
  <2>2. ASSUME NEW m \in mail, Lose(m) \/ \E w \in Workers : Deliver(w, m) PROVE FALSE
    BY <1>1, <1>2, <2>2, KeepsFinds DEF Lose, Deliver
  <2>3. ASSUME NEW w \in Workers, NEW kind \in AllKinds, NEW k \in Listings, NEW ident \in Idents,
               Ask(w, kind, k, ident)
        PROVE  FALSE
    BY <1>1, <1>2, <2>3, KeepsFinds DEF Ask
  <2>4. CASE Restart
    BY <1>1, <2>4, RestartStands, KeepsFinds DEF Restart
  <2>5. ASSUME NEW w \in Workers, SearchStep(w) PROVE MayVanish(w, l)
    <3>1. CASE Fetch(w)
      <4>1. index \in IndexType /\ job \in [Workers -> Job] /\ alias' = alias
        BY <3>1 DEF Indexing, Types, Fetch
      <4>2. CASE Finish(w, index)
        <5>1. \A i \in Indices, k \in Listings : index'[i][k] = NoEntry <=> index[i][k] = NoEntry
          BY <4>1, <4>2, FinishFacts
        <5>2. QED BY <1>1, <4>1, <5>1, KeepsFinds DEF Keeps
      <4>3. CASE UNCHANGED index
        BY <1>1, <1>2, <4>1, <4>3, KeepsFinds
      <4>4. QED BY <3>1, <4>2, <4>3 DEF Fetch
    <3>2. CASE Resolve(w) \/ Count(w) \/ Target(w) \/ Read(w)
      BY <1>1, <1>2, <3>2, KeepsFinds DEF Resolve, Count, Target, Read
    <3>3. CASE Put(w) \/ Erase(w)
      BY <1>1, <3>3, PutStands, KeepsFinds DEF Put, Erase
    <3>4. CASE CreateTarget(w) \/ DropOld(w)
      BY <3>4, CreateTargetStands, DropOldStands, KeepsFinds
    <3>5. CASE Bulk(w)
      BY <1>1, <3>5, BulkStands, KeepsFinds DEF Bulk
    <3>6. CASE Abort(w)
      BY <1>1, <3>6, AbortStands, KeepsFinds DEF Abort
    <3>7. CASE Prune(w)
      <4>1. PICK i \in alias : index[i][l] # NoEntry
        BY DEF Vanishes, Found
      <4>2. alias' = alias
        BY <3>7 DEF Prune
      <4>3. index'[i][l] = NoEntry /\ source[l].live
        BY <4>1, <4>2 DEF Vanishes, Found
      <4>4. job[w].seed \/ l \in job[w].wrote \/ l \notin job[w].born
        BY <3>7, <4>1, <4>3, PruneStands
      <4>5. QED BY <3>7, <4>4 DEF MayVanish
    <3>8. CASE Swap(w)
      <4>1. source[l].live /\ \A i \in alias' : index'[i][l] = NoEntry
        BY DEF Vanishes, Found
      <4>2. job[w].seed \/ job[w].failed \/ l \notin job[w].born
        BY <3>8, <4>1, SwapStands
      <4>3. QED BY <3>8, <4>2 DEF MayVanish
    <3>9. QED BY <2>5, <3>1, <3>2, <3>3, <3>4, <3>5, <3>6, <3>7, <3>8 DEF SearchStep
  <2>6. QED BY <1>4, <2>1, <2>2, <2>3, <2>4, <2>5 DEF SearchNext
<1>5. QED BY <1>3, <1>4

\* A listing that readers can find stays findable while it is live: full_reindex and
\* zero_downtime_reindex take it from readers only when they were told of the seed
\* alone, when Elasticsearch refused it, or when it is newer than the run.
THEOREM ListingsStayFindable ==
    ASSUME ~RebuildsOverlap
    PROVE  SearchSpec => NeverVanishes
<1>1. SearchSpec => [](Indexing /\ Standing)
  BY AlwaysStanding
<1>2. Indexing /\ Standing /\ [SearchNext]_searchVars =>
         [\A l \in Listings : Live(l) /\ Live(l)' /\ Found(l) /\ ~Found(l)' =>
            \E w \in Workers :
               \/ (Swap(w) \/ Prune(w)) /\ job[w].seed
               \/ Swap(w) /\ (job[w].failed \/ l \notin job[w].born)
               \/ Prune(w) /\ (l \in job[w].wrote \/ l \notin job[w].born)]_searchVars
  <2>. SUFFICES ASSUME Indexing, Standing, [SearchNext]_searchVars, NEW l \in Listings,
                       Live(l), Live(l)', Found(l), ~Found(l)'
                PROVE  \E w \in Workers : MayVanish(w, l)
    BY DEF MayVanish
  <2>1. Vanishes(l)
    BY DEF Vanishes, Live
  <2>2. QED BY <2>1, StepFinds
<1>3. QED BY <1>1, <1>2, PTL DEF SearchSpec, NeverVanishes

-----------------------------------------------------------------------------
(* What an undisturbed run makes of the index *)

\* Whatever a full run was under way for when it was stamped ends with the run.
Stamps ==
    \A x \in Workers : job[x].kind # "full" =>
       /\ \A i \in Indices, l \in Listings : x \notin index[i][l].after
       /\ \A y \in Workers : x \notin job[y].after

Copies(w, j, src, ix, behind) ==
    /\ j.at \in {"read", "bulk", "prune", "swap", "drop"} => \A l \in Listings :
          /\ l \in j.wrote => src[l].live /\ ix[j.target][l].v = src[l].v
          /\ j.kind = "full" => (l \in j.wrote <=> w \in ix[j.target][l].after)
          /\ j.kind = "rebuild" /\ l \notin j.wrote => ix[j.target][l] = NoEntry
    /\ j.at = "bulk" => j.doc = src[j.lst]
    /\ j.at = "drop" /\ ~j.failed => \A l \in Listings : src[l].live => l \in j.wrote
    /\ j.kind = "full" /\ j.at \in {"read", "bulk", "prune"} => j.target \in behind /\ w \in j.after
    /\ j.kind = "full" /\ j.at \in {"count", "target"} =>
          \A i \in Indices, l \in Listings : w \notin ix[i][l].after

Alone(w) ==
    /\ job[w].at # "idle" /\ mail = {} /\ \A x \in Workers \ {w} : job[x].at = "idle"
    /\ job[w].born = {l \in Listings : source[l].live}

Healing ==
    /\ Stamps
    /\ \A w \in Workers : job[w].quiet =>
          /\ Alone(w)
          /\ job[w].kind \in {"full", "rebuild"} /\ (~job[w].seed \/ job[w].at = "count") =>
                Copies(w, job[w], source, index, alias)

LEMMA InitHealing == SearchInit => Healing
<1>. SUFFICES ASSUME SearchInit PROVE Healing
  OBVIOUS
<1>1. \A w \in Workers : job[w] = NoJob
  BY DEF SearchInit
<1>2. \A w \in Workers : ~job[w].quiet /\ job[w].after = {}
  BY <1>1, NoJobTyped
<1>3. \A i \in Indices, l \in Listings : index[i][l].after = {}
  BY NoEntryTyped DEF SearchInit
<1>4. QED BY <1>2, <1>3 DEF Healing, Stamps

\* A job at work goes on.
LEMMA OwnHeals ==
    ASSUME Indexing, Healing, NEW w \in Workers, NEW k, job' = [job EXCEPT ![w] = k],
           UNCHANGED <<source, mail>>, job[w].at # "idle", k.at \notin {"idle", "count"},
           k.quiet = job[w].quiet, k.born = job[w].born, k.kind = job[w].kind,
           k.after \subseteq job[w].after \cup FullRuns,
           \A i \in Indices, l \in Listings : index'[i][l].after \subseteq index[i][l].after \cup job[w].after,
           job[w].quiet /\ k.kind \in {"full", "rebuild"} /\ ~k.seed =>
              Copies(w, k, source', index', alias')
    PROVE  Healing'
<1>1. job'[w] = k /\ \A x \in Workers \ {w} : job'[x] = job[x]
  BY DEF Indexing, Types
<1>2. Stamps'
  <2>. SUFFICES ASSUME NEW x \in Workers, job'[x].kind # "full"
                PROVE  /\ \A i \in Indices, l \in Listings : x \notin index'[i][l].after
                       /\ \A y \in Workers : x \notin job'[y].after
    BY DEF Stamps
  <2>1. job[x].kind # "full"
    BY <1>1
  <2>2. /\ \A i \in Indices, l \in Listings : x \notin index[i][l].after
        /\ \A y \in Workers : x \notin job[y].after
    BY <2>1 DEF Healing, Stamps
  <2>3. x \notin FullRuns
    BY <2>1 DEF FullRuns
  <2>4. QED BY <1>1, <2>2, <2>3
<1>3. \A x \in Workers \ {w} : ~job'[x].quiet
  BY <1>1 DEF Healing, Alone
<1>4. ASSUME job'[w].quiet
      PROVE  /\ Alone(w)'
             /\ job'[w].kind \in {"full", "rebuild"} /\ (~job'[w].seed \/ job'[w].at = "count") =>
                   Copies(w, job'[w], source', index', alias')
  <2>1. Alone(w)
    BY <1>1, <1>4 DEF Healing
  <2>2. Alone(w)'
    BY <1>1, <2>1 DEF Alone
  <2>3. QED BY <1>1, <1>4, <2>2
<1>5. QED BY <1>2, <1>3, <1>4 DEF Healing

LEMMA EndHeals ==
    ASSUME Indexing, Healing, NEW w \in Workers, NEW ix \in IndexType, Finish(w, ix),
           UNCHANGED <<source, mail>>, job[w].at # "idle",
           \A i \in Indices, l \in Listings : ix[i][l].after \subseteq index[i][l].after \cup job[w].after
    PROVE  Healing'
<1>1. job \in [Workers -> Job]
  BY DEF Indexing, Types
<1>2. /\ job'[w] = NoJob
      /\ \A x \in Workers \ {w} : /\ Alike(job[x], job'[x]) /\ job'[x].quiet = job[x].quiet
                                  /\ job'[x].after = job[x].after \ {w}
      /\ \A i \in Indices, l \in Listings : index'[i][l].after = ix[i][l].after \ {w}
  BY <1>1, FinishFacts
<1>3. \A x \in Workers : ~job'[x].quiet
  BY <1>2, NoJobTyped DEF Healing, Alone
<1>4. Stamps'
  <2>. SUFFICES ASSUME NEW x \in Workers, job'[x].kind # "full"
                PROVE  /\ \A i \in Indices, l \in Listings : x \notin index'[i][l].after
                       /\ \A y \in Workers : x \notin job'[y].after
    BY DEF Stamps
  <2>1. CASE x = w
    BY <1>2, <2>1, NoJobTyped
  <2>2. CASE x # w
    <3>1. job[x].kind # "full"
      BY <1>2, <2>2 DEF Alike
    <3>2. /\ \A i \in Indices, l \in Listings : x \notin index[i][l].after
          /\ \A y \in Workers : x \notin job[y].after
      BY <3>1 DEF Healing, Stamps
    <3>3. QED BY <1>2, <3>2, NoJobTyped
  <2>3. QED BY <2>1, <2>2
<1>5. QED BY <1>3, <1>4 DEF Healing

LEMMA BeginHeals ==
    ASSUME Indexing, Healing, NEW w \in Workers, NEW j \in Job, Begin(w, j),
           UNCHANGED <<source, index>>, mail' \subseteq mail, j.after = {},
           j.at \in {"fetch", "resolve", "count"}
    PROVE  Healing'
<1>1. job \in [Workers -> Job]
  BY DEF Indexing, Types
<1>2. PICK born : born = {l \in Listings : Live(l)}
  OBVIOUS
<1>3. PICK calm : calm = (mail = {} /\ \A x \in Workers : ~Busy(x))
  OBVIOUS
<1>4. PICK k : k = [j EXCEPT !.born = born, !.quiet = calm]
  OBVIOUS
<1>5. /\ job[w].at = "idle" /\ job'[w] = k
      /\ \A x \in Workers \ {w} : /\ Alike(job[x], job'[x]) /\ job'[x].quiet = FALSE
                                  /\ job'[x].after = job[x].after
  BY <1>1, <1>2, <1>3, <1>4, BeginFacts
<1>6. k.at = j.at /\ k.kind = j.kind /\ k.after = {} /\ k.born = born /\ k.quiet = calm
  BY <1>4 DEF Job
<1>7. job[w].kind # "full"
  BY <1>5, JobFacts DEF JobFits
<1>8. Stamps'
  <2>. SUFFICES ASSUME NEW x \in Workers, job'[x].kind # "full"
                PROVE  /\ \A i \in Indices, l \in Listings : x \notin index'[i][l].after
                       /\ \A y \in Workers : x \notin job'[y].after
    BY DEF Stamps
  <2>1. job[x].kind # "full"
    BY <1>5, <1>7 DEF Alike
  <2>2. /\ \A i \in Indices, l \in Listings : x \notin index[i][l].after
        /\ \A y \in Workers : x \notin job[y].after
    BY <2>1 DEF Healing, Stamps
  <2>3. QED BY <1>5, <1>6, <2>2
<1>9. ASSUME job'[w].quiet
      PROVE  /\ Alone(w)'
             /\ Copies(w, job'[w], source', index', alias')
  <2>1. mail = {} /\ \A x \in Workers : job[x].at = "idle"
    BY <1>3, <1>5, <1>6, <1>9 DEF Busy
  <2>2. \A x \in Workers \ {w} : job'[x].at = "idle"
    BY <1>5, <2>1 DEF Alike
  <2>3. Alone(w)'
    BY <1>2, <1>5, <1>6, <2>1, <2>2 DEF Alone, Live
  <2>4. \A i \in Indices, l \in Listings : w \notin index'[i][l].after
    BY <1>7 DEF Healing, Stamps
  <2>5. QED BY <1>5, <1>6, <2>3, <2>4 DEF Copies
<1>10. QED BY <1>5, <1>8, <1>9 DEF Healing

LEMMA SourceHeals ==
    ASSUME Indexing, Healing, NEW l \in Listings,
           CreateListing(l) \/ UpdateListing(l) \/ RemoveListing(l)
    PROVE  Healing'
<1>1. job' = Disturbed(job, None) /\ UNCHANGED index
  BY DEF CreateListing, UpdateListing, RemoveListing, WriteSource
<1>2. \A x \in Workers : /\ job'[x].quiet = FALSE /\ job'[x].kind = job[x].kind
                         /\ job'[x].after = job[x].after
  <2>. SUFFICES ASSUME NEW x \in Workers
                PROVE  /\ job'[x].quiet = FALSE /\ job'[x].kind = job[x].kind
                       /\ job'[x].after = job[x].after
    OBVIOUS
  <2>1. PICK y \in Job : y = job[x]
    BY DEF Indexing, Types
  <2>2. x # None
    OBVIOUS
  <2>3. job'[x] = [y EXCEPT !.quiet = FALSE]
    BY <1>1, <2>1, <2>2 DEF Disturbed
  <2>4. QED BY <2>1, <2>3 DEF Job
<1>3. QED BY <1>1, <1>2 DEF Healing, Stamps

LEMMA MailHeals ==
    ASSUME Indexing, Healing, NEW m \in mail, Lose(m) \/ \E w \in Workers : Deliver(w, m)
    PROVE  Healing'
<1>1. CASE Lose(m)
  <2>1. UNCHANGED <<job, index>>
    BY <1>1 DEF Lose
  <2>2. \A w \in Workers : ~job[w].quiet
    BY DEF Healing, Alone
  <2>3. QED BY <2>1, <2>2 DEF Healing, Stamps
<1>2. ASSUME NEW w \in Workers, Deliver(w, m) PROVE Healing'
  <2>1. PICK at \in {"fetch", "resolve"} : at = IF m.kind = "index" THEN "fetch" ELSE "resolve"
    OBVIOUS
  <2>2. m.kind \in {"index", "delete"} /\ m.lst \in Listings
    BY DEF Indexing, Types, Call
  <2>3. PICK j : j = [NoJob EXCEPT !.at = at, !.kind = m.kind, !.ident = "uuid", !.lst = m.lst]
    OBVIOUS
  <2>4. j \in Job /\ j.at = at
    BY <2>1, <2>2, <2>3, NoJobTyped DEF Job, AllKinds
  <2>5. j.after = {}
    BY ONLY <2>3 DEF NoJob
  <2>6. Begin(w, j) /\ mail' = mail \ {m} /\ UNCHANGED <<source, index>>
    BY <1>2, <2>1, <2>3 DEF Deliver
  <2>7. QED BY <2>1, <2>4, <2>5, <2>6, BeginHeals
<1>3. QED BY <1>1, <1>2

LEMMA AskHeals ==
    ASSUME Indexing, Healing, NEW w \in Workers, NEW kind \in AllKinds, NEW l \in Listings,
           NEW ident \in Idents, Ask(w, kind, l, ident)
    PROVE  Healing'
<1>1. UNCHANGED <<source, index, mail>>
  BY DEF Ask
<1>2. PICK at \in {"fetch", "count"} : at = IF kind = "index" THEN "fetch" ELSE "count"
  OBVIOUS
<1>3. PICK id \in {"uuid", "slug", "none"} : id = IF kind = "index" THEN ident ELSE "none"
  OBVIOUS
<1>4. PICK lst \in Listings \cup {None} : lst = IF kind = "index" THEN l ELSE None
  OBVIOUS
<1>5. PICK j : j = [NoJob EXCEPT !.at = at, !.kind = kind, !.ident = id, !.lst = lst]
  OBVIOUS
<1>6. j \in Job /\ j.at = at /\ j.after = {}
  <2>1. NoJob \in Job
    BY NoJobTyped
  <2>2. [NoJob EXCEPT !.at = at, !.kind = kind] \in Job
    BY <2>1 DEF Job
  <2>3. j = [[NoJob EXCEPT !.at = at, !.kind = kind] EXCEPT !.ident = id, !.lst = lst]
    BY ONLY <1>5
  <2>4. j \in Job
    BY ONLY <2>2, <2>3 DEF Job
  <2>5. j.at = at /\ j.after = {}
    BY ONLY <2>1, <1>5 DEF NoJob, Job
  <2>6. QED BY <2>4, <2>5
<1>7. Begin(w, j)
  BY <1>2, <1>3, <1>4, <1>5 DEF Ask
<1>8. QED BY <1>1, <1>2, <1>6, <1>7, BeginHeals

LEMMA FetchHeals ==
    ASSUME Indexing, Healing, NEW w \in Workers, Fetch(w)
    PROVE  Healing'
<1>1. job[w] \in Job /\ JobFits(job[w]) /\ index \in IndexType /\ job = [x \in Workers |-> job[x]]
  BY JobFacts
<1>2. UNCHANGED <<source, mail>> /\ job[w].at = "fetch" /\ job[w].kind = "index"
  BY <1>1 DEF Fetch, JobFits
<1>3. CASE Finish(w, index)
  BY <1>1, <1>2, <1>3, EndHeals
<1>4. ASSUME NEW doc, job' = [job EXCEPT ![w].doc = doc, ![w].at = "resolve"], UNCHANGED index
      PROVE  Healing'
  <2>1. PICK k : k = [job[w] EXCEPT !.doc = doc, !.at = "resolve"]
    OBVIOUS
  <2>2. /\ k.at = "resolve" /\ k.kind = job[w].kind /\ k.quiet = job[w].quiet
        /\ k.born = job[w].born /\ k.after = job[w].after
    BY <1>1, <2>1 DEF Job
  <2>3. job' = [job EXCEPT ![w] = k]
    BY <1>1, <1>4, <2>1
  <2>4. QED BY <1>2, <1>4, <2>2, <2>3, OwnHeals
<1>5. QED BY <1>3, <1>4 DEF Fetch

LEMMA ResolveHeals ==
    ASSUME Indexing, Healing, NEW w \in Workers, Resolve(w)
    PROVE  Healing'
<1>1. job[w] \in Job /\ JobFits(job[w]) /\ job = [x \in Workers |-> job[x]]
  BY JobFacts
<1>2. job[w].at = "resolve" /\ job[w].kind \in {"index", "delete"}
  BY <1>1 DEF Resolve, JobFits
<1>3. PICK at \in {"erase", "put"} : at = IF job[w].kind = "delete" THEN "erase" ELSE "put"
  OBVIOUS
<1>4. PICK k : k = [job[w] EXCEPT !.target = write_index, !.after = FullRuns, !.at = at]
  OBVIOUS
<1>5. /\ k.at = at /\ k.kind = job[w].kind /\ k.quiet = job[w].quiet
      /\ k.born = job[w].born /\ k.after = FullRuns
  BY <1>1, <1>4 DEF Job
<1>6. job' = [job EXCEPT ![w] = k] /\ UNCHANGED <<source, mail, index>>
  BY <1>1, <1>3, <1>4 DEF Resolve
<1>7. QED BY <1>2, <1>3, <1>5, <1>6, OwnHeals

LEMMA EndingHeals ==
    ASSUME Indexing, Healing, NEW w \in Workers,
           Put(w) \/ Erase(w) \/ Prune(w) \/ DropOld(w) \/ Abort(w)
    PROVE  Healing'
<1>1. job[w] \in Job /\ JobFits(job[w]) /\ index \in IndexType
  BY JobFacts
<1>2. UNCHANGED <<source, mail>> /\ job[w].at # "idle"
  BY DEF Put, Erase, Prune, DropOld, Abort, Busy
<1>3. PICK ix \in IndexType :
         /\ Finish(w, ix)
         /\ \A i \in Indices, l \in Listings :
               ix[i][l].after \subseteq index[i][l].after \cup job[w].after
  <2>1. CASE Put(w)
    <3>1. job[w].target \in Indices /\ job[w].lst \in Listings /\ job[w].doc \in Listing
      BY <1>1, <2>1 DEF JobFits, Put
    <3>2. PICK e : e = [v |-> job[w].doc.v, after |-> job[w].after]
      OBVIOUS
    <3>3. e \in Entry /\ e.after = job[w].after
      BY <1>1, <3>1, <3>2 DEF Entry, Listing, Job
    <3>4. PICK ix : ix = Stored(job[w].target, job[w].lst, e)
      OBVIOUS
    <3>5. ix \in IndexType /\ \A i \in Indices, l \in Listings :
             ix[i][l] = IF i = job[w].target /\ l = job[w].lst THEN e ELSE index[i][l]
      BY <1>1, <3>1, <3>3, <3>4, StoredTyped
    <3>6. Finish(w, ix)
      BY <2>1, <3>2, <3>4 DEF Put
    <3>7. QED BY <3>3, <3>5, <3>6
  <2>2. CASE Erase(w)
    <3>1. job[w].target \in Indices /\ job[w].lst \in Listings
      BY <1>1, <2>2 DEF JobFits, Erase
    <3>2. PICK ix : ix = Stored(job[w].target, job[w].lst, NoEntry)
      OBVIOUS
    <3>3. ix \in IndexType /\ \A i \in Indices, l \in Listings :
             ix[i][l] = IF i = job[w].target /\ l = job[w].lst THEN NoEntry ELSE index[i][l]
      BY <1>1, <3>1, <3>2, StoredTyped
    <3>4. Finish(w, ix)
      BY <2>2, <3>2 DEF Erase
    <3>5. QED BY <3>3, <3>4, NoEntryTyped
  <2>3. CASE Prune(w)
    <3>1. job[w].target \in Indices
      BY <1>1, <2>3 DEF JobFits, Prune
    <3>2. PICK px : px = [index EXCEPT ![job[w].target] =
                             [l \in Listings |-> IF w \in @[l].after THEN @[l] ELSE NoEntry]]
      OBVIOUS
    <3>3. /\ px \in IndexType
          /\ \A i \in Indices, l \in Listings : px[i][l] \in {NoEntry, index[i][l]}
      <4>1. PICK t \in Indices : t = job[w].target
        BY <3>1
      <4>2. px = [index EXCEPT ![t] = [l \in Listings |-> IF w \in @[l].after THEN @[l] ELSE NoEntry]]
        BY <3>2, <4>1
      <4>3. QED BY <1>1, <4>2 DEF IndexType
    <3>4. Finish(w, IF ~job[w].failed /\ job[w].wrote # {} THEN px ELSE index)
      BY <2>3, <3>2 DEF Prune
    <3>5. QED BY <1>1, <3>3, <3>4, NoEntryTyped
  <2>4. CASE DropOld(w)
    <3>1. PICK ix : ix = [i \in Indices |-> IF i \in job[w].old THEN Empty ELSE index[i]]
      OBVIOUS
    <3>2. ix \in IndexType /\ \A i \in Indices, l \in Listings : ix[i][l] \in {NoEntry, index[i][l]}
      BY <1>1, <3>1 DEF IndexType, Empty
    <3>3. Finish(w, ix)
      BY <2>4, <3>1 DEF DropOld
    <3>4. QED BY <3>2, <3>3, NoEntryTyped
  <2>5. CASE Abort(w)
    BY <1>1, <2>5 DEF Abort
  <2>6. QED BY <2>1, <2>2, <2>3, <2>4, <2>5
<1>4. QED BY <1>2, <1>3, EndHeals

LEMMA CountHeals ==
    ASSUME Indexing, Healing, NEW w \in Workers, Count(w)
    PROVE  Healing'
<1>1. job[w] \in Job /\ job = [x \in Workers |-> job[x]] /\ job[w].at = "count"
  BY JobFacts DEF Count
<1>2. PICK seed \in BOOLEAN, todo \in SUBSET Listings :
         job' = [job EXCEPT ![w].seed = seed, ![w].todo = todo, ![w].at = "target"]
  BY DEF Count
<1>3. PICK k : k = [job[w] EXCEPT !.seed = seed, !.todo = todo, !.at = "target"]
  OBVIOUS
<1>4. /\ k.at = "target" /\ k.kind = job[w].kind /\ k.quiet = job[w].quiet
      /\ k.born = job[w].born /\ k.after = job[w].after /\ k.wrote = job[w].wrote
  BY <1>1, <1>3 DEF Job
<1>5. job' = [job EXCEPT ![w] = k] /\ UNCHANGED <<source, mail, index>>
  BY <1>1, <1>2, <1>3 DEF Count
<1>6. job[w].quiet /\ k.kind = "full" => \A i \in Indices, l \in Listings : w \notin index[i][l].after
  BY <1>1, <1>4 DEF Healing, Copies
<1>7. QED BY <1>1, <1>4, <1>5, <1>6, OwnHeals DEF Copies

LEMMA TargetHeals ==
    ASSUME Indexing, Standing, Healing, NEW w \in Workers, Target(w)
    PROVE  Healing'
<1>1. /\ job[w] \in Job /\ JobFits(job[w]) /\ job = [x \in Workers |-> job[x]]
      /\ job[w].at = "target" /\ Stands(job[w], source, index)
  BY JobFacts DEF Target, Standing
<1>2. job[w].wrote = {} /\ job[w].kind \in {"full", "rebuild"}
  BY <1>1 DEF JobFits, Stands
<1>3. PICK a \in Indices : a = write_index /\ alias = {a}
  BY Behind
<1>4. PICK at \in {"read", "create"}, target \in Int :
         /\ job' = [job EXCEPT ![w].target = target, ![w].after = FullRuns, ![w].at = at]
         /\ at = "read" => job[w].kind = "full" /\ target = a
  <2>1. a \in Int /\ a + 1 \in Int
    BY <1>3 DEF Indices
  <2>2. QED BY <1>2, <1>3, <2>1 DEF Target
<1>5. PICK k : k = [job[w] EXCEPT !.target = target, !.after = FullRuns, !.at = at]
  OBVIOUS
<1>6. /\ k.at = at /\ k.kind = job[w].kind /\ k.quiet = job[w].quiet /\ k.seed = job[w].seed
      /\ k.born = job[w].born /\ k.after = FullRuns /\ k.wrote = {} /\ k.target = target
  BY <1>1, <1>2, <1>5 DEF Job
<1>7. job' = [job EXCEPT ![w] = k] /\ UNCHANGED <<source, mail, index, alias>>
  BY <1>1, <1>4, <1>5 DEF Target
<1>8. job[w].kind = "full" => w \in FullRuns
  BY DEF FullRuns
<1>9. ASSUME job[w].quiet, ~k.seed
      PROVE  Copies(w, k, source', index', alias')
  <2>1. k.kind = "full" => \A i \in Indices, l \in Listings : w \notin index[i][l].after
    BY <1>1, <1>2, <1>6, <1>9 DEF Healing, Copies
  <2>2. k.at = "read" => k.kind = "full" /\ k.target \in alias /\ k.target \in Indices
    BY <1>3, <1>4, <1>6
  <2>3. QED BY <1>4, <1>6, <1>7, <1>8, <2>1, <2>2 DEF Copies
<1>10. k.at \notin {"idle", "count"} /\ job[w].at # "idle"
  BY <1>1, <1>4, <1>6
<1>11. /\ k.after \subseteq job[w].after \cup FullRuns
       /\ \A i \in Indices, l \in Listings : index'[i][l].after \subseteq index[i][l].after \cup job[w].after
  BY <1>6, <1>7
<1>12. k.quiet = job[w].quiet /\ k.born = job[w].born /\ k.kind = job[w].kind
  BY <1>6
<1>13. job' = [job EXCEPT ![w] = k] /\ UNCHANGED <<source, mail>>
  BY <1>7
<1>14. QED BY <1>9, <1>10, <1>11, <1>12, <1>13, OwnHeals

LEMMA CreateTargetHeals ==
    ASSUME Indexing, Standing, Healing, NEW w \in Workers, CreateTarget(w)
    PROVE  Healing'
<1>1. /\ job[w] \in Job /\ JobFits(job[w]) /\ job = [x \in Workers |-> job[x]]
      /\ job[w].at = "create" /\ Stands(job[w], source, index) /\ index \in IndexType
  BY JobFacts DEF CreateTarget, Standing
<1>2. job[w].wrote = {} /\ job[w].kind = "rebuild" /\ job[w].target \in Indices
  BY <1>1 DEF JobFits, Stands
<1>3. PICK k : k = [job[w] EXCEPT !.at = "read"]
  OBVIOUS
<1>4. /\ k.at = "read" /\ k.kind = "rebuild" /\ k.quiet = job[w].quiet
      /\ k.born = job[w].born /\ k.after = job[w].after /\ k.wrote = {} /\ k.target = job[w].target
  BY <1>1, <1>2, <1>3 DEF Job
<1>5. job' = [job EXCEPT ![w] = k] /\ UNCHANGED <<source, mail>>
  BY <1>1, <1>3 DEF CreateTarget, Go
<1>6. \A i \in Indices, l \in Listings :
         index'[i][l] = IF i = job[w].target THEN NoEntry ELSE index[i][l]
  BY <1>1, <1>2 DEF CreateTarget, IndexType, Empty
<1>7. Copies(w, k, source', index', alias')
  BY <1>2, <1>4, <1>6 DEF Copies
<1>8. \A i \in Indices, l \in Listings : index'[i][l].after \subseteq index[i][l].after \cup job[w].after
  BY <1>6, NoEntryTyped
<1>9. QED BY <1>1, <1>2, <1>4, <1>5, <1>7, <1>8, OwnHeals

LEMMA ReadHeals ==
    ASSUME Indexing, Standing, Healing, NEW w \in Workers, Read(w)
    PROVE  Healing'
<1>1. /\ job[w] \in Job /\ JobFits(job[w]) /\ job = [x \in Workers |-> job[x]]
      /\ Stands(job[w], source, index)
  BY JobFacts DEF Standing
<1>2. job[w].at = "read" /\ UNCHANGED <<source, mail, index, alias>>
  BY DEF Read
<1>3. job[w].kind \in {"full", "rebuild"}
  BY <1>1, <1>2 DEF JobFits
<1>4. job[w].quiet /\ ~job[w].seed => Copies(w, job[w], source, index, alias)
  BY <1>3 DEF Healing
<1>5. CASE job[w].todo = {} /\ Go(w, CASE job[w].kind = "rebuild" -> "swap" [] OTHER -> "prune")
  <2>1. PICK at \in {"swap", "prune"} : at = CASE job[w].kind = "rebuild" -> "swap" [] OTHER -> "prune"
    OBVIOUS
  <2>2. PICK k : k = [job[w] EXCEPT !.at = at]
    OBVIOUS
  <2>3. /\ k.at = at /\ k.kind = job[w].kind /\ k.quiet = job[w].quiet /\ k.seed = job[w].seed
        /\ k.born = job[w].born /\ k.after = job[w].after /\ k.wrote = job[w].wrote
        /\ k.target = job[w].target
    BY <1>1, <2>1, <2>2 DEF Job
  <2>4. job' = [job EXCEPT ![w] = k]
    BY <1>1, <1>5, <2>1, <2>2 DEF Go
  <2>5. ASSUME job[w].quiet, ~k.seed PROVE Copies(w, k, source', index', alias')
    BY <1>2, <1>4, <2>1, <2>3, <2>5 DEF Copies
  <2>6. QED BY <1>2, <2>1, <2>3, <2>4, <2>5, OwnHeals
<1>6. ASSUME NEW l \in job[w].todo,
             NEW d, d = IF job[w].seed THEN [v |-> 0, live |-> TRUE] ELSE source[l],
             job' = [job EXCEPT ![w] = IF d.live
                            THEN [job[w] EXCEPT !.todo = @ \ {l}, !.at = "bulk", !.lst = l, !.doc = d]
                            ELSE [job[w] EXCEPT !.todo = @ \ {l}]]
      PROVE  Healing'
  <2>1. PICK todo : todo = job[w].todo \ {l}
    OBVIOUS
  <2>2. CASE d.live
    <3>1. PICK k : k = [job[w] EXCEPT !.todo = todo, !.at = "bulk", !.lst = l, !.doc = d]
      OBVIOUS
    <3>2. /\ k.at = "bulk" /\ k.kind = job[w].kind /\ k.quiet = job[w].quiet
          /\ k.seed = job[w].seed /\ k.born = job[w].born /\ k.after = job[w].after
          /\ k.wrote = job[w].wrote /\ k.target = job[w].target /\ k.lst = l /\ k.doc = d
      BY <1>1, <3>1 DEF Job
    <3>3. job' = [job EXCEPT ![w] = k]
      BY <1>1, <1>6, <2>1, <2>2, <3>1
    <3>4. ASSUME job[w].quiet, ~k.seed PROVE Copies(w, k, source', index', alias')
      BY <1>2, <1>4, <1>6, <3>2, <3>4 DEF Copies
    <3>5. QED BY <1>2, <3>2, <3>3, <3>4, OwnHeals
  <2>3. CASE ~d.live
    <3>1. PICK k : k = [job[w] EXCEPT !.todo = todo]
      OBVIOUS
    <3>2. /\ k.at = "read" /\ k.kind = job[w].kind /\ k.quiet = job[w].quiet
          /\ k.seed = job[w].seed /\ k.born = job[w].born /\ k.after = job[w].after
          /\ k.wrote = job[w].wrote /\ k.target = job[w].target
      BY <1>1, <1>2, <3>1 DEF Job
    <3>3. job' = [job EXCEPT ![w] = k]
      BY <1>1, <1>6, <2>1, <2>3, <3>1
    <3>4. ASSUME job[w].quiet, ~k.seed PROVE Copies(w, k, source', index', alias')
      BY <1>2, <1>4, <3>2, <3>4 DEF Copies
    <3>5. QED BY <1>2, <3>2, <3>3, <3>4, OwnHeals
  <2>4. QED BY <2>2, <2>3
<1>7. QED BY <1>5, <1>6 DEF Read

LEMMA SwapHeals ==
    ASSUME Indexing, Standing, Healing, NEW w \in Workers, Swap(w)
    PROVE  Healing'
<1>1. /\ job[w] \in Job /\ JobFits(job[w]) /\ job = [x \in Workers |-> job[x]]
      /\ Stands(job[w], source, index)
  BY JobFacts DEF Standing
<1>2. job[w].at = "swap" /\ job[w].kind = "rebuild" /\ job[w].todo = {}
  BY <1>1 DEF Swap, JobFits, Stands
<1>3. PICK old : old = alias \ {job[w].target}
  OBVIOUS
<1>4. PICK k : k = [job[w] EXCEPT !.old = old, !.at = "drop"]
  OBVIOUS
<1>5. /\ k.at = "drop" /\ k.kind = "rebuild" /\ k.quiet = job[w].quiet
      /\ k.seed = job[w].seed /\ k.born = job[w].born /\ k.after = job[w].after
      /\ k.wrote = job[w].wrote /\ k.target = job[w].target /\ k.failed = job[w].failed
  BY <1>1, <1>2, <1>4 DEF Job
<1>6. job' = [job EXCEPT ![w] = k] /\ UNCHANGED <<source, mail, index>>
  BY <1>1, <1>3, <1>4 DEF Swap
<1>7. ASSUME job[w].quiet, ~k.seed PROVE Copies(w, k, source', index', alias')
  <2>1. Copies(w, job[w], source, index, alias)
    BY <1>2, <1>5, <1>7 DEF Healing
  <2>2. job[w].born = {l \in Listings : source[l].live}
    BY <1>7 DEF Healing, Alone
  <2>3. ~job[w].failed => \A l \in Listings : source[l].live => l \in job[w].wrote
    BY <1>1, <1>2, <1>5, <1>7, <2>2 DEF Stands
  <2>4. QED BY <1>2, <1>5, <1>6, <2>1, <2>3 DEF Copies
<1>8. QED BY <1>2, <1>5, <1>6, <1>7, OwnHeals

LEMMA BulkHeals ==
    ASSUME Indexing, Standing, Healing, NEW w \in Workers, Bulk(w)
    PROVE  Healing'
<1>1. /\ job[w] \in Job /\ JobFits(job[w]) /\ index \in IndexType
      /\ job = [x \in Workers |-> job[x]] /\ Stands(job[w], source, index)
  BY JobFacts DEF Standing
<1>2. job[w].at = "bulk" /\ UNCHANGED <<source, mail, alias>>
  BY DEF Bulk
<1>3. /\ job[w].kind \in {"full", "rebuild"} /\ job[w].target \in Indices /\ job[w].lst \in Listings
      /\ job[w].doc \in Listing /\ job[w].doc.live
  BY <1>1, <1>2 DEF JobFits
<1>4. job[w].quiet /\ ~job[w].seed => Copies(w, job[w], source, index, alias)
  BY <1>3 DEF Healing
<1>5. ASSUME NEW wrote, NEW failed,
             NEW k, k = [job[w] EXCEPT !.at = "read", !.lst = None, !.doc = NoSource,
                                       !.wrote = wrote, !.failed = failed],
             job' = [job EXCEPT ![w] = k],
             \/ wrote = job[w].wrote /\ UNCHANGED index
             \/ /\ wrote = job[w].wrote \cup {job[w].lst}
                /\ \A i \in Indices, l \in Listings :
                      IF i = job[w].target /\ l = job[w].lst
                      THEN index'[i][l].v = job[w].doc.v /\ index'[i][l].after = job[w].after
                      ELSE index'[i][l] = index[i][l]
      PROVE  Healing'
  <2>1. /\ k.at = "read" /\ k.kind = job[w].kind /\ k.quiet = job[w].quiet
        /\ k.seed = job[w].seed /\ k.born = job[w].born /\ k.after = job[w].after
        /\ k.wrote = wrote /\ k.target = job[w].target
    BY <1>1, <1>5 DEF Job
  <2>2. ASSUME job[w].quiet, ~k.seed PROVE Copies(w, k, source', index', alias')
    <3>1. Copies(w, job[w], source, index, alias)
      BY <1>4, <2>1, <2>2
    <3>2. job[w].doc = source[job[w].lst]
      BY <1>2, <3>1 DEF Copies
    <3>3. job[w].kind = "full" => w \in job[w].after /\ job[w].target \in alias
      BY <1>2, <3>1 DEF Copies
    <3>4. ASSUME NEW l \in Listings
          PROVE  /\ l \in wrote => source[l].live /\ index'[job[w].target][l].v = source[l].v
                 /\ job[w].kind = "full" => (l \in wrote <=> w \in index'[job[w].target][l].after)
                 /\ job[w].kind = "rebuild" /\ l \notin wrote => index'[job[w].target][l] = NoEntry
      <4>1. /\ l \in job[w].wrote => source[l].live /\ index[job[w].target][l].v = source[l].v
            /\ job[w].kind = "full" => (l \in job[w].wrote <=> w \in index[job[w].target][l].after)
            /\ job[w].kind = "rebuild" /\ l \notin job[w].wrote => index[job[w].target][l] = NoEntry
        BY <1>2, <3>1 DEF Copies
      <4>2. CASE wrote = job[w].wrote /\ UNCHANGED index
        BY <4>1, <4>2
      <4>3. CASE /\ wrote = job[w].wrote \cup {job[w].lst}
                 /\ \A i \in Indices, m \in Listings :
                       IF i = job[w].target /\ m = job[w].lst
                       THEN index'[i][m].v = job[w].doc.v /\ index'[i][m].after = job[w].after
                       ELSE index'[i][m] = index[i][m]
        <5>1. CASE l = job[w].lst
          BY <1>3, <3>2, <3>3, <4>3, <5>1
        <5>2. CASE l # job[w].lst
          BY <1>3, <4>1, <4>3, <5>2
        <5>3. QED BY <5>1, <5>2
      <4>4. QED BY <1>5, <4>2, <4>3
    <3>5. QED BY <1>2, <2>1, <3>3, <3>4 DEF Copies
  <2>3. \A i \in Indices, l \in Listings : index'[i][l].after \subseteq index[i][l].after \cup job[w].after
    BY <1>5
  <2>4. QED BY <1>2, <1>5, <2>1, <2>2, <2>3, OwnHeals
<1>6. CASE /\ index' = Stored(job[w].target, job[w].lst, [v |-> job[w].doc.v, after |-> job[w].after])
           /\ job' = [job EXCEPT ![w] = [NextItem(job[w]) EXCEPT !.wrote = @ \cup {job[w].lst}]]
  <2>1. PICK wrote : wrote = job[w].wrote \cup {job[w].lst}
    OBVIOUS
  <2>2. PICK failed : failed = job[w].failed
    OBVIOUS
  <2>3. PICK k : k = [job[w] EXCEPT !.at = "read", !.lst = None, !.doc = NoSource, !.wrote = wrote,
                                    !.failed = failed]
    OBVIOUS
  <2>4. job' = [job EXCEPT ![w] = k]
    <3>1. PICK n : n = NextItem(job[w])
      OBVIOUS
    <3>2. job' = [job EXCEPT ![w] = [n EXCEPT !.wrote = @ \cup {job[w].lst}]]
      BY <1>1, <1>6, <3>1
    <3>3. [n EXCEPT !.wrote = @ \cup {job[w].lst}] = k
      BY <1>1, <2>1, <2>2, <2>3, <3>1 DEF NextItem, Job
    <3>4. QED BY <3>2, <3>3
  <2>5. PICK e : e = [v |-> job[w].doc.v, after |-> job[w].after]
    OBVIOUS
  <2>6. e \in Entry /\ e.v = job[w].doc.v /\ e.after = job[w].after
    BY <1>1, <1>3, <2>5 DEF Entry, Listing, Job
  <2>7. \A i \in Indices, l \in Listings :
           index'[i][l] = IF i = job[w].target /\ l = job[w].lst THEN e ELSE index[i][l]
    BY <1>1, <1>3, <1>6, <2>5, <2>6, StoredTyped
  <2>8. \A i \in Indices, l \in Listings :
           IF i = job[w].target /\ l = job[w].lst
           THEN index'[i][l].v = job[w].doc.v /\ index'[i][l].after = job[w].after
           ELSE index'[i][l] = index[i][l]
    BY <2>6, <2>7
  <2>9. QED BY <1>5, <2>1, <2>3, <2>4, <2>8
<1>7. CASE job' = [job EXCEPT ![w] = [NextItem(job[w]) EXCEPT !.failed = TRUE]] /\ UNCHANGED index
  <2>1. PICK wrote : wrote = job[w].wrote
    OBVIOUS
  <2>2. PICK k : k = [job[w] EXCEPT !.at = "read", !.lst = None, !.doc = NoSource, !.wrote = wrote,
                                    !.failed = TRUE]
    OBVIOUS
  <2>3. job' = [job EXCEPT ![w] = k]
    <3>1. PICK n : n = NextItem(job[w])
      OBVIOUS
    <3>2. job' = [job EXCEPT ![w] = [n EXCEPT !.failed = TRUE]]
      BY <1>1, <1>7, <3>1
    <3>3. [n EXCEPT !.failed = TRUE] = k
      BY <1>1, <2>1, <2>2, <3>1 DEF NextItem, Job
    <3>4. QED BY <3>2, <3>3
  <2>4. QED BY <1>5, <1>7, <2>1, <2>2, <2>3
<1>8. QED BY <1>6, <1>7 DEF Bulk

LEMMA RestartHeals ==
    ASSUME Indexing, Restart
    PROVE  Healing'
<1>1. \A w \in Workers : job'[w] = NoJob
  BY DEF Restart
<1>2. \A w \in Workers : ~job'[w].quiet /\ job'[w].after = {}
  BY <1>1, NoJobTyped
<1>3. index' = [i \in Indices |-> [l \in Listings |-> [index[i][l] EXCEPT !.after = {}]]]
  BY DEF Restart
<1>4. ASSUME NEW i \in Indices, NEW l \in Listings PROVE index'[i][l].after = {}
  <2>1. PICK e \in Entry \cup {NoEntry} : e = index[i][l]
    BY DEF Indexing, Types, IndexType
  <2>2. PICK d : d = [e EXCEPT !.after = {}]
    OBVIOUS
  <2>3. d.after = {}
    BY <2>1, <2>2 DEF Entry, NoEntry
  <2>4. index'[i][l] = d
    BY <1>3, <2>1, <2>2
  <2>5. QED BY <2>3, <2>4
<1>5. QED BY <1>2, <1>4 DEF Healing, Stamps

LEMMA StepHealing ==
    ~RebuildsOverlap /\ Indexing /\ Standing /\ Healing /\ [SearchNext]_searchVars => Healing'
<1>. SUFFICES ASSUME ~RebuildsOverlap, Indexing, Standing, Healing, [SearchNext]_searchVars
              PROVE  Healing'
  OBVIOUS
<1>1. CASE UNCHANGED searchVars
  BY <1>1 DEF Healing, Stamps, Alone, searchVars
<1>2. CASE SearchNext
  <2>1. ASSUME NEW w \in Workers, SearchStep(w) PROVE Healing'
    BY <2>1, FetchHeals, ResolveHeals, EndingHeals, CountHeals, TargetHeals, CreateTargetHeals,
       ReadHeals, BulkHeals, SwapHeals DEF SearchStep
  <2>2. QED BY <1>2, <2>1, SourceHeals, MailHeals, AskHeals, RestartHeals DEF SearchNext
<1>3. QED BY <1>1, <1>2

LEMMA AlwaysHealing ==
    ASSUME ~RebuildsOverlap
    PROVE  SearchSpec => [](Indexing /\ Standing /\ Healing)
<1>1. Indexing /\ Standing /\ Healing /\ [SearchNext]_searchVars => Healing'
  BY StepHealing
<1>2. SearchSpec => [](Indexing /\ Standing)
  BY AlwaysStanding
<1>3. QED BY InitHealing, <1>1, <1>2, PTL DEF SearchSpec

\* A full run keeps what it has stamped and a rebuild what it has written: all live listings.
LEMMA PruneAgrees ==
    ASSUME Indexing, Standing, Healing, NEW w \in Workers, Complete(w), Prune(w)
    PROVE  Agrees'
<1>1. /\ job[w] \in Job /\ JobFits(job[w]) /\ index \in IndexType /\ Stands(job[w], source, index)
      /\ job \in [Workers -> Job]
  BY JobFacts DEF Standing
<1>2. /\ job[w].at = "prune" /\ job[w].kind = "full" /\ job[w].target \in Indices
      /\ job[w].todo = {} /\ UNCHANGED <<source, alias>>
  BY <1>1 DEF JobFits, Prune, Stands
<1>3. Copies(w, job[w], source, index, alias) /\ job[w].born = {l \in Listings : source[l].live}
  BY DEF Healing, Alone, Complete
<1>4. PICK a \in Indices : alias = {a}
  BY Behind
<1>5. job[w].target = a
  BY <1>2, <1>3, <1>4 DEF Copies
<1>6. \A l \in Listings : source[l].live => l \in job[w].wrote
  BY <1>1, <1>2, <1>3 DEF Stands, Complete
<1>7. \A l \in Listings :
         /\ l \in job[w].wrote => source[l].live /\ index[a][l].v = source[l].v
         /\ l \in job[w].wrote <=> w \in index[a][l].after
  BY <1>2, <1>3, <1>5 DEF Copies
<1>8. PICK px : px = [index EXCEPT ![a] = [l \in Listings |-> IF w \in @[l].after THEN @[l] ELSE NoEntry]]
  OBVIOUS
<1>9. /\ px \in IndexType
      /\ \A l \in Listings : px[a][l] = IF w \notin index[a][l].after THEN NoEntry ELSE index[a][l]
  BY <1>1, <1>8 DEF IndexType
<1>10. Finish(w, px)
  BY <1>5, <1>8 DEF Prune, Complete
<1>11. \A l \in Listings : index'[a][l].v = px[a][l].v
  BY <1>1, <1>9, <1>10, FinishFacts
<1>12. \A l \in Listings : index'[a][l].v = IF source[l].live THEN source[l].v ELSE -1
  <2>. SUFFICES ASSUME NEW l \in Listings
                PROVE  index'[a][l].v = IF source[l].live THEN source[l].v ELSE -1
    OBVIOUS
  <2>1. CASE source[l].live
    <3>1. px[a][l] = index[a][l]
      BY <1>6, <1>7, <1>9, <2>1
    <3>2. QED BY <1>6, <1>7, <1>11, <2>1, <3>1
  <2>2. CASE ~source[l].live
    <3>1. px[a][l] = NoEntry
      BY <1>7, <1>9, <2>2
    <3>2. QED BY <1>11, <2>2, <3>1, NoEntryTyped
  <2>3. QED BY <2>1, <2>2
<1>13. QED BY <1>2, <1>4, <1>12 DEF Agrees, Live

LEMMA DropAgrees ==
    ASSUME Indexing, Standing, Healing, NEW w \in Workers, Complete(w), DropOld(w)
    PROVE  Agrees'
<1>1. /\ job[w] \in Job /\ JobFits(job[w]) /\ index \in IndexType
      /\ job \in [Workers -> Job] /\ Placed(job[w], alias, exists)
  BY JobFacts
<1>2. /\ job[w].at = "drop" /\ job[w].kind = "rebuild" /\ job[w].target \in Indices
      /\ alias = {job[w].target} /\ job[w].target \notin job[w].old
  BY <1>1 DEF JobFits, DropOld, Placed
<1>3. UNCHANGED <<source, alias>>
  BY <1>2 DEF DropOld
<1>4. Copies(w, job[w], source, index, alias)
  BY <1>2 DEF Healing, Complete
<1>5. \A l \in Listings :
         /\ source[l].live => l \in job[w].wrote
         /\ l \in job[w].wrote => source[l].live
         /\ l \in job[w].wrote => index[job[w].target][l].v = source[l].v
         /\ l \notin job[w].wrote => index[job[w].target][l] = NoEntry
  BY <1>2, <1>4 DEF Copies, Complete
<1>6. PICK ix : ix = [i \in Indices |-> IF i \in job[w].old THEN Empty ELSE index[i]]
  OBVIOUS
<1>7. ix \in IndexType /\ Finish(w, ix) /\ ix[job[w].target] = index[job[w].target]
  BY <1>1, <1>2, <1>6 DEF DropOld, IndexType, Empty
<1>8. \A l \in Listings : index'[job[w].target][l].v = index[job[w].target][l].v
  BY <1>1, <1>2, <1>7, FinishFacts
<1>9. \A l \in Listings : index'[job[w].target][l].v = IF source[l].live THEN source[l].v ELSE -1
  <2>. SUFFICES ASSUME NEW l \in Listings
                PROVE  index'[job[w].target][l].v = IF source[l].live THEN source[l].v ELSE -1
    OBVIOUS
  <2>1. CASE source[l].live
    BY <1>5, <1>8, <2>1
  <2>2. CASE ~source[l].live
    BY <1>5, <1>8, <2>2, NoEntryTyped
  <2>3. QED BY <2>1, <2>2
<1>10. QED BY <1>2, <1>3, <1>9 DEF Agrees, Live

\* A full_reindex, or a zero_downtime_reindex, that nothing disturbed and in which no item
\* failed leaves readers an index that agrees with Mongo, whatever lost calls, aborted runs
\* and restarts had made of it.
THEOREM RunsHealTheIndex ==
    ASSUME ~RebuildsOverlap
    PROVE  SearchSpec => ReindexHeals
<1>1. SearchSpec => [](Indexing /\ Standing /\ Healing)
  BY AlwaysHealing
<1>2. Indexing /\ Standing /\ Healing /\ [SearchNext]_searchVars =>
         [\A w \in Workers : Complete(w) /\ (Prune(w) \/ DropOld(w)) => Agrees']_searchVars
  BY PruneAgrees, DropAgrees
<1>3. QED BY <1>1, <1>2, PTL DEF SearchSpec, ReindexHeals

-----------------------------------------------------------------------------
\* SearchQuery: an answer is pieced together from calls to an index that moves.

HIDE SearchAssumption
USE QueryAssumption

-----------------------------------------------------------------------------
(* Pages: the order of what was found, cut into pieces *)

Shelved(ix) == \A l \in Homes : ix[l] \in Papers(l) \cup {Gone}
Ahead(ix, found, l) == Cardinality({k \in found : Before(ix, k, l)})
Clamped(left, size) == IF left <= 0 THEN 0 ELSE IF left < size THEN left ELSE size

LEMMA Ordered ==
    ASSUME NEW ix, Shelved(ix), NEW k \in Held(ix), NEW l \in Held(ix)
    PROVE  /\ ~Before(ix, k, k)
           /\ k # l => Before(ix, k, l) \/ Before(ix, l, k)
           /\ \A j \in Held(ix) : Before(ix, j, k) /\ Before(ix, k, l) => Before(ix, j, l)
<1>1. \A j \in Held(ix) : j \in Nat /\ ix[j].rank \in Int
  BY DEF Held, Shelved
<1>2. QED BY <1>1 DEF Before

\* No two are at the same place, and the places are the first numbers.
LEMMA Ranks ==
    ASSUME NEW ix, Shelved(ix), NEW found \in SUBSET Held(ix)
    PROVE  /\ IsFiniteSet(found) /\ Cardinality(found) \in Nat
           /\ \A l \in found : Ahead(ix, found, l) \in 0..(Cardinality(found) - 1)
           /\ \A k, l \in found : k # l => Ahead(ix, found, k) # Ahead(ix, found, l)
<1>1. IsFiniteSet(found)
  BY FS_Subset DEF Held
<1>2. Cardinality(found) \in Nat
  BY <1>1, FS_CardinalityType
<1>3. \A T \in SUBSET found : IsFiniteSet(T) /\ Cardinality(T) \in Nat
  BY <1>1, FS_Subset, FS_CardinalityType
<1>4. ASSUME NEW T \in SUBSET found, NEW x \in found, x \notin T
      PROVE  Cardinality(T) < Cardinality(found)
  <2>1. Cardinality(T) <= Cardinality(found) /\ Cardinality(T) # Cardinality(found)
    BY <1>1, <1>4, FS_Subset
  <2>2. QED BY <1>2, <1>3, <2>1
<1>5. ASSUME NEW l \in found PROVE Ahead(ix, found, l) \in 0..(Cardinality(found) - 1)
  <2>1. PICK T : T = {k \in found : Before(ix, k, l)}
    OBVIOUS
  <2>2. T \in SUBSET found /\ l \notin T
    BY <2>1, Ordered
  <2>3. Cardinality(T) < Cardinality(found) /\ Cardinality(T) \in Nat
    BY <1>3, <1>4, <2>2
  <2>4. QED BY <1>2, <2>1, <2>3 DEF Ahead
<1>6. ASSUME NEW k \in found, NEW l \in found, Before(ix, k, l)
      PROVE  Ahead(ix, found, k) < Ahead(ix, found, l)
  <2>1. PICK S : S = {j \in found : Before(ix, j, k)}
    OBVIOUS
  <2>2. PICK T : T = {j \in found : Before(ix, j, l)}
    OBVIOUS
  <2>3. S \in SUBSET T /\ k \in T /\ k \notin S /\ T \in SUBSET found
    BY <1>6, <2>1, <2>2, Ordered
  <2>4. IsFiniteSet(T) /\ Cardinality(T) \in Nat /\ Cardinality(S) \in Nat
    BY <1>3, <2>3
  <2>5. Cardinality(S) <= Cardinality(T) /\ Cardinality(S) # Cardinality(T)
    BY <2>3, <2>4, FS_Subset
  <2>6. QED BY <2>1, <2>2, <2>4, <2>5 DEF Ahead
<1>7. ASSUME NEW k \in found, NEW l \in found, k # l
      PROVE  Ahead(ix, found, k) # Ahead(ix, found, l)
  <2>1. Before(ix, k, l) \/ Before(ix, l, k)
    BY <1>7, Ordered
  <2>2. Ahead(ix, found, k) \in Nat /\ Ahead(ix, found, l) \in Nat
    BY <1>3 DEF Ahead
  <2>3. QED BY <1>6, <2>1, <2>2
<1>8. QED BY <1>1, <1>2, <1>5, <1>7

LEMMA IntervalSize ==
    \A a, b \in Int : Cardinality(a..b) = IF a > b THEN 0 ELSE b - a + 1
BY FS_Interval

LEMMA PageSize ==
    ASSUME NEW ix, Shelved(ix), NEW found \in SUBSET Held(ix),
           NEW from \in Nat, NEW size \in Nat
    PROVE  /\ Page(ix, found, from, size) \subseteq found
           /\ Cardinality(Page(ix, found, from, size)) = Clamped(Cardinality(found) - from, size)
<1>1. PICK n \in Nat : n = Cardinality(found)
  BY Ranks
<1>2. PICK f : f = [l \in found |-> Ahead(ix, found, l)]
  OBVIOUS
<1>3. f \in Injection(found, 0..(n - 1))
  <2>1. f \in [found -> 0..(n - 1)]
    BY <1>1, <1>2, Ranks
  <2>2. \A k, l \in found : f[k] = f[l] => k = l
    BY <1>2, Ranks
  <2>3. QED BY <2>1, <2>2, Fun_IsInj
<1>4. IsFiniteSet(0..(n - 1)) /\ Cardinality(0..(n - 1)) = n
  <2>1. n - 1 \in Int /\ (0 > n - 1 <=> n = 0)
    BY ONLY <1>1
  <2>2. IsFiniteSet(0..(n - 1)) /\ Cardinality(0..(n - 1)) = IF 0 > n - 1 THEN 0 ELSE (n - 1) - 0 + 1
    BY ONLY <2>1, FS_Interval
  <2>3. QED BY ONLY <1>1, <2>1, <2>2
<1>5. f \in Surjection(found, 0..(n - 1))
  BY <1>1, <1>3, <1>4, FS_Injection
<1>6. \A x \in 0..(n - 1) : \E l \in found : f[l] = x
  <2>1. PICK U : U = 0..(n - 1)
    OBVIOUS
  <2>2. f \in Surjection(found, U)
    BY <1>5, <2>1
  <2>3. \A x \in U : \E l \in found : f[l] = x
    BY <2>2 DEF Surjection
  <2>4. QED BY <2>1, <2>3
<1>7. PICK S : S = Page(ix, found, from, size)
  OBVIOUS
<1>8. S = {l \in found : from <= f[l] /\ f[l] < from + size}
  BY <1>2, <1>7 DEF Page, Ahead
<1>9. PICK last \in Int : last = IF n < from + size THEN n - 1 ELSE from + size - 1
  OBVIOUS
<1>10. PICK g : g = [l \in S |-> f[l]]
  OBVIOUS
<1>11. \A l \in found : f[l] \in 0..(n - 1)
  BY <1>3, Fun_InjectionProperties
<1>12. g \in [S -> from..last]
  BY <1>8, <1>9, <1>10, <1>11
<1>13. \A k, l \in S : g[k] = g[l] => k = l
  BY <1>3, <1>8, <1>10, Fun_InjectionProperties
<1>14. \A x \in from..last : \E l \in S : g[l] = x
  <2>. SUFFICES ASSUME NEW x \in from..last PROVE \E l \in S : g[l] = x
    OBVIOUS
  <2>1. x \in 0..(n - 1) /\ x < from + size /\ from <= x
    BY <1>9
  <2>2. PICK l \in found : f[l] = x
    BY <1>6, <2>1
  <2>3. QED BY <1>8, <1>10, <2>1, <2>2
<1>15. g \in Bijection(S, from..last)
  BY <1>12, <1>13, <1>14, Fun_IsBij
<1>16. IsFiniteSet(S)
  BY <1>8, Ranks, FS_Subset
<1>17. Cardinality(S) = Cardinality(from..last)
  BY <1>15, <1>16, FS_Bijection DEF ExistsBijection
<1>18. Cardinality(from..last) = IF from > last THEN 0 ELSE last - from + 1
  BY IntervalSize
<1>19. (IF from > last THEN 0 ELSE last - from + 1) = Clamped(n - from, size)
  BY <1>9 DEF Clamped
<1>20. QED BY <1>1, <1>7, <1>8, <1>17, <1>18, <1>19

\* A page of all that was found, from its start, is all that was found.
LEMMA WholePage ==
    ASSUME NEW ix, Shelved(ix), NEW found \in SUBSET Held(ix)
    PROVE  Page(ix, found, 0, Cardinality(found)) = found
BY Ranks DEF Page, Ahead

LEMMA PagesApart ==
    ASSUME NEW ix, Shelved(ix), NEW found \in SUBSET Held(ix),
           NEW p \in Nat \ {0}, NEW q \in Nat \ {0}, p < q, NEW size \in Nat \ {0}
    PROVE  Page(ix, found, (p - 1) * size, size) \cap Page(ix, found, (q - 1) * size, size) = {}
<1>1. PICK a \in Nat : a = p - 1
  OBVIOUS
<1>2. PICK d \in Nat : q - 1 = a + 1 + d
  <2>1. q - 1 - a - 1 \in Nat
    BY <1>1
  <2>2. q - 1 = a + 1 + (q - 1 - a - 1)
    BY <1>1
  <2>3. QED BY <2>1, <2>2
<1>3. (a + 1 + d) * size = a * size + size + d * size /\ d * size \in Nat /\ a * size \in Nat
  BY SMT
<1>4. (p - 1) * size + size <= (q - 1) * size
  BY <1>1, <1>2, <1>3
<1>5. (p - 1) * size \in Nat /\ (q - 1) * size \in Nat
  BY <1>1, <1>2, <1>3
<1>6. PICK low \in Nat : low = (p - 1) * size
  BY <1>5
<1>7. PICK high \in Nat : high = (q - 1) * size
  BY <1>5
<1>8. low + size <= high
  BY <1>4, <1>6, <1>7
<1>9. \A l \in found : Ahead(ix, found, l) \in Nat
  <2>1. \A l \in found : Ahead(ix, found, l) \in 0..(Cardinality(found) - 1)
    BY Ranks
  <2>2. QED BY <2>1
<1>10. Page(ix, found, low, size) \cap Page(ix, found, high, size) = {}
  BY <1>8, <1>9 DEF Page, Ahead
<1>11. QED BY <1>6, <1>7, <1>10

LEMMA FoundIsHeld ==
    ASSUME NEW ix, NEW filters, NEW skipped
    PROVE  Matching(ix, filters, skipped) \in SUBSET Held(ix)
BY DEF Matching

\* Whatever it is sorted by, a page holds as many as the total leaves it.
LEMMA PagesNowSize ==
    ASSUME NEW ix, Shelved(ix), NEW found \in SUBSET Held(ix), NEW r \in Queries,
           NEW hits \in PagesNow(ix, found, r)
    PROVE  Cardinality(hits) = PageLength(Cardinality(found), r)
<1>1. PICK n \in Nat : n = r.page - 1
  BY SMT
<1>2. PICK size \in Nat : size = r.limit
  OBVIOUS
<1>3. PICK from \in Nat : from = n * size
  BY SMT
<1>4. CASE r.sort = "relevance"
  BY <1>4 DEF PagesNow
<1>5. CASE r.sort # "relevance"
  <2>1. hits = Page(ix, found, from, size)
    BY <1>1, <1>2, <1>3, <1>5 DEF PagesNow
  <2>2. Cardinality(hits) = Clamped(Cardinality(found) - from, size)
    BY <2>1, PageSize
  <2>3. QED BY <1>1, <1>2, <1>3, <2>2 DEF PageLength, Clamped
<1>6. QED BY <1>4, <1>5

LEMMA BucketsAreNumbers ==
    ASSUME NEW ix, Shelved(ix), NEW g \in FacetGroups, NEW v \in Buckets(ix, g)
    PROVE  v \in Int /\ BucketWidth(g) \in Nat \ {0} /\ Values(ix, g) \subseteq Int
<1>1. PICK width \in Nat \ {0} : width = BucketWidth(g)
  BY DEF BucketWidth
<1>2. \A l \in Held(ix) : Has(ix[l], g) \subseteq Int
  BY DEF Held, Shelved
<1>3. Values(ix, g) \subseteq Int
  BY <1>2 DEF Values
<1>4. PICK w \in Values(ix, g) : v = w - (w % width)
  BY <1>1 DEF Buckets
<1>5. v \in Int
  BY <1>1, <1>3, <1>4
<1>6. QED BY <1>1, <1>3, <1>5

\* What selecting other values of a facet's group finds, or another amenity.
OneAmenity(g, values) == g = "amenities" => \E v : values = {v}

LEMMA SelectingFinds ==
    ASSUME NEW ix, NEW filters, NEW g \in FacetGroups, NEW values,
           OneAmenity(g, values)
    PROVE  Matching(ix, Selecting(filters, g, values), {})
             = {l \in Matching(ix, filters, {g}) : Has(ix[l], g) \cap values # {}}
<1>1. FieldOf(g) = g
  BY DEF FacetGroups, FieldOf
<1>2. PICK other : other = Selecting(filters, g, values)
  OBVIOUS
<1>3. /\ DOMAIN other = DOMAIN filters \cup {g} /\ other[g] = values
      /\ \A h \in DOMAIN filters \ {g} : other[h] = filters[h]
  BY <1>2 DEF Selecting
<1>4. ASSUME NEW doc PROVE Accepts(other, g, doc) <=> Has(doc, g) \cap values # {}
  <2>1. CASE g = "amenities"
    <3>1. PICK v : values = {v}
      BY <2>1 DEF OneAmenity
    <3>2. QED BY <1>3, <2>1, <3>1 DEF Accepts
  <2>2. CASE g # "amenities"
    BY <1>1, <1>3, <2>2 DEF Accepts
  <2>3. QED BY <2>1, <2>2
<1>5. ASSUME NEW doc, NEW h \in DOMAIN filters \ {g}
      PROVE  Accepts(other, h, doc) <=> Accepts(filters, h, doc)
  BY <1>3, <1>5 DEF Accepts
<1>6. \A l \in Held(ix) :
         (\A h \in DOMAIN other \ {} : Accepts(other, h, ix[l]))
            <=> /\ \A h \in DOMAIN filters \ {g} : Accepts(filters, h, ix[l])
                /\ Has(ix[l], g) \cap values # {}
  BY <1>3, <1>4, <1>5
<1>7. QED BY <1>2, <1>6 DEF Matching

\* A filter set to a value accepts whatever the facet counts under it.
LEMMA BucketIsAccepted ==
    ASSUME NEW ix, Shelved(ix), NEW g \in FacetGroups, NEW v \in Buckets(ix, g),
           NEW w \in Values(ix, g), w \in Bucket(g, v)
    PROVE  w \in Accepted(ix, g, v)
<1>1. v \in Int /\ w \in Int /\ BucketWidth(g) \in Nat \ {0}
  BY BucketsAreNumbers
<1>2. v <= w /\ w < v + BucketWidth(g)
  BY <1>1 DEF Bucket
<1>3. QED BY <1>1, <1>2 DEF Accepted, BucketWidth

\* Only of prices, deliveries and instalments it accepts more.
LEMMA OthersAcceptOne ==
    ASSUME NEW ix, Shelved(ix), NEW g \in FacetGroups, NEW v \in Buckets(ix, g),
           g \notin {"price", "delivery", "installment"}
    PROVE  Accepted(ix, g, v) \ Bucket(g, v) = {} /\ Bucket(g, v) = {v} /\ v \in Accepted(ix, g, v)
<1>1. v \in Int /\ Values(ix, g) \subseteq Int
  BY BucketsAreNumbers
<1>2. BucketWidth(g) = 1
  BY DEF BucketWidth
<1>3. Bucket(g, v) = {v}
  BY <1>1, <1>2 DEF Bucket
<1>4. PICK w \in Values(ix, g) : v = w - (w % 1)
  BY <1>2 DEF Buckets
<1>5. v = w
  BY <1>1, <1>4
<1>6. Accepted(ix, g, v) = {w}
  BY <1>1, <1>4, <1>5 DEF Accepted
<1>7. QED BY <1>3, <1>5, <1>6

\* What a facet counts under a value is what selecting that value would find of it.
LEMMA FacetSelects ==
    ASSUME NEW ix, Shelved(ix), NEW filters, NEW g \in FacetGroups, NEW v \in Buckets(ix, g)
    PROVE  FacetsOf(ix, filters)[g][v] = FoundUnder(ix, filters, g, v)
<1> DEFINE Of(values) == {l \in Matching(ix, filters, {g}) : Has(ix[l], g) \cap values # {}}
           accepted == Accepted(ix, g, v)
           besides == accepted \ Bucket(g, v)
<1>1. FacetsOf(ix, filters)[g][v] = Cardinality(Of(Bucket(g, v)))
  BY DEF FacetsOf
<1>2. Of(accepted) \in SUBSET Held(ix) /\ Of(besides) \in SUBSET Held(ix)
      /\ Of(Bucket(g, v)) \in SUBSET Held(ix)
  BY FoundIsHeld
<1>3. \A S \in SUBSET Held(ix) : IsFiniteSet(S) /\ Cardinality(S) \in Nat
  BY Ranks
<1>4. \A l \in Matching(ix, filters, {g}) : Has(ix[l], g) \subseteq Values(ix, g)
  BY FoundIsHeld DEF Values
<1>5. Of(accepted) = Of(Bucket(g, v)) \cup Of(besides)
  BY <1>4, BucketIsAccepted
<1>a. PICK here : here = Of(Bucket(g, v))
  OBVIOUS
<1>b. PICK size \in Nat : size = Cardinality(here)
  BY <1>2, <1>3, <1>a
<1>6. CASE g = "amenities"
  <2>1. besides = {} /\ Bucket(g, v) = {v} /\ v \in accepted /\ accepted = {v}
    BY <1>6, OthersAcceptOne
  <2>2. PICK one : one = accepted /\ one = Bucket(g, v) /\ one = {v}
    BY <2>1
  <2>3. Matching(ix, Selecting(filters, g, one), {})
          = {l \in Matching(ix, filters, {g}) : Has(ix[l], g) \cap one # {}}
    <3>1. OneAmenity(g, one)
      BY <2>2 DEF OneAmenity
    <3>2. QED BY <3>1, SelectingFinds
  <2>4. Matching(ix, Selecting(filters, g, accepted), {}) = here
    BY <1>a, <2>2, <2>3
  <2>5. FoundUnder(ix, filters, g, v) = Cardinality(here) - 0
    BY <2>1, <2>4 DEF FoundUnder
  <2>6. FoundUnder(ix, filters, g, v) = size
    BY ONLY <1>b, <2>5
  <2>7. QED BY <1>1, <1>a, <1>b, <2>6
<1>7. CASE g # "amenities" /\ besides = {}
  <2>1. Of(accepted) = Of(Bucket(g, v))
    BY <1>5, <1>7
  <2>2. Matching(ix, Selecting(filters, g, accepted), {}) = here
    <3>1. OneAmenity(g, accepted)
      BY <1>7 DEF OneAmenity
    <3>2. Matching(ix, Selecting(filters, g, accepted), {}) = Of(accepted)
      BY <3>1, SelectingFinds
    <3>3. QED BY <1>a, <2>1, <3>2
  <2>3. FoundUnder(ix, filters, g, v) = Cardinality(here) - 0
    BY <1>7, <2>2 DEF FoundUnder
  <2>4. FoundUnder(ix, filters, g, v) = size
    BY ONLY <1>b, <2>3
  <2>5. QED BY <1>1, <1>a, <1>b, <2>4
<1>8. CASE g # "amenities" /\ besides # {}
  <2>1. \A l \in Held(ix) : \A a, b \in Has(ix[l], g) : a = b
    BY <1>8 DEF Held, Shelved
  <2>2. Of(Bucket(g, v)) \cap Of(besides) = {}
    BY <2>1, FoundIsHeld
  <2>3. PICK rest : rest = Of(besides)
    OBVIOUS
  <2>4. PICK all : all = Of(accepted)
    OBVIOUS
  <2>5. /\ IsFiniteSet(here) /\ IsFiniteSet(rest) /\ here \cap rest = {} /\ all = here \cup rest
        /\ Cardinality(rest) \in Nat
    BY <1>2, <1>3, <1>5, <1>a, <2>2, <2>3, <2>4
  <2>6. PICK more \in Nat : more = Cardinality(rest)
    BY <2>5
  <2>7. Cardinality(all) = size + more - Cardinality({})
    BY ONLY <1>b, <2>5, <2>6, FS_Union
  <2>8. Cardinality({}) = 0
    BY FS_EmptySet
  <2>9. /\ Matching(ix, Selecting(filters, g, accepted), {}) = all
        /\ Matching(ix, Selecting(filters, g, besides), {}) = rest
    <3>1. OneAmenity(g, accepted) /\ OneAmenity(g, besides)
      BY <1>8 DEF OneAmenity
    <3>2. QED BY <2>3, <2>4, <3>1, SelectingFinds
  <2>10. FoundUnder(ix, filters, g, v) = Cardinality(all) - Cardinality(rest)
    BY <1>8, <2>9 DEF FoundUnder
  <2>11. FoundUnder(ix, filters, g, v) = size
    BY ONLY <1>b, <2>6, <2>7, <2>8, <2>10
  <2>12. QED BY <1>1, <1>a, <1>b, <2>11
<1>9. QED BY <1>6, <1>7, <1>8

-----------------------------------------------------------------------------
(* What an answer was computed from *)

IsAnswer(a) ==
    a = [hits |-> a.hits, total |-> a.total, facets |-> a.facets, among |-> a.among, mode |-> a.mode,
         source |-> a.source]
IsReading(r) == r = [at |-> r.at, ask |-> r.ask, answer |-> r.answer, saw |-> r.saw, late |-> r.late]
IsResponse(e) == e = [ask |-> e.ask, answer |-> e.answer, saw |-> e.saw, late |-> e.late]

Wants(ask) == ask.kind = "facets" \/ (ask.kind = "results" /\ ask.facets)
Seen(saw) == IsFiniteSet(saw) /\ \A i \in saw : Shelved(i)

Paged(ask, answer, i) ==
    /\ answer.hits \in PagesNow(i, Matching(i, ask.filters, {}), ask)
    /\ answer.total = Cardinality(Matching(i, ask.filters, {}))
Counted(ask, answer, i) ==
    answer.facets = FacetsOf(i, ask.filters) /\ answer.among = FacetTotal(i, ask.filters)
Totalled(ask, answer, i) == answer.total = Cardinality(Matching(i, ask.filters, {}))
Pointed(ask, answer, i) == answer.hits = Page(i, Matching(i, ask.filters, {}), 0, answer.total)
Likened(ask, answer, i) ==
    /\ ask.of \notin answer.hits
    /\ answer.hits = {} =>
          ~ \E l \in Held(i) \ {ask.of} :
               PriceBand(answer.source, i[l]) /\ Shares(answer.source, i[l], Relations)

\* A complete answer: each part of it is of an index that its request saw.
Final(ask, answer, saw) ==
    /\ ask \in Queries /\ saw # {} /\ Seen(saw)
    /\ ask.kind = "results" => \E i \in saw : Paged(ask, answer, i)
    /\ Wants(ask) => \E i \in saw : Counted(ask, answer, i)
    /\ answer.mode = "points" =>
          /\ \E i \in saw : Totalled(ask, answer, i)
          /\ \E i \in saw : Pointed(ask, answer, i)
    /\ ask.kind = "similar" => \E i \in saw : Likened(ask, answer, i)

\* An answer under way.
Fitting(at, ask, answer, saw) ==
    /\ at \in Places /\ IsAnswer(answer) /\ Seen(saw)
    /\ at # "idle" => ask \in Queries
    /\ at = "first" => answer = NoAnswer
    /\ at = "facets" => ask.kind = "results" /\ \E i \in saw : Paged(ask, answer, i)
    /\ at = "points" => ask.kind = "map" /\ \E i \in saw : Totalled(ask, answer, i)
    /\ at = "like" => ask.kind = "similar"
    /\ at = "fallback" => ask.kind \in {"similar", "autocomplete"}
    /\ at \notin {"points", "store"} => answer.mode # "points"
    /\ at = "store" => Final(ask, answer, saw)

Sighted(r) == ~r.late => r.saw \subseteq {shelf}

Reader(r) == IsReading(r) /\ Fitting(r.at, r.ask, r.answer, r.saw) /\ Sighted(r)

Counters ==
    /\ writes \in 0..MaxWrites /\ asks \in 0..MaxAsks
    /\ owed \in Nat /\ owed <= writes
Readers  == reading = [c \in Callers |-> reading[c]] /\ \A c \in Callers : Reader(reading[c])
Kept     == /\ \A e \in responses : IsResponse(e) /\ Final(e.ask, e.answer, e.saw)
            /\ \A d, e \in responses : d.ask = e.ask => d = e

Fulfilled ==
    /\ shelf = [l \in Homes |-> shelf[l]] /\ Shelved(shelf)
    /\ Counters /\ Readers /\ Kept /\ CachedIsCurrent

LEMMA NoReadingFits ==
    /\ IsReading(NoReading) /\ Fitting("idle", NoAsk, NoAnswer, {}) /\ IsAnswer(NoAnswer)
    /\ NoReading.at = "idle" /\ NoReading.ask = NoAsk /\ NoReading.answer = NoAnswer
    /\ NoReading.saw = {} /\ NoReading.late = FALSE /\ NoAnswer.mode # "points" /\ Seen({})
<1>1. IsAnswer(NoAnswer) /\ NoAnswer.mode # "points"
  BY DEF IsAnswer, NoAnswer
<1>2. Seen({})
  BY FS_EmptySet DEF Seen
<1>3. Fitting("idle", NoAsk, NoAnswer, {})
  BY <1>1, <1>2 DEF Fitting, Places
<1>4. QED BY <1>1, <1>2, <1>3 DEF NoReading, IsReading

LEMMA InitFulfilled == QueryInit => Fulfilled
<1>. SUFFICES ASSUME QueryInit PROVE Fulfilled
  OBVIOUS
<1>1. shelf = [l \in Homes |-> shelf[l]] /\ Shelved(shelf)
  BY DEF QueryInit, Shelved
<1>2. Counters
  BY DEF QueryInit, Counters
<1>3. \A c \in Callers : Reader(reading[c])
  BY NoReadingFits DEF QueryInit, Reader, Sighted
<1>4. reading = [c \in Callers |-> reading[c]]
  BY DEF QueryInit
<1>5. Kept /\ CachedIsCurrent
  BY DEF QueryInit, Kept, CachedIsCurrent
<1>6. QED BY <1>1, <1>2, <1>3, <1>4, <1>5 DEF Fulfilled, Readers

-----------------------------------------------------------------------------
(* The steps of a request *)

\* A request's own step, that writes nothing but its reading.
LEMMA PutStep ==
    ASSUME Fulfilled, NEW c \in Callers, NEW r, Reader(r), Puts(c, r),
           UNCHANGED <<shelf, responses, owed, writes>>, asks' \in 0..MaxAsks
    PROVE  Fulfilled'
<1>1. reading' = [reading EXCEPT ![c] = r]
  BY DEF Puts
<1>2. reading = [d \in Callers |-> reading[d]] /\ \A d \in Callers : Reader(reading[d])
  BY DEF Fulfilled, Readers
<1>3. \A d \in Callers : reading'[d] = IF d = c THEN r ELSE reading[d]
  BY <1>1, <1>2
<1>4. \A d \in Callers : Reader(reading'[d])
  BY <1>2, <1>3
<1>5. \A d \in Callers : Reader(reading[d])'
  BY <1>4 DEF Reader, Sighted
<1>6. reading' = [d \in Callers |-> reading'[d]]
  BY <1>1, <1>2
<1>7. Readers'
  BY <1>5, <1>6 DEF Readers
<1>8. Counters' /\ Kept' /\ CachedIsCurrent'
  BY DEF Fulfilled, Counters, Kept, CachedIsCurrent
<1>9. QED BY <1>7, <1>8 DEF Fulfilled, Shelved

\* A call that finds the index as it is.
LEMMA ReadStep ==
    ASSUME Fulfilled, NEW c \in Callers, NEW at, NEW answer, Reads(c, at, answer), Quiet,
           Fitting(at, reading[c].ask, answer, reading[c].saw \cup {shelf})
    PROVE  Fulfilled'
<1>0. Reader(reading[c])
  BY DEF Fulfilled, Readers
<1>1. PICK saw : saw = reading[c].saw \cup {shelf}
  OBVIOUS
<1>2. PICK r : r = [reading[c] EXCEPT !.at = at, !.answer = answer, !.saw = saw]
  OBVIOUS
<1>3. /\ IsReading(r) /\ r.at = at /\ r.ask = reading[c].ask /\ r.answer = answer /\ r.saw = saw
      /\ r.late = reading[c].late
  BY <1>0, <1>2 DEF Reader, IsReading
<1>4. Reader(r)
  BY <1>0, <1>1, <1>3 DEF Reader, Sighted
<1>5. Puts(c, r)
  BY <1>1, <1>2 DEF Reads
<1>6. asks' \in 0..MaxAsks
  BY DEF Quiet, Fulfilled, Counters
<1>7. QED BY <1>4, <1>5, <1>6, PutStep DEF Quiet

LEMMA OffStep ==
    ASSUME Fulfilled, NEW c \in Callers, Puts(c, NoReading), Quiet
    PROVE  Fulfilled'
<1>1. Reader(NoReading)
  BY NoReadingFits DEF Reader, Sighted
<1>2. asks' \in 0..MaxAsks
  BY DEF Quiet, Fulfilled, Counters
<1>3. QED BY <1>1, <1>2, PutStep DEF Quiet

\* What a caller that is at work knows.
LEMMA AtWork ==
    ASSUME Fulfilled, NEW c \in Callers, reading[c].at # "idle"
    PROVE  /\ reading[c].ask \in Queries /\ IsAnswer(reading[c].answer)
           /\ Fitting(reading[c].at, reading[c].ask, reading[c].answer, reading[c].saw)
           /\ Seen(reading[c].saw \cup {shelf}) /\ shelf \in reading[c].saw \cup {shelf}
           /\ reading[c].at = "first" => reading[c].answer = NoAnswer
<1>1. Fitting(reading[c].at, reading[c].ask, reading[c].answer, reading[c].saw) /\ Shelved(shelf)
  BY DEF Fulfilled, Readers, Reader
<1>2. Seen(reading[c].saw \cup {shelf})
  BY <1>1, FS_AddElement DEF Fitting, Seen
<1>3. QED BY <1>1, <1>2 DEF Fitting

LEMMA AskKeeps ==
    ASSUME Fulfilled, NEW c \in Callers, NEW q \in Queries, AskFor(c, q)
    PROVE  Fulfilled'
<1>1. asks' \in 0..MaxAsks
  BY DEF AskFor, Fulfilled, Counters
<1>2. CASE UNCHANGED reading
  BY <1>1, <1>2 DEF AskFor, Fulfilled, Shelved, Counters, Readers, Reader, Sighted, Kept, CachedIsCurrent
<1>3. CASE Puts(c, [NoReading EXCEPT !.at = "first", !.ask = q])
  <2>1. PICK r : r = [NoReading EXCEPT !.at = "first", !.ask = q]
    OBVIOUS
  <2>2. /\ IsReading(r) /\ r.at = "first" /\ r.ask = q /\ r.answer = NoAnswer /\ r.saw = {}
        /\ r.late = FALSE
    BY <2>1 DEF NoReading, IsReading
  <2>3. Reader(r)
    BY <2>2, NoReadingFits DEF Reader, Sighted, Fitting, Places
  <2>4. QED BY <1>1, <1>3, <2>1, <2>3, PutStep DEF AskFor
<1>4. QED BY <1>2, <1>3 DEF AskFor

LEMMA SearchKeeps ==
    ASSUME Fulfilled, NEW c \in Callers, search(c)
    PROVE  Fulfilled'
<1>1. PICK ask : ask = reading[c].ask
  OBVIOUS
<1>2. PICK saw : saw = reading[c].saw \cup {shelf}
  OBVIOUS
<1>3. ask \in Queries /\ Seen(saw) /\ shelf \in saw /\ ask.kind = "results"
  BY <1>1, <1>2, AtWork DEF search, ReaderAt
<1>5. PICK total : total = Cardinality(Matching(shelf, ask.filters, {}))
  OBVIOUS
<1>8. PICK at : at = IF ask.facets THEN "facets" ELSE "store"
  OBVIOUS
<1>4. PICK hits \in PagesNow(shelf, Matching(shelf, ask.filters, {}), ask) :
         Reads(c, at, [NoAnswer EXCEPT !.hits = hits, !.total = total])
  BY <1>1, <1>5, <1>8 DEF search
<1>6. PICK answer : answer = [NoAnswer EXCEPT !.hits = hits, !.total = total]
  OBVIOUS
<1>7. IsAnswer(answer) /\ answer.hits = hits /\ answer.total = total /\ answer.mode = "none"
  BY <1>6 DEF IsAnswer, NoAnswer
<1>9. Reads(c, at, answer) /\ Quiet
  BY <1>4, <1>6 DEF search
<1>10. Paged(ask, answer, shelf)
  BY <1>4, <1>5, <1>7 DEF Paged
<1>11. at = "store" => Final(ask, answer, saw)
  BY <1>3, <1>7, <1>8, <1>10 DEF Final, Wants
<1>12. at \in {"facets", "store"}
  BY <1>8
<1>13. Fitting(at, ask, answer, saw)
  BY <1>3, <1>7, <1>10, <1>11, <1>12 DEF Fitting, Places
<1>14. QED BY <1>1, <1>2, <1>9, <1>13, ReadStep

LEMMA FacetsKeeps ==
    ASSUME Fulfilled, NEW c \in Callers, facets(c)
    PROVE  Fulfilled'
<1>1. PICK ask : ask = reading[c].ask
  OBVIOUS
<1>2. PICK saw : saw = reading[c].saw \cup {shelf}
  OBVIOUS
<1>3. PICK a : a = reading[c].answer
  OBVIOUS
<1>4. /\ ask \in Queries /\ Seen(saw) /\ shelf \in saw /\ IsAnswer(a)
      /\ ask.kind \in {"facets", "results"} /\ a.mode # "points"
      /\ ask.kind = "results" => \E i \in saw : Paged(ask, a, i)
  BY <1>1, <1>2, <1>3, AtWork DEF facets, ReaderAt, Fitting
<1>5. PICK counts : counts = FacetsOf(shelf, ask.filters)
  OBVIOUS
<1>6. PICK among : among = FacetTotal(shelf, ask.filters)
  OBVIOUS
<1>7. PICK answer : answer = [a EXCEPT !.facets = counts, !.among = among]
  OBVIOUS
<1>8. /\ IsAnswer(answer) /\ answer.hits = a.hits /\ answer.total = a.total /\ answer.mode = a.mode
      /\ answer.facets = counts /\ answer.among = among
  BY <1>4, <1>7 DEF IsAnswer
<1>9. Reads(c, "store", answer) /\ Quiet
  BY <1>1, <1>3, <1>5, <1>6, <1>7 DEF facets
<1>10. Counted(ask, answer, shelf)
  BY <1>5, <1>6, <1>8 DEF Counted
<1>11. \A i \in saw : Paged(ask, a, i) => Paged(ask, answer, i)
  BY <1>8 DEF Paged
<1>12. Final(ask, answer, saw)
  BY <1>4, <1>8, <1>10, <1>11 DEF Final
<1>13. Fitting("store", ask, answer, saw)
  BY <1>4, <1>8, <1>12 DEF Fitting, Places
<1>14. QED BY <1>1, <1>2, <1>9, <1>13, ReadStep

LEMMA MapKeeps ==
    ASSUME Fulfilled, NEW c \in Callers, map_search(c)
    PROVE  Fulfilled'
<1>1. PICK ask : ask = reading[c].ask
  OBVIOUS
<1>2. PICK saw : saw = reading[c].saw \cup {shelf}
  OBVIOUS
<1>3. ask \in Queries /\ Seen(saw) /\ shelf \in saw /\ ask.kind = "map"
  BY <1>1, <1>2, AtWork DEF map_search, ReaderAt
<1>4. PICK total : total = Cardinality(Matching(shelf, ask.filters, {}))
  OBVIOUS
<1>5. CASE total > 0 /\ total <= ask.limit
  <2>1. PICK answer : answer = [NoAnswer EXCEPT !.mode = "points", !.total = total]
    OBVIOUS
  <2>2. IsAnswer(answer) /\ answer.total = total
    BY <2>1 DEF IsAnswer, NoAnswer
  <2>3. Reads(c, "points", answer) /\ Quiet
    BY <1>1, <1>4, <1>5, <2>1 DEF map_search
  <2>4. Totalled(ask, answer, shelf)
    BY <1>4, <2>2 DEF Totalled
  <2>5. Fitting("points", ask, answer, saw)
    BY <1>3, <2>2, <2>4 DEF Fitting, Places
  <2>6. QED BY <1>1, <1>2, <2>3, <2>5, ReadStep
<1>6. CASE ~(total > 0 /\ total <= ask.limit)
  <2>1. PICK answer : answer = [NoAnswer EXCEPT !.mode = "clusters", !.total = total]
    OBVIOUS
  <2>2. IsAnswer(answer) /\ answer.mode = "clusters"
    BY <2>1 DEF IsAnswer, NoAnswer
  <2>3. Reads(c, "store", answer) /\ Quiet
    BY <1>1, <1>4, <1>6, <2>1 DEF map_search
  <2>4. Final(ask, answer, saw)
    BY <1>3, <2>2 DEF Final, Wants
  <2>5. Fitting("store", ask, answer, saw)
    BY <1>3, <2>2, <2>4 DEF Fitting, Places
  <2>6. QED BY <1>1, <1>2, <2>3, <2>5, ReadStep
<1>7. QED BY <1>5, <1>6

LEMMA PointsKeep ==
    ASSUME Fulfilled, NEW c \in Callers, MapPoints(c)
    PROVE  Fulfilled'
<1>1. PICK ask : ask = reading[c].ask
  OBVIOUS
<1>2. PICK saw : saw = reading[c].saw \cup {shelf}
  OBVIOUS
<1>3. PICK a : a = reading[c].answer
  OBVIOUS
<1>4. /\ ask \in Queries /\ Seen(saw) /\ shelf \in saw /\ IsAnswer(a)
      /\ ask.kind = "map" /\ \E i \in saw : Totalled(ask, a, i)
  BY <1>1, <1>2, <1>3, AtWork DEF MapPoints, ReaderAt, Fitting
<1>5. PICK hits : hits = Page(shelf, Matching(shelf, ask.filters, {}), 0, a.total)
  OBVIOUS
<1>6. PICK answer : answer = [a EXCEPT !.hits = hits]
  OBVIOUS
<1>7. IsAnswer(answer) /\ answer.hits = hits /\ answer.total = a.total
  BY <1>4, <1>6 DEF IsAnswer
<1>8. Reads(c, "store", answer) /\ Quiet
  BY <1>1, <1>3, <1>5, <1>6 DEF MapPoints
<1>9. Pointed(ask, answer, shelf)
  BY <1>5, <1>7 DEF Pointed
<1>10. \E i \in saw : Totalled(ask, answer, i)
  BY <1>4, <1>7 DEF Totalled
<1>11. Final(ask, answer, saw)
  BY <1>4, <1>9, <1>10 DEF Final, Wants
<1>12. Fitting("store", ask, answer, saw)
  BY <1>4, <1>7, <1>11 DEF Fitting, Places
<1>13. QED BY <1>1, <1>2, <1>8, <1>12, ReadStep

LEMMA SimilarKeeps ==
    ASSUME Fulfilled, NEW c \in Callers, similar(c)
    PROVE  Fulfilled'
<1>1. PICK ask : ask = reading[c].ask
  OBVIOUS
<1>2. PICK saw : saw = reading[c].saw \cup {shelf}
  OBVIOUS
<1>3. ask \in Queries /\ Seen(saw) /\ ask.kind = "similar"
  BY <1>1, <1>2, AtWork DEF similar, ReaderAt
<1>4. CASE shelf[ask.of] = Gone
  BY <1>1, <1>4, OffStep DEF similar
<1>5. CASE shelf[ask.of] # Gone
  <2>1. PICK like : like = shelf[ask.of]
    OBVIOUS
  <2>2. PICK answer : answer = [NoAnswer EXCEPT !.source = like]
    OBVIOUS
  <2>3. IsAnswer(answer) /\ answer.mode = "none"
    BY <2>2 DEF IsAnswer, NoAnswer
  <2>4. Reads(c, "like", answer) /\ Quiet
    BY <1>1, <1>5, <2>1, <2>2 DEF similar
  <2>5. Fitting("like", ask, answer, saw)
    BY <1>3, <2>3 DEF Fitting, Places
  <2>6. QED BY <1>1, <1>2, <2>4, <2>5, ReadStep
<1>6. QED BY <1>4, <1>5

LEMMA LikeKeeps ==
    ASSUME Fulfilled, NEW c \in Callers, MoreLikeThis(c)
    PROVE  Fulfilled'
<1>1. PICK ask : ask = reading[c].ask
  OBVIOUS
<1>2. PICK saw : saw = reading[c].saw \cup {shelf}
  OBVIOUS
<1>3. PICK a : a = reading[c].answer
  OBVIOUS
<1>4. ask \in Queries /\ Seen(saw) /\ shelf \in saw /\ IsAnswer(a) /\ ask.kind = "similar"
  BY <1>1, <1>2, <1>3, AtWork DEF MoreLikeThis, ReaderAt, Fitting
<1>5. PICK hits \in Some(Neighbours(shelf, a.source, ask.of), ask.limit) \cup {{}} :
         Reads(c, IF hits = {} THEN "fallback" ELSE "store",
               [a EXCEPT !.hits = hits, !.mode = "more_like_this"])
  BY <1>1, <1>3 DEF MoreLikeThis
<1>6. PICK answer : answer = [a EXCEPT !.hits = hits, !.mode = "more_like_this"]
  OBVIOUS
<1>7. IsAnswer(answer) /\ answer.hits = hits /\ answer.mode = "more_like_this"
  BY <1>4, <1>6 DEF IsAnswer
<1>8. PICK at : at = IF hits = {} THEN "fallback" ELSE "store"
  OBVIOUS
<1>9. Reads(c, at, answer) /\ Quiet
  BY <1>5, <1>6, <1>8 DEF MoreLikeThis
<1>10. ask.of \notin hits
  BY <1>5 DEF Some, Neighbours
<1>11. at = "store" => Final(ask, answer, saw)
  BY <1>4, <1>7, <1>8, <1>10 DEF Final, Wants, Likened
<1>12. at \in {"fallback", "store"}
  BY <1>8
<1>13. Fitting(at, ask, answer, saw)
  BY <1>4, <1>7, <1>11, <1>12 DEF Fitting, Places
<1>14. QED BY <1>1, <1>2, <1>9, <1>13, ReadStep

LEMMA FallbackKeeps ==
    ASSUME Fulfilled, NEW c \in Callers, SimilarFallback(c)
    PROVE  Fulfilled'
<1>1. PICK ask : ask = reading[c].ask
  OBVIOUS
<1>2. PICK saw : saw = reading[c].saw \cup {shelf}
  OBVIOUS
<1>3. PICK a : a = reading[c].answer
  OBVIOUS
<1>4. ask \in Queries /\ Seen(saw) /\ shelf \in saw /\ IsAnswer(a) /\ ask.kind = "similar"
  BY <1>1, <1>2, <1>3, AtWork DEF SimilarFallback, ReaderAt, Fitting
<1>5. PICK related : related = {l \in Neighbours(shelf, a.source, ask.of) :
                          \/ Shares(a.source, shelf[l], Relations)
                          \/ \A f \in Relations : Has(a.source, f) = {}}
  OBVIOUS
<1>6. PICK hits \in Some(related, ask.limit) :
         Reads(c, "store", [a EXCEPT !.hits = hits, !.mode = "fallback"])
  BY <1>1, <1>3, <1>5 DEF SimilarFallback
<1>7. PICK answer : answer = [a EXCEPT !.hits = hits, !.mode = "fallback"]
  OBVIOUS
<1>8. /\ IsAnswer(answer) /\ answer.hits = hits /\ answer.mode = "fallback"
      /\ answer.source = a.source
  BY <1>4, <1>7 DEF IsAnswer
<1>9. Reads(c, "store", answer) /\ Quiet
  BY <1>6, <1>7 DEF SimilarFallback
<1>10. hits \subseteq related /\ (hits = {} => related = {})
  BY <1>6 DEF Some
<1>11. Likened(ask, answer, shelf)
  BY <1>5, <1>8, <1>10 DEF Likened, Neighbours
<1>12. Final(ask, answer, saw)
  BY <1>4, <1>8, <1>11 DEF Final, Wants
<1>13. Fitting("store", ask, answer, saw)
  BY <1>4, <1>8, <1>12 DEF Fitting, Places
<1>14. QED BY <1>1, <1>2, <1>9, <1>13, ReadStep

LEMMA SuggestKeeps ==
    ASSUME Fulfilled, NEW c \in Callers, autocomplete(c) \/ TitleFallback(c)
    PROVE  Fulfilled'
<1>1. PICK ask : ask = reading[c].ask
  OBVIOUS
<1>2. PICK saw : saw = reading[c].saw \cup {shelf}
  OBVIOUS
<1>3. ask \in Queries /\ Seen(saw) /\ shelf \in saw /\ ask.kind = "autocomplete"
  BY <1>1, <1>2, AtWork DEF autocomplete, TitleFallback, ReaderAt, Fitting
<1>4. PICK hits, at :
         /\ Reads(c, at, [NoAnswer EXCEPT !.hits = hits]) /\ Quiet
         /\ at \in {"fallback", "store"}
  <2>1. CASE autocomplete(c)
    <3>1. PICK hits : Reads(c, IF hits = {} /\ reading[c].ask.long THEN "fallback" ELSE "store",
                            [NoAnswer EXCEPT !.hits = hits])
      BY <2>1 DEF autocomplete
    <3>2. PICK at : at = IF hits = {} /\ reading[c].ask.long THEN "fallback" ELSE "store"
      OBVIOUS
    <3>3. at \in {"fallback", "store"}
      BY <3>2
    <3>4. Quiet
      BY <2>1 DEF autocomplete
    <3>5. QED BY <3>1, <3>2, <3>3, <3>4
  <2>2. CASE TitleFallback(c)
    BY <2>2 DEF TitleFallback
  <2>3. QED BY <2>1, <2>2
<1>5. PICK answer : answer = [NoAnswer EXCEPT !.hits = hits]
  OBVIOUS
<1>6. IsAnswer(answer) /\ answer.mode = "none"
  BY <1>5 DEF IsAnswer, NoAnswer
<1>7. Final(ask, answer, saw)
  BY <1>3, <1>6 DEF Final, Wants
<1>8. Fitting(at, ask, answer, saw)
  BY <1>3, <1>4, <1>6, <1>7 DEF Fitting, Places
<1>9. QED BY <1>1, <1>2, <1>4, <1>5, <1>8, ReadStep

\* What is stored is complete, and takes the place of what was there.
LEMMA StoreKeeps ==
    ASSUME Fulfilled, NEW c \in Callers, Store(c)
    PROVE  Fulfilled'
<1>1. PICK r : r = reading[c]
  OBVIOUS
<1>2. r.at = "store" /\ Reader(r)
  BY <1>1 DEF Store, ReaderAt, Fulfilled, Readers
<1>3. Final(r.ask, r.answer, r.saw) /\ (~r.late => r.saw = {shelf})
  BY <1>2 DEF Reader, Fitting, Sighted, Final
<1>4. PICK e : e = [ask |-> r.ask, answer |-> r.answer, saw |-> r.saw, late |-> r.late]
  OBVIOUS
<1>5. IsResponse(e) /\ Final(e.ask, e.answer, e.saw) /\ (~e.late => e.saw = {shelf}) /\ e.ask = r.ask
  BY <1>3, <1>4 DEF IsResponse
<1>6. responses' = responses \/ responses' = {d \in responses : d.ask # r.ask} \cup {e}
  BY <1>1, <1>4 DEF Store
<1>7. Kept /\ CachedIsCurrent
  BY DEF Fulfilled
<1>8. Kept'
  BY <1>5, <1>6, <1>7 DEF Kept
<1>9. UNCHANGED <<shelf, owed, writes, asks>>
  BY DEF Store
<1>10. CachedIsCurrent'
  BY <1>5, <1>6, <1>7, <1>9 DEF CachedIsCurrent
<1>11. Puts(c, NoReading)
  BY DEF Store
<1>12. Readers'
  <2>1. reading' = [reading EXCEPT ![c] = NoReading]
    BY <1>11 DEF Puts
  <2>2. Readers /\ Reader(NoReading)
    BY NoReadingFits DEF Fulfilled, Reader, Sighted
  <2>3. \A d \in Callers : reading'[d] = IF d = c THEN NoReading ELSE reading[d]
    BY <2>1, <2>2 DEF Readers
  <2>4. \A d \in Callers : Reader(reading'[d])
    BY <2>2, <2>3 DEF Readers
  <2>5. \A d \in Callers : Reader(reading[d])'
    BY <1>9, <2>4 DEF Reader, Sighted
  <2>6. reading' = [d \in Callers |-> reading'[d]]
    BY <2>1, <2>2 DEF Readers
  <2>7. QED BY <2>5, <2>6 DEF Readers
<1>13. QED BY <1>8, <1>9, <1>10, <1>12 DEF Fulfilled, Counters, Shelved

\* Every reader that has begun to read is late from then on, and the write owes a sweep.
LEMMA WriteKeeps ==
    ASSUME Fulfilled, NEW l \in Homes, NEW doc \in Papers(l) \cup {Gone}, WriteIndex(l, doc)
    PROVE  Fulfilled'
<1>1. shelf' = [shelf EXCEPT ![l] = doc] /\ owed' = owed + 1 /\ writes' = writes + 1
      /\ writes < MaxWrites /\ UNCHANGED <<responses, asks>>
  BY DEF WriteIndex
<1>2. shelf = [k \in Homes |-> shelf[k]] /\ Shelved(shelf) /\ Counters /\ Readers /\ Kept
  BY DEF Fulfilled
<1>3. shelf' = [k \in Homes |-> shelf'[k]] /\ Shelved(shelf)'
  BY <1>1, <1>2 DEF Shelved
<1>4. Counters'
  BY <1>1, <1>2 DEF Counters
<1>5. Kept'
  BY <1>1, <1>2 DEF Kept
<1>6. CachedIsCurrent'
  BY <1>1, <1>2 DEF CachedIsCurrent, Counters
<1>7. reading' = [c \in Callers |-> [reading[c] EXCEPT !.late = @ \/ reading[c].saw # {}]]
  BY DEF WriteIndex
<1>8. ASSUME NEW c \in Callers PROVE Reader(reading[c])'
  <2>1. PICK r : r = reading[c]
    OBVIOUS
  <2>2. PICK late : late = (r.late \/ r.saw # {})
    OBVIOUS
  <2>3. PICK s : s = [r EXCEPT !.late = late]
    OBVIOUS
  <2>4. Reader(r)
    BY <1>2, <2>1 DEF Readers
  <2>5. /\ IsReading(s) /\ s.at = r.at /\ s.ask = r.ask /\ s.answer = r.answer /\ s.saw = r.saw
        /\ s.late = late
    BY <2>3, <2>4 DEF Reader, IsReading
  <2>6. reading'[c] = s
    BY <1>7, <2>1, <2>2, <2>3
  <2>7. ~s.late => s.saw = {}
    BY <2>2, <2>5
  <2>8. Fitting(s.at, s.ask, s.answer, s.saw)
    BY <2>4, <2>5 DEF Reader
  <2>9. QED BY <2>5, <2>6, <2>7, <2>8 DEF Reader, Sighted
<1>9. Readers'
  BY <1>7, <1>8 DEF Readers
<1>10. QED BY <1>3, <1>4, <1>5, <1>6, <1>9 DEF Fulfilled

LEMMA SweepKeeps ==
    ASSUME Fulfilled, invalidate_namespace
    PROVE  Fulfilled'
<1>1. owed > 0 /\ owed' = owed - 1 /\ UNCHANGED <<shelf, reading, writes, asks>>
  BY DEF invalidate_namespace
<1>2. Counters /\ Readers /\ Kept
  BY DEF Fulfilled
<1>3. PICK kept \in SUBSET responses : responses' = {[e EXCEPT !.late = TRUE] : e \in kept}
  <2>1. responses' = {} \/ \E kept \in SUBSET responses : responses' = {[e EXCEPT !.late = TRUE] : e \in kept}
    BY DEF invalidate_namespace
  <2>2. CASE responses' = {}
    <3>1. {} \in SUBSET responses /\ responses' = {[e EXCEPT !.late = TRUE] : e \in {}}
      BY ONLY <2>2
    <3>2. QED BY ONLY <3>1
  <2>3. QED BY ONLY <2>1, <2>2
<1>4. ASSUME NEW e \in responses, NEW d, d = [e EXCEPT !.late = TRUE]
      PROVE  IsResponse(d) /\ Final(d.ask, d.answer, d.saw) /\ d.late = TRUE /\ d.ask = e.ask
  <2>1. IsResponse(e) /\ Final(e.ask, e.answer, e.saw)
    BY <1>2 DEF Kept
  <2>2. IsResponse(d) /\ d.ask = e.ask /\ d.answer = e.answer /\ d.saw = e.saw /\ d.late = TRUE
    BY <1>4, <2>1 DEF IsResponse
  <2>3. QED BY <2>1, <2>2
<1>5. \A d \in responses' : \E e \in kept : d = [e EXCEPT !.late = TRUE]
  BY <1>3
<1>6. Kept'
  <2>1. \A d \in responses' : IsResponse(d) /\ Final(d.ask, d.answer, d.saw)
    BY <1>4, <1>5
  <2>2. ASSUME NEW d \in responses', NEW e \in responses', d.ask = e.ask PROVE d = e
    <3>1. PICK f \in kept : d = [f EXCEPT !.late = TRUE]
      BY <1>5
    <3>2. PICK g \in kept : e = [g EXCEPT !.late = TRUE]
      BY <1>5
    <3>3. f.ask = g.ask
      BY <1>4, <2>2, <3>1, <3>2
    <3>4. f = g
      BY <1>2, <3>3 DEF Kept
    <3>5. QED BY <3>1, <3>2, <3>4
  <2>3. QED BY <2>1, <2>2 DEF Kept
<1>7. \A d \in responses' : d.late
  BY <1>4, <1>5
<1>8. CachedIsCurrent'
  BY <1>7 DEF CachedIsCurrent
<1>9. Counters'
  BY <1>1, <1>2 DEF Counters
<1>10. QED BY <1>1, <1>2, <1>6, <1>8, <1>9 DEF Fulfilled, Shelved, Readers, Reader, Sighted

LEMMA LapseKeeps ==
    ASSUME Fulfilled, LapseResponse
    PROVE  Fulfilled'
<1>1. responses' \subseteq responses /\ UNCHANGED <<shelf, reading, owed, writes, asks>>
  BY DEF LapseResponse
<1>2. Kept' /\ CachedIsCurrent'
  BY <1>1 DEF Fulfilled, Kept, CachedIsCurrent
<1>3. QED BY <1>1, <1>2 DEF Fulfilled, Shelved, Counters, Readers, Reader, Sighted

LEMMA FailKeeps ==
    ASSUME Fulfilled, NEW c \in Callers, FailQuery(c)
    PROVE  Fulfilled'
BY OffStep DEF FailQuery

LEMMA StepFulfilled == Fulfilled /\ [QueryNext]_queryVars => Fulfilled'
<1>. SUFFICES ASSUME Fulfilled, [QueryNext]_queryVars PROVE Fulfilled'
  OBVIOUS
<1>1. CASE UNCHANGED queryVars
  BY <1>1 DEF Fulfilled, Shelved, Counters, Readers, Reader, Sighted, Kept, CachedIsCurrent, queryVars
<1>2. CASE QueryNext
  BY <1>2, WriteKeeps, SweepKeeps, LapseKeeps, AskKeeps, SearchKeeps, FacetsKeeps, MapKeeps,
     PointsKeep, SimilarKeeps, LikeKeeps, FallbackKeeps, SuggestKeeps, StoreKeeps, FailKeeps
     DEF QueryNext
<1>3. QED BY <1>1, <1>2

LEMMA AlwaysFulfilled == QuerySpec => []Fulfilled
BY InitFulfilled, StepFulfilled, PTL DEF QuerySpec

-----------------------------------------------------------------------------
(* The results *)

\* The index, the responses in Redis and the requests under way keep their types, whatever
\* api-core writes while search_service and query_builder piece an answer together.
THEOREM QueryTypes == QuerySpec => []QueryTypeOK
<1>1. Fulfilled => QueryTypeOK
  <2>. SUFFICES ASSUME Fulfilled PROVE QueryTypeOK
    OBVIOUS
  <2>1. \A c \in Callers : reading[c].at \in Places
    BY DEF Fulfilled, Readers, Reader, Fitting
  <2>2. \A e \in responses : e.ask \in Queries
    BY DEF Fulfilled, Kept, Final
  <2>3. owed \in 0..MaxWrites /\ writes \in 0..MaxWrites /\ asks \in 0..MaxAsks
    BY DEF Fulfilled, Counters
  <2>4. QED BY <2>1, <2>2, <2>3 DEF Fulfilled, Shelved, QueryTypeOK
<1>2. QED BY <1>1, AlwaysFulfilled, PTL

\* A response that no sweep is owed for, and that no broken sweep and no late reader left,
\* is what the index holds.
THEOREM CacheIsCurrent == QuerySpec => []CachedIsCurrent
<1>1. Fulfilled => CachedIsCurrent
  BY DEF Fulfilled
<1>2. QED BY <1>1, AlwaysFulfilled, PTL

\* An answer that was given while the index stood still is of that one index.
LEMMA StillAnswer ==
    ASSUME NEW ask, NEW answer, NEW saw, Final(ask, answer, saw), Cardinality(saw) = 1, NEW ix \in saw
    PROVE  /\ ask \in Queries /\ Shelved(ix)
           /\ ask.kind = "results" => Paged(ask, answer, ix)
           /\ Wants(ask) => Counted(ask, answer, ix)
           /\ answer.mode = "points" => Totalled(ask, answer, ix) /\ Pointed(ask, answer, ix)
           /\ ask.kind = "similar" => Likened(ask, answer, ix)
<1>1. IsFiniteSet(saw)
  BY DEF Final, Seen
<1>2. PICK x : saw = {x}
  BY <1>1, FS_Singleton
<1>3. saw = {ix}
  BY <1>2
<1>4. QED BY <1>3 DEF Final, Seen

LEMMA TotalOfFound ==
    ASSUME NEW ix, Shelved(ix), NEW filters, Matching(ix, filters, {}) # {}
    PROVE  FacetTotal(ix, filters) = Cardinality(Matching(ix, filters, {}))
<1>1. PICK found : found = Matching(ix, filters, {})
  OBVIOUS
<1>2. IsFiniteSet(found)
  BY <1>1, FoundIsHeld, Ranks
<1>3. Cardinality(found) # 0
  BY <1>1, <1>2, FS_EmptySet
<1>4. QED BY <1>1, <1>3 DEF FacetTotal

\* Answers fit together: facets with what selecting them finds of their values, the pages of
\* a search with its total and, if a field sorts it, with each other, a map with its points,
\* whatever was written in between.
THEOREM AnswersFitTogether == QuerySpec => []AnswersAddUp
<1>1. ASSUME Fulfilled PROVE AnswersAddUp
  <2>. SUFFICES ASSUME NEW e \in responses, Still(e), NEW ix \in e.saw,
                       NEW found, found = Matching(ix, e.ask.filters, {})
                PROVE  /\ e.ask.kind = "facets" \/ (e.ask.kind = "results" /\ e.ask.facets) =>
                             /\ \A g \in FacetGroups : \A v \in Buckets(ix, g) :
                                   e.answer.facets[g][v] = FoundUnder(ix, e.ask.filters, g, v)
                             /\ found # {} => e.answer.among = Cardinality(found)
                       /\ e.ask.kind = "results" =>
                             /\ \A d \in responses :
                                   /\ e.ask.sort # "relevance"
                                   /\ d.saw = e.saw /\ d.ask = [e.ask EXCEPT !.page = d.ask.page]
                                   /\ d # e
                                   => d.answer.hits \cap e.answer.hits = {}
                             /\ Cardinality(e.answer.hits) = PageLength(e.answer.total, e.ask)
                       /\ e.answer.mode = "points" => e.answer.hits = found
                       /\ e.ask.kind = "similar" =>
                             /\ e.ask.of \notin e.answer.hits
                             /\ e.answer.hits = {} =>
                                   ~ \E l \in Held(ix) \ {e.ask.of} :
                                        /\ PriceBand(e.answer.source, ix[l])
                                        /\ Shares(e.answer.source, ix[l], Relations)
    BY DEF AnswersAddUp, Asked
  <2>1. /\ e.ask \in Queries /\ Shelved(ix)
        /\ e.ask.kind = "results" => Paged(e.ask, e.answer, ix)
        /\ Wants(e.ask) => Counted(e.ask, e.answer, ix)
        /\ e.answer.mode = "points" => Totalled(e.ask, e.answer, ix) /\ Pointed(e.ask, e.answer, ix)
        /\ e.ask.kind = "similar" => Likened(e.ask, e.answer, ix)
    BY <1>1, StillAnswer DEF Fulfilled, Kept, Still
  <2>2. found \in SUBSET Held(ix)
    BY FoundIsHeld
  <2>3. ASSUME Wants(e.ask)
        PROVE  /\ \A g \in FacetGroups : \A v \in Buckets(ix, g) :
                     e.answer.facets[g][v] = FoundUnder(ix, e.ask.filters, g, v)
               /\ found # {} => e.answer.among = Cardinality(found)
    BY <2>1, <2>3, FacetSelects, TotalOfFound DEF Counted
  <2>4. ASSUME e.ask.kind = "results", e.ask.sort # "relevance",
               NEW d \in responses, d.saw = e.saw, d.ask = [e.ask EXCEPT !.page = d.ask.page], d # e
        PROVE  d.answer.hits \cap e.answer.hits = {}
    <3>1. /\ d.ask \in Queries /\ (d.ask.kind = "results" => Paged(d.ask, d.answer, ix))
      BY <1>1, <2>4, StillAnswer DEF Fulfilled, Kept, Still
    <3>0. PICK ask : ask = e.ask
      OBVIOUS
    <3>a. PICK n : n = d.ask.page
      OBVIOUS
    <3>b. /\ ask = [kind |-> ask.kind, filters |-> ask.filters, page |-> ask.page, limit |-> ask.limit,
                    facets |-> ask.facets, of |-> ask.of, long |-> ask.long, sort |-> ask.sort]
          /\ d.ask = [ask EXCEPT !.page = n]
      BY <2>1, <2>4, <3>0, <3>a
    <3>2. /\ d.ask.filters = e.ask.filters /\ d.ask.limit = e.ask.limit /\ d.ask.kind = "results"
          /\ d.ask.sort = e.ask.sort
      BY <2>4, <3>0, <3>b
    <3>3. d.ask # e.ask
      BY <1>1, <2>4 DEF Fulfilled, Kept
    <3>4. d.ask.page # e.ask.page
      BY <3>0, <3>a, <3>b, <3>3
    <3>5. PICK p \in Nat \ {0} : p = e.ask.page
      BY <2>1
    <3>6. PICK q \in Nat \ {0} : q = d.ask.page
      BY <3>1
    <3>7. PICK size \in Nat \ {0} : size = e.ask.limit
      BY <2>1
    <3>8. e.answer.hits = Page(ix, found, (p - 1) * size, size)
      BY <2>1, <2>4, <3>5, <3>7 DEF Paged, PagesNow
    <3>9. d.answer.hits = Page(ix, found, (q - 1) * size, size)
      BY <2>4, <3>1, <3>2, <3>6, <3>7 DEF Paged, PagesNow
    <3>10. CASE p < q
      <4>1. Page(ix, found, (p - 1) * size, size) \cap Page(ix, found, (q - 1) * size, size) = {}
        BY <2>1, <2>2, <3>10, PagesApart
      <4>2. QED BY <3>8, <3>9, <4>1
    <3>11. CASE q < p
      <4>1. Page(ix, found, (q - 1) * size, size) \cap Page(ix, found, (p - 1) * size, size) = {}
        BY <2>1, <2>2, <3>11, PagesApart
      <4>2. QED BY <3>8, <3>9, <4>1
    <3>12. QED BY <3>4, <3>5, <3>6, <3>10, <3>11
  <2>5. ASSUME e.ask.kind = "results"
        PROVE  Cardinality(e.answer.hits) = PageLength(e.answer.total, e.ask)
    BY <2>1, <2>2, <2>5, PagesNowSize DEF Paged
  <2>6. ASSUME e.answer.mode = "points" PROVE e.answer.hits = found
    BY <2>1, <2>2, <2>6, WholePage DEF Totalled, Pointed
  <2>7. QED BY <2>1, <2>3, <2>4, <2>5, <2>6 DEF Wants, Likened
<1>2. QED BY <1>1, AlwaysFulfilled, PTL
=============================================================================
