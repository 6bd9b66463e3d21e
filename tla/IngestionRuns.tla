--------------------------- MODULE IngestionRuns ---------------------------
(***************************************************************************)
(* The ingestion runs of rag-svc: POST /api/chat/ingest checks that no run *)
(* of the source is active, inserts a row and leaves the work to a         *)
(* background task of the replica that answers.  The task takes each       *)
(* source's lock in turn, loads the source's documents (from Mongo, or     *)
(* from the seed files when Mongo does not answer), compares them with the *)
(* corpus, embeds and stores what changed, prunes what is gone, and writes *)
(* the outcome to the row.  A lock is of one process: the runs of other    *)
(* replicas do not wait for it.                                            *)
(*                                                                         *)
(* A document is one language variant of a record, and its content is a    *)
(* version: the checksum tells two versions apart.  A version that has no  *)
(* text, or makes no chunks, is passed over.  A document's row and chunks  *)
(* are written in one transaction.  Progress counters are left out.        *)
(***************************************************************************)
EXTENDS Integers, FiniteSets

CONSTANTS
    Docs,
    Sources,
    SourceOf,          \* the source of each document
    SeedDocs,          \* the documents of the seed files
    Blanks,            \* the versions of documents of which there is nothing to store
    Replicas,          \* the processes of rag-svc
    Runs,              \* bounds the requests
    NoRun,
    Options,           \* what a request may ask for
    MaxContent,        \* bounds the changes to a document
    RunsMayFail,       \* an embedding call, a transaction or Mongo may fail
    RunsMayDie         \* rag-svc may be restarted under its runs

OptionSet == [wants : SUBSET Docs, limited : BOOLEAN, force : BOOLEAN, prune : BOOLEAN]

ASSUME IngestionAssumption ==
    /\ SourceOf \in [Docs -> Sources] /\ SeedDocs \subseteq Docs
    /\ Blanks \subseteq Docs \X Nat /\ NoRun \notin Runs /\ {"all", "none"} \cap Sources = {}
    /\ Options \subseteq OptionSet
    /\ MaxContent \in Nat /\ RunsMayFail \in BOOLEAN /\ RunsMayDie \in BOOLEAN

Contents == 0..MaxContent
Missing  == -1
Withdrawn == MaxContent + 1
Statuses == {"none", "pending", "running", "succeeded", "partial", "failed"}

VARIABLES
    upstream,          \* the version each document has in its source
    corpus,            \* the version rag_documents and rag_chunks hold
    row,               \* ingestion_runs
    task,              \* the request, then the background task, of each run
    replica,           \* where each request comes in
    lock,              \* _source_locks of each replica
    crossed         \* history: runs whose source another replica ingests too

ingestVars == <<upstream, corpus, row, task, replica, lock, crossed>>

Task == [at     : {"new", "create", "start", "lock", "load", "compare", "flush", "prune", "release",
                   "finish", "over"},
         source : Sources \cup {"all"},
         options: OptionSet,
         left   : SUBSET Sources,              \* sources still to ingest
         now    : Sources \cup {"none"},       \* the source being ingested
         loaded : [Docs -> Contents \cup {Missing}],
         seed   : BOOLEAN,                     \* loaded from the seed files
         dirty  : SUBSET Docs,                 \* changed, and not yet stored
         ok     : BOOLEAN,                     \* the source has not raised
         good   : BOOLEAN,                     \* some source was ingested
         errors : BOOLEAN]
Nothing == [d \in Docs |-> Missing]
NoTask  == [at |-> "new", source |-> "all", options |-> [wants |-> {}, limited |-> FALSE,
            force |-> FALSE, prune |-> FALSE], left |-> {}, now |-> "none", loaded |-> Nothing,
            seed |-> FALSE, dirty |-> {}, ok |-> TRUE, good |-> FALSE, errors |-> FALSE]

IngestTypeOK ==
    /\ upstream \in [Docs -> Contents \cup {Missing, Withdrawn}]
    /\ corpus \in [Docs -> Contents \cup {Missing}]
    /\ row \in [Runs -> [status : Statuses, source : Sources \cup {"all"}]]
    /\ task \in [Runs -> Task]
    /\ replica \in [Runs -> Replicas] /\ crossed \subseteq Runs
    /\ lock \in [Replicas \X Sources -> Runs \cup {NoRun}]
    \* Whoever ingests a source holds its lock, and nobody else of its replica does.
    /\ \A r \in Runs, s \in Sources : task[r].now = s <=> lock[<<replica[r], s>>] = r
    /\ \A r \in Runs : task[r].dirty \subseteq {d \in Docs : task[r].loaded[d] # Missing}

IngestInit ==
    /\ upstream = [d \in Docs |-> IF d \in SeedDocs THEN 0 ELSE Missing]
    /\ corpus = Nothing
    /\ row = [r \in Runs |-> [status |-> "none", source |-> "all"]]
    /\ task = [r \in Runs |-> NoTask]
    /\ replica \in [Runs -> Replicas] /\ crossed = {}
    /\ lock = [k \in Replicas \X Sources |-> NoRun]

-----------------------------------------------------------------------------
To(r, label)     == task' = [task EXCEPT ![r].at = label]
expand_sources(s) == IF s = "all" THEN Sources ELSE {s}
Active(s)        == \E r \in Runs : row[r].source = s /\ row[r].status \in {"pending", "running"}

\* The source changes: a document appears, changes or is withdrawn.
Publish(d) ==
    /\ upstream[d] < MaxContent
    /\ upstream' = [upstream EXCEPT ![d] = @ + 1]
    /\ UNCHANGED <<corpus, row, task, replica, lock, crossed>>
Withdraw(d) ==
    /\ upstream[d] = MaxContent
    /\ upstream' = [upstream EXCEPT ![d] = Withdrawn]
    /\ UNCHANGED <<corpus, row, task, replica, lock, crossed>>

\* start_ingestion: rows that say "all" are never looked for.
PostIngest(r, s, o) ==
    /\ task[r].at = "new"
    /\ ~o.force => \A name \in expand_sources(s) : ~Active(name)
    /\ task' = [task EXCEPT ![r] = [NoTask EXCEPT !.at = "create", !.source = s, !.options = o]]
    /\ UNCHANGED <<upstream, corpus, row, replica, lock, crossed>>
CreateRun(r) ==
    /\ task[r].at = "create"
    /\ row' = [row EXCEPT ![r] = [status |-> "pending", source |-> task[r].source]]
    /\ To(r, "start")
    /\ UNCHANGED <<upstream, corpus, replica, lock, crossed>>

-----------------------------------------------------------------------------
(* IngestionPipeline.run *)

\* An update of the run's row that fails is only logged.
Report(r, status) ==
    \/ row' = [row EXCEPT ![r].status = status]
    \/ RunsMayFail /\ UNCHANGED row

MarkRunning(r) ==
    /\ task[r].at = "start"
    /\ Report(r, "running")
    /\ task' = [task EXCEPT ![r].left = expand_sources(task[r].source), ![r].at = "lock"]
    /\ UNCHANGED <<upstream, corpus, replica, lock, crossed>>

Ingests(r, s) ==
    LET elsewhere == {q \in Runs : task[q].now = s /\ replica[q] # replica[r]}
    IN  /\ lock' = [lock EXCEPT ![<<replica[r], s>>] = r]
        /\ crossed' = crossed \cup elsewhere \cup (IF elsewhere = {} THEN {} ELSE {r})
        /\ task' = [task EXCEPT ![r].left = @ \ {s}, ![r].now = s, ![r].ok = TRUE,
                                ![r].at = "load"]

\* Mutant: the lock is not waited for.
TakeLockAnyway(r) ==
    /\ task[r].at = "lock"
    /\ \E s \in task[r].left : Ingests(r, s)
    /\ UNCHANGED <<upstream, corpus, row, replica>>

\* The code has one order of the sources; any order is allowed here.
TakeLock(r) ==
    /\ task[r].at = "lock"
    /\ \E s \in task[r].left : lock[<<replica[r], s>>] = NoRun /\ Ingests(r, s)
    /\ UNCHANGED <<upstream, corpus, row, replica>>

\* A source that raises is recorded and given up.
GiveUp(r) == task' = [task EXCEPT ![r].ok = FALSE, ![r].errors = TRUE, ![r].dirty = {},
                                  ![r].at = "release"]

\* None from Mongo, which is also what no documents are, means the seed files.
LoadDocuments(r) ==
    /\ task[r].at = "load"
    /\ LET o    == task[r].options
           mine == {d \in o.wants : SourceOf[d] = task[r].now}
           there == {d \in mine : upstream[d] \in Contents}
       IN  \/ \E keep \in IF o.limited THEN SUBSET there ELSE {there} :
                 /\ there # {}
                 /\ task' = [task EXCEPT ![r].at = "compare", ![r].seed = FALSE,
                       ![r].loaded = [d \in Docs |-> IF d \in keep THEN upstream[d] ELSE Missing]]
           \/ \E keep \in IF o.limited THEN SUBSET (mine \cap SeedDocs)
                                       ELSE {mine \cap SeedDocs} :
                 /\ there = {} \/ RunsMayFail
                 /\ task' = [task EXCEPT ![r].at = "compare", ![r].seed = TRUE,
                       ![r].loaded = [d \in Docs |-> IF d \in keep THEN 0 ELSE Missing]]
           \/ RunsMayFail /\ GiveUp(r)
    /\ UNCHANGED <<upstream, corpus, row, replica, lock, crossed>>

\* stored_state, and which documents it does not have as they were loaded.  One of which
\* there is nothing to store is passed over, and the corpus keeps what it had.
Compare(r) ==
    /\ task[r].at = "compare"
    /\ \/ task' = [task EXCEPT ![r].at = "flush",
             ![r].dirty = {d \in Docs : /\ task[r].loaded[d] # Missing
                                        /\ <<d, task[r].loaded[d]>> \notin Blanks
                                        /\ task[r].options.force \/ corpus[d] # task[r].loaded[d]}]
       \/ RunsMayFail /\ GiveUp(r)
    /\ UNCHANGED <<upstream, corpus, row, replica, lock, crossed>>

\* Mutant: a batch that fails is left without a word.
FlushQuietly(r) ==
    /\ task[r].at = "flush"
    /\ \/ task[r].dirty = {} /\ To(r, "prune") /\ UNCHANGED corpus
       \/ \E d \in task[r].dirty :
             /\ corpus' \in {[corpus EXCEPT ![d] = task[r].loaded[d]], corpus}
             /\ task' = [task EXCEPT ![r].dirty = @ \ {d}]
    /\ UNCHANGED <<upstream, row, replica, lock, crossed>>

\* A batch whose embedding fails is counted and left; so is a document whose
\* transaction fails.
Flush(r) ==
    /\ task[r].at = "flush"
    /\ \/ /\ task[r].dirty = {}
          /\ To(r, "prune")
          /\ UNCHANGED corpus
       \/ \E d \in task[r].dirty :
             /\ corpus' = [corpus EXCEPT ![d] = task[r].loaded[d]]
             /\ task' = [task EXCEPT ![r].dirty = @ \ {d}]
       \/ \E b \in SUBSET task[r].dirty \ {{}} :
             /\ RunsMayFail
             /\ task' = [task EXCEPT ![r].dirty = @ \ b, ![r].errors = TRUE]
             /\ UNCHANGED corpus
    /\ UNCHANGED <<upstream, row, replica, lock, crossed>>

\* A run limited by ids or limit does not prune; one limited by langs does.
PruneCorpus(r) ==
    /\ task[r].at = "prune"
    /\ \/ /\ corpus' = [d \in Docs |->
                IF /\ task[r].options.prune /\ ~task[r].options.limited
                   /\ SourceOf[d] = task[r].now /\ task[r].loaded[d] = Missing
                THEN Missing ELSE corpus[d]]
          /\ To(r, "release")
       \/ RunsMayFail /\ GiveUp(r) /\ UNCHANGED corpus
    /\ UNCHANGED <<upstream, row, replica, lock, crossed>>

ReleaseLock(r) ==
    /\ task[r].at = "release"
    /\ lock' = [lock EXCEPT ![<<replica[r], task[r].now>>] = NoRun]
    /\ crossed' = crossed \ {r}
    /\ task' = [task EXCEPT ![r].at = IF task[r].left = {} THEN "finish" ELSE "lock",
                            ![r].good = @ \/ task[r].ok, ![r].now = "none", ![r].loaded = Nothing,
                            ![r].seed = FALSE, ![r].ok = TRUE]
    /\ UNCHANGED <<upstream, corpus, row, replica>>

Outcome(r) == CASE ~task[r].good                  -> "failed"
                [] task[r].good /\ task[r].errors -> "partial"
                [] OTHER                          -> "succeeded"
FinishRun(r) ==
    /\ task[r].at = "finish"
    /\ Report(r, Outcome(r))
    /\ task' = [task EXCEPT ![r] = [NoTask EXCEPT !.at = "over"]]
    /\ UNCHANGED <<upstream, corpus, replica, lock, crossed>>

\* Tasks and locks are the process's own; the rows stay as they are.
Reboot(p) ==
    /\ RunsMayDie
    /\ \E r \in Runs : replica[r] = p /\ task[r].at \notin {"new", "over"}
    /\ task' = [r \in Runs |-> IF replica[r] # p THEN task[r]
                               ELSE IF task[r].at = "new" THEN NoTask
                               ELSE [NoTask EXCEPT !.at = "over"]]
    /\ lock' = [k \in Replicas \X Sources |-> IF k[1] = p THEN NoRun ELSE lock[k]]
    /\ crossed' = {r \in crossed : replica[r] # p}
    /\ UNCHANGED <<upstream, corpus, row, replica>>

-----------------------------------------------------------------------------
IngestNext ==
    \/ \E d \in Docs : Publish(d) \/ Withdraw(d)
    \/ \E r \in Runs :
          \/ \E s \in Sources \cup {"all"}, o \in Options : PostIngest(r, s, o)
          \/ CreateRun(r) \/ MarkRunning(r) \/ TakeLock(r) \/ LoadDocuments(r) \/ Compare(r)
          \/ Flush(r) \/ PruneCorpus(r) \/ ReleaseLock(r) \/ FinishRun(r)
    \/ \E p \in Replicas : Reboot(p)

IngestSpec == IngestInit /\ [][IngestNext]_ingestVars
-----------------------------------------------------------------------------
(* What a run promises *)

\* When a run lets a source go that no other replica ingested meanwhile, and has recorded no
\* error, the corpus holds every document as the run loaded it: nothing that another run
\* read earlier, or stored under it, has taken its place.  Only of a version that has no
\* text the corpus holds what it held before.
WhatSucceededIsStored ==
    \A r \in Runs : task[r].at = "release" /\ ~task[r].errors /\ r \notin crossed =>
        \A d \in Docs : task[r].loaded[d] # Missing /\ <<d, task[r].loaded[d]>> \notin Blanks =>
            corpus[d] = task[r].loaded[d]

\* A document is never replaced by an older version of itself, whichever runs of a replica
\* overlap, unless the newer one came from Mongo and Mongo then had no answer.  The lock
\* does not keep the runs of two replicas apart: of these the slower may put back the older
\* version that it loaded, and no other run may.
CorpusMovesForward ==
    [][\A d \in Docs : corpus[d] # Missing /\ corpus'[d] # Missing /\ corpus'[d] < corpus[d] =>
          \E r \in Runs : Flush(r) /\ (task[r].seed \/ r \in crossed)]_ingestVars
=============================================================================
