-------------------------- MODULE AssistantProofs --------------------------
(***************************************************************************)
(* Of the three parts of rag-svc: that an ingested document is stored and  *)
(* never goes back (IngestionRuns), that a thread remembers every turn     *)
(* (ChatTurns), and that the answer of a turn tells what its tools did     *)
(* (AgentTurn).                                                            *)
(***************************************************************************)
EXTENDS IngestionRuns, ChatTurns, AgentTurn, FiniteSetTheorems, SequenceTheorems, TLAPS

\* IngestionRuns: whoever ingests a source holds its lock, alone of its replica.

USE IngestionAssumption

-----------------------------------------------------------------------------
(* The runs: whoever ingests a source holds its lock, or another replica ingests it too *)

Holding == {"load", "compare", "flush", "prune", "release"}
Loaded  == {"compare", "flush", "prune", "release"}

RunTyped ==
    /\ upstream \in [Docs -> Contents \cup {Missing, Withdrawn}]
    /\ corpus \in [Docs -> Contents \cup {Missing}]
    /\ row \in [Runs -> [status : Statuses, source : Sources \cup {"all"}]]
    /\ task \in [Runs -> Task]
    /\ replica \in [Runs -> Replicas] /\ crossed \subseteq Runs
    /\ lock \in [Replicas \X Sources -> Runs \cup {NoRun}]

\* What a task carries agrees with where it is.
TaskOrder(t) ==
    /\ t.now \in Sources <=> t.at \in Holding
    /\ \A d \in Docs : t.loaded[d] # Missing => t.at \in Loaded /\ SourceOf[d] = t.now
    /\ t.dirty \subseteq {d \in Docs : t.loaded[d] # Missing}
    /\ t.dirty # {} => t.at = "flush"

Locked == \A r \in Runs, s \in Sources : task[r].now = s <=> lock[<<replica[r], s>>] = r

\* Two runs ingest one source only from two replicas, and both are marked.
Apart ==
    \A q, r \in Runs :
        q # r /\ task[q].now = task[r].now /\ task[r].now \in Sources => r \in crossed

\* A task that has recorded no error, and whose source is its own, has stored what it took
\* from its work list.
StoredSoFar(r, t) ==
    r \notin crossed /\ t.at \in {"flush", "prune", "release"} /\ ~t.errors =>
        \A d \in Docs : /\ t.loaded[d] # Missing /\ <<d, t.loaded[d]>> \notin Blanks
                        /\ d \notin t.dirty
                        => corpus[d] = t.loaded[d]

Ingesting ==
    /\ RunTyped /\ Locked /\ Apart
    /\ \A r \in Runs : TaskOrder(task[r]) /\ StoredSoFar(r, task[r])

LEMMA NoTaskTyped == /\ NoTask \in Task /\ NoTask.now = "none" /\ NoTask.at = "new"
                     /\ NoTask.loaded = Nothing /\ NoTask.dirty = {}
BY DEF NoTask, Task, Nothing, OptionSet, Missing

LEMMA Unassigned ==
    ASSUME NEW r \in Runs, NEW t \in Task, t.now \notin Sources, t.at \notin Holding, t.loaded = Nothing, t.dirty = {}
    PROVE  TaskOrder(t) /\ StoredSoFar(r, t)
BY DEF TaskOrder, Nothing, Holding, StoredSoFar, Missing

\* What one task does to its own documents leaves the other tasks in order.
LEMMA TaskStep ==
    ASSUME Ingesting, RunTyped', NEW r \in Runs, Locked', Apart', TaskOrder(task[r])',
           StoredSoFar(r, task[r])', \A q \in Runs \ {r} : q \in crossed => q \in crossed',
           \A q \in Runs \ {r} : task'[q] = task[q],
           \A d \in Docs : corpus'[d] # corpus[d] => SourceOf[d] = task[r].now
    PROVE  Ingesting'
<1>1. ASSUME NEW q \in Runs \ {r} PROVE TaskOrder(task[q])'
  BY <1>1 DEF Ingesting, TaskOrder
<1>2. ASSUME NEW q \in Runs \ {r} PROVE StoredSoFar(q, task[q])'
  <2>1. \A d \in Docs : task[q].loaded[d] # Missing =>
                           corpus'[d] = corpus[d] \/ task[q].now = task[r].now
    BY <1>2 DEF Ingesting, TaskOrder
  <2>2. \A d \in Docs : task[q].loaded[d] # Missing => task[q].now \in Sources
    BY <1>2 DEF Ingesting, TaskOrder, Loaded, Holding
  <2>3. \A d \in Docs : task[q].loaded[d] # Missing => corpus'[d] = corpus[d] \/ q \in crossed'
    BY <1>2, <2>1, <2>2 DEF Ingesting, Apart
  <2>4. task'[q] = task[q] /\ StoredSoFar(q, task[q]) /\ (q \in crossed => q \in crossed')
    BY <1>2 DEF Ingesting
  <2>5. QED BY <2>3, <2>4 DEF StoredSoFar
<1>3. QED BY <1>1, <1>2 DEF Ingesting

LEMMA InitIngesting == IngestInit => Ingesting
<1>. SUFFICES ASSUME IngestInit PROVE Ingesting
  OBVIOUS
<1>1. RunTyped
  BY NoTaskTyped DEF IngestInit, RunTyped, Nothing, Contents, Missing, Statuses
<1>2. Locked /\ Apart
  BY NoTaskTyped DEF IngestInit, Locked, Apart
<1>3. \A r \in Runs : TaskOrder(task[r]) /\ StoredSoFar(r, task[r])
  BY NoTaskTyped, Unassigned DEF IngestInit, Holding
<1>4. QED BY <1>1, <1>2, <1>3 DEF Ingesting


\* The lock as a task keeps it, takes it and lets it go.
Elsewhere(r, s) == {q \in Runs : task[q].now = s /\ replica[q] # replica[r]}
Takes(r, t) ==
    \E s \in Sources :
       /\ lock[<<replica[r], s>>] = NoRun /\ lock' = [lock EXCEPT ![<<replica[r], s>>] = r]
       /\ crossed' = crossed \cup Elsewhere(r, s) \cup (IF Elsewhere(r, s) = {} THEN {} ELSE {r})
       /\ task[r].now \notin Sources /\ t.now = s
LetsGo(r, t) ==
    /\ task[r].now \in Sources /\ lock' = [lock EXCEPT ![<<replica[r], task[r].now>>] = NoRun]
    /\ crossed' = crossed \ {r} /\ t.now \notin Sources
Keeps(r, t) == lock' = lock /\ crossed' = crossed /\ t.now = task[r].now

LEMMA LockKept ==
    ASSUME RunTyped, Locked, Apart, NEW r \in Runs, NEW t \in Task, task' = [task EXCEPT ![r] = t],
           replica' = replica, Keeps(r, t) \/ Takes(r, t) \/ LetsGo(r, t)
    PROVE  /\ Locked' /\ Apart' /\ lock' \in [Replicas \X Sources -> Runs \cup {NoRun}]
           /\ crossed' \subseteq Runs /\ \A q \in Runs \ {r} : q \in crossed => q \in crossed'
<1>0. /\ \A q \in Runs : task'[q] = IF q = r THEN t ELSE task[q]
      /\ lock \in [Replicas \X Sources -> Runs \cup {NoRun}] /\ replica \in [Runs -> Replicas]
      /\ crossed \subseteq Runs
  BY DEF RunTyped
<1>1. CASE Keeps(r, t)
  BY <1>0, <1>1 DEF Keeps, Locked, Apart
<1>2. CASE Takes(r, t)
  <2>1. PICK s \in Sources :
           /\ lock[<<replica[r], s>>] = NoRun /\ lock' = [lock EXCEPT ![<<replica[r], s>>] = r]
           /\ crossed' = crossed \cup Elsewhere(r, s) \cup (IF Elsewhere(r, s) = {} THEN {} ELSE {r})
           /\ task[r].now \notin Sources /\ t.now = s
    BY <1>2 DEF Takes
  <2>2. \A q \in Runs \ {r} : task[q].now = s => replica[q] # replica[r]
    BY <2>1 DEF Locked
  <2>3. \A q \in Runs : \A z \in Sources :
           lock'[<<replica[q], z>>] = IF replica[q] = replica[r] /\ z = s THEN r
                                      ELSE lock[<<replica[q], z>>]
    BY <1>0, <2>1
  <2>4. Locked'
    BY <1>0, <2>1, <2>2, <2>3 DEF Locked
  <2>5. /\ crossed \subseteq crossed' /\ Elsewhere(r, s) \subseteq crossed'
        /\ Elsewhere(r, s) # {} => r \in crossed'
    BY <2>1
  <2>6. \A q \in Runs \ {r} : task[q].now = s => q \in Elsewhere(r, s)
    BY <2>2 DEF Elsewhere
  <2>7. Apart'
    BY <1>0, <2>1, <2>5, <2>6 DEF Apart
  <2>8. crossed' \subseteq Runs
    BY <1>0, <2>1 DEF Elsewhere
  <2>9. lock' \in [Replicas \X Sources -> Runs \cup {NoRun}]
    BY <1>0, <2>1
  <2>10. QED BY <2>4, <2>5, <2>7, <2>8, <2>9
<1>3. CASE LetsGo(r, t)
  <2>1. PICK s \in Sources : s = task[r].now
    BY <1>3 DEF LetsGo
  <2>2. /\ lock' = [lock EXCEPT ![<<replica[r], s>>] = NoRun] /\ t.now \notin Sources
        /\ crossed' = crossed \ {r}
    BY <1>3, <2>1 DEF LetsGo
  <2>3. \A q \in Runs : \A z \in Sources :
           lock'[<<replica[q], z>>] = IF replica[q] = replica[r] /\ z = s THEN NoRun
                                      ELSE lock[<<replica[q], z>>]
    BY <1>0, <2>2
  <2>4. lock[<<replica[r], s>>] = r
    BY <2>1 DEF Locked
  <2>5. Locked'
    BY <1>0, <2>1, <2>2, <2>3, <2>4 DEF Locked
  <2>6. Apart'
    BY <1>0, <2>2 DEF Apart
  <2>7. QED BY <1>0, <2>2, <2>5, <2>6
<1>4. QED BY <1>1, <1>2, <1>3

LEMMA Moved ==
    ASSUME Ingesting, NEW r \in Runs, NEW t \in Task, TaskOrder(t), StoredSoFar(r, t)',
           task' = [task EXCEPT ![r] = t], UNCHANGED <<upstream, replica>>,
           row' \in [Runs -> [status : Statuses, source : Sources \cup {"all"}]],
           corpus' \in [Docs -> Contents \cup {Missing}],
           \A d \in Docs : corpus'[d] # corpus[d] => SourceOf[d] = task[r].now,
           Keeps(r, t) \/ Takes(r, t) \/ LetsGo(r, t)
    PROVE  Ingesting'
<1>1. \A q \in Runs : task'[q] = IF q = r THEN t ELSE task[q]
  BY DEF Ingesting, RunTyped
<1>2. /\ Locked' /\ Apart' /\ lock' \in [Replicas \X Sources -> Runs \cup {NoRun}]
      /\ crossed' \subseteq Runs /\ \A q \in Runs \ {r} : q \in crossed => q \in crossed'
  BY LockKept DEF Ingesting
<1>3. RunTyped'
  BY <1>2 DEF Ingesting, RunTyped
<1>4. TaskOrder(task[r])' /\ StoredSoFar(r, task[r])'
  BY <1>1 DEF TaskOrder, StoredSoFar
<1>5. QED BY <1>1, <1>2, <1>3, <1>4, TaskStep

\* Steps that only move a task on, to a place where it has nothing loaded.
LEMMA Idling ==
    ASSUME Ingesting, NEW r \in Runs, NEW t \in Task, t.at \notin Holding,
           t.loaded = Nothing, t.dirty = {}, t.now = "none", task[r].now = "none",
           task' = [task EXCEPT ![r] = t], UNCHANGED <<upstream, corpus, replica, lock, crossed>>,
           row' \in [Runs -> [status : Statuses, source : Sources \cup {"all"}]]
    PROVE  Ingesting'
<1>1. TaskOrder(t) /\ StoredSoFar(r, t)'
  BY Unassigned DEF StoredSoFar, Holding
<1>2. QED BY <1>1, Moved DEF Ingesting, RunTyped, Keeps

LEMMA Away ==
    ASSUME NEW t \in Task, TaskOrder(t), t.at \notin Holding
    PROVE  t.now = "none" /\ t.loaded = Nothing /\ t.dirty = {}
<1>1. \A d \in Docs : t.loaded[d] = Missing
  BY DEF TaskOrder, Holding, Loaded
<1>2. QED BY <1>1 DEF TaskOrder, Task, Nothing, Holding

LEMMA RequestIngesting ==
    ASSUME Ingesting, NEW r \in Runs,
           \/ \E s \in Sources \cup {"all"}, o \in Options : PostIngest(r, s, o)
           \/ CreateRun(r) \/ MarkRunning(r) \/ FinishRun(r)
    PROVE  Ingesting'
<1>0. /\ task \in [Runs -> Task] /\ task[r] \in Task /\ TaskOrder(task[r])
      /\ row \in [Runs -> [status : Statuses, source : Sources \cup {"all"}]]
  BY DEF Ingesting, RunTyped
<1>1. CASE \E s \in Sources \cup {"all"}, o \in Options : PostIngest(r, s, o)
  <2>1. PICK s \in Sources \cup {"all"}, o \in Options : PostIngest(r, s, o)
    BY <1>1
  <2>2. PICK t : t = [NoTask EXCEPT !.at = "create", !.source = s, !.options = o]
    OBVIOUS
  <2>3. t \in Task /\ t.now = "none" /\ t.at \notin Holding /\ t.loaded = Nothing /\ t.dirty = {}
    BY <2>2, NoTaskTyped DEF Task, Holding
  <2>4. task[r].now = "none"
    BY <1>0, <2>1, Away DEF PostIngest, Holding
  <2>5. QED BY <1>0, <2>1, <2>2, <2>3, <2>4, Idling DEF PostIngest
<1>2. CASE CreateRun(r)
  <2>1. PICK t : t = [task[r] EXCEPT !.at = "start"]
    OBVIOUS
  <2>2. /\ t \in Task /\ t.now = task[r].now /\ t.at = "start" /\ t.loaded = task[r].loaded
        /\ t.dirty = task[r].dirty
    BY <1>0, <2>1 DEF Task
  <2>3. task[r].now = "none" /\ task[r].loaded = Nothing /\ task[r].dirty = {}
    BY <1>0, <1>2, Away DEF CreateRun, Holding
  <2>4. row' \in [Runs -> [status : Statuses, source : Sources \cup {"all"}]]
    BY <1>0, <1>2 DEF CreateRun, Statuses, Task
  <2>5. task' = [task EXCEPT ![r] = t]
    BY <1>2, <2>1 DEF CreateRun, To
  <2>6. QED BY <1>2, <2>2, <2>3, <2>4, <2>5, Idling DEF CreateRun, Holding
<1>3. CASE MarkRunning(r)
  <2>1. PICK t : t = [task[r] EXCEPT !.left = expand_sources(task[r].source), !.at = "lock"]
    OBVIOUS
  <2>2. /\ t \in Task /\ t.now = task[r].now /\ t.at = "lock" /\ t.loaded = task[r].loaded
        /\ t.dirty = task[r].dirty
    BY <1>0, <2>1 DEF Task, expand_sources
  <2>3. task[r].now = "none" /\ task[r].loaded = Nothing /\ task[r].dirty = {}
    BY <1>0, <1>3, Away DEF MarkRunning, Holding
  <2>4. row' \in [Runs -> [status : Statuses, source : Sources \cup {"all"}]]
    BY <1>0, <1>3 DEF MarkRunning, Report, Statuses
  <2>5. task' = [task EXCEPT ![r] = t]
    BY <1>3, <2>1 DEF MarkRunning
  <2>6. QED BY <1>3, <2>2, <2>3, <2>4, <2>5, Idling DEF MarkRunning, Holding
<1>4. CASE FinishRun(r)
  <2>1. PICK t : t = [NoTask EXCEPT !.at = "over"]
    OBVIOUS
  <2>2. t \in Task /\ t.now = "none" /\ t.at = "over" /\ t.loaded = Nothing /\ t.dirty = {}
    BY <2>1, NoTaskTyped DEF Task
  <2>3. task[r].now = "none"
    BY <1>0, <1>4, Away DEF FinishRun, Holding
  <2>4. row' \in [Runs -> [status : Statuses, source : Sources \cup {"all"}]]
    BY <1>0, <1>4 DEF FinishRun, Report, Outcome, Statuses
  <2>5. QED BY <1>4, <2>1, <2>2, <2>3, <2>4, Idling DEF FinishRun, Holding
<1>5. QED BY <1>1, <1>2, <1>3, <1>4

LEMMA NoneIsNoSource == "none" \notin Sources
BY DEF IngestionAssumption

LEMMA SourceIngesting ==
    ASSUME Ingesting, NEW r \in Runs,
           \/ TakeLock(r) \/ LoadDocuments(r) \/ Compare(r)
           \/ Flush(r) \/ PruneCorpus(r) \/ ReleaseLock(r)
    PROVE  Ingesting'
<1>0. /\ task \in [Runs -> Task] /\ task[r] \in Task /\ TaskOrder(task[r]) /\ StoredSoFar(r, task[r])
      /\ row \in [Runs -> [status : Statuses, source : Sources \cup {"all"}]]
      /\ upstream \in [Docs -> Contents \cup {Missing, Withdrawn}]
      /\ corpus \in [Docs -> Contents \cup {Missing}]
  BY DEF Ingesting, RunTyped
<1>1. CASE TakeLock(r)
  <2>1. PICK s \in task[r].left :
           /\ lock[<<replica[r], s>>] = NoRun /\ lock' = [lock EXCEPT ![<<replica[r], s>>] = r]
           /\ crossed' = crossed \cup Elsewhere(r, s) \cup (IF Elsewhere(r, s) = {} THEN {} ELSE {r})
           /\ task' = [task EXCEPT ![r].left = @ \ {s}, ![r].now = s, ![r].ok = TRUE, ![r].at = "load"]
    BY <1>1 DEF TakeLock, Ingests, Elsewhere
  <2>2. PICK t : t = [task[r] EXCEPT !.left = @ \ {s}, !.now = s, !.ok = TRUE, !.at = "load"]
    OBVIOUS
  <2>3. s \in Sources /\ task[r].now = "none" /\ task[r].loaded = Nothing /\ task[r].dirty = {}
    BY <1>0, <1>1, <2>1, Away DEF TakeLock, Holding, Task
  <2>4. /\ t \in Task /\ t.now = s /\ t.at = "load" /\ t.loaded = Nothing /\ t.dirty = {}
    BY <1>0, <2>2, <2>3 DEF Task
  <2>5. TaskOrder(t) /\ StoredSoFar(r, t)'
    BY <2>3, <2>4 DEF TaskOrder, StoredSoFar, Nothing, Holding
  <2>6. task' = [task EXCEPT ![r] = t]
    BY <2>1, <2>2
  <2>7. Takes(r, t) /\ UNCHANGED <<upstream, corpus, row, replica>>
    BY <1>1, <2>1, <2>3, <2>4, NoneIsNoSource DEF TakeLock, Takes
  <2>8. QED BY <1>0, <2>4, <2>5, <2>6, <2>7, Moved
\* A source that raises.
<1>2. ASSUME GiveUp(r), task[r].at \in {"load", "compare", "prune"},
             UNCHANGED <<upstream, corpus, row, replica, lock, crossed>>
      PROVE  Ingesting'
  <2>1. PICK t : t = [task[r] EXCEPT !.ok = FALSE, !.errors = TRUE, !.dirty = {}, !.at = "release"]
    OBVIOUS
  <2>2. /\ t \in Task /\ t.now = task[r].now /\ t.at = "release" /\ t.loaded = task[r].loaded
        /\ t.dirty = {} /\ t.errors
    BY <1>0, <2>1 DEF Task
  <2>3. TaskOrder(t) /\ StoredSoFar(r, t)'
    BY <1>0, <1>2, <2>2 DEF TaskOrder, StoredSoFar, Holding, Loaded
  <2>4. task' = [task EXCEPT ![r] = t]
    BY <1>2, <2>1 DEF GiveUp
  <2>5. QED BY <1>0, <1>2, <2>2, <2>3, <2>4, Moved DEF Keeps
<1>8. 0 \in Contents
  BY DEF Contents
<1>3. CASE LoadDocuments(r)
  <2>1. ASSUME NEW keep \in SUBSET Docs, NEW f \in [Docs -> Contents], NEW b \in BOOLEAN,
               \A d \in keep : SourceOf[d] = task[r].now,
               task' = [task EXCEPT ![r].at = "compare", ![r].seed = b,
                       ![r].loaded = [d \in Docs |-> IF d \in keep THEN f[d] ELSE Missing]]
        PROVE  Ingesting'
    <3>1. PICK g \in [Docs -> Contents \cup {Missing}] :
             g = [d \in Docs |-> IF d \in keep THEN f[d] ELSE Missing]
      OBVIOUS
    <3>2. PICK t : t = [task[r] EXCEPT !.at = "compare", !.seed = b, !.loaded = g]
      OBVIOUS
    <3>3. /\ t \in Task /\ t.now = task[r].now /\ t.at = "compare" /\ t.loaded = g
          /\ t.dirty = task[r].dirty
      BY <1>0, <3>2 DEF Task
    <3>4. task[r].dirty = {} /\ task[r].now \in Sources
      BY <1>0, <1>3 DEF LoadDocuments, TaskOrder, Holding
    <3>5. TaskOrder(t) /\ StoredSoFar(r, t)'
      BY <2>1, <3>1, <3>3, <3>4 DEF TaskOrder, StoredSoFar, Holding, Loaded
    <3>6. task' = [task EXCEPT ![r] = t]
      BY <2>1, <3>1, <3>2
    <3>7. QED BY <1>0, <1>3, <3>3, <3>5, <3>6, Moved DEF Keeps, LoadDocuments
  <2>2. CASE GiveUp(r)
    BY <1>2, <1>3, <2>2 DEF LoadDocuments
  <2>3. ASSUME NEW keep, NEW mine, mine = {d \in task[r].options.wants : SourceOf[d] = task[r].now},
               keep \subseteq mine, \A d \in keep : upstream[d] \in Contents,
               task' = [task EXCEPT ![r].at = "compare", ![r].seed = FALSE,
                   ![r].loaded = [d \in Docs |-> IF d \in keep THEN upstream[d] ELSE Missing]]
        PROVE  Ingesting'
    <3>1. keep \in SUBSET Docs /\ \A d \in keep : SourceOf[d] = task[r].now
      BY <1>0, <2>3 DEF Task, OptionSet
    <3>2. PICK f \in [Docs -> Contents] : f = [d \in Docs |-> IF d \in keep THEN upstream[d] ELSE 0]
      BY <1>8, <2>3
    <3>3. [d \in Docs |-> IF d \in keep THEN upstream[d] ELSE Missing]
            = [d \in Docs |-> IF d \in keep THEN f[d] ELSE Missing]
      BY <3>2
    <3>4. QED BY <2>1, <2>3, <3>1, <3>2, <3>3
  <2>4. ASSUME NEW keep, NEW mine, mine = {d \in task[r].options.wants : SourceOf[d] = task[r].now},
               keep \subseteq mine,
               task' = [task EXCEPT ![r].at = "compare", ![r].seed = TRUE,
                   ![r].loaded = [d \in Docs |-> IF d \in keep THEN 0 ELSE Missing]]
        PROVE  Ingesting'
    <3>1. keep \in SUBSET Docs /\ \A d \in keep : SourceOf[d] = task[r].now
      BY <1>0, <2>4 DEF Task, OptionSet
    <3>2. PICK f \in [Docs -> Contents] : f = [d \in Docs |-> 0]
      BY <1>8
    <3>3. [d \in Docs |-> IF d \in keep THEN 0 ELSE Missing]
            = [d \in Docs |-> IF d \in keep THEN f[d] ELSE Missing]
      BY <3>2
    <3>4. QED BY <2>1, <2>4, <3>1, <3>2, <3>3
  <2>5. PICK mine : mine = {d \in task[r].options.wants : SourceOf[d] = task[r].now}
    OBVIOUS
  <2>6. PICK there : there = {d \in mine : upstream[d] \in Contents}
    OBVIOUS
  <2>7. \/ \E keep \in IF task[r].options.limited THEN SUBSET there ELSE {there} :
             task' = [task EXCEPT ![r].at = "compare", ![r].seed = FALSE,
                   ![r].loaded = [d \in Docs |-> IF d \in keep THEN upstream[d] ELSE Missing]]
        \/ \E keep \in IF task[r].options.limited THEN SUBSET (mine \cap SeedDocs)
                                                  ELSE {mine \cap SeedDocs} :
             task' = [task EXCEPT ![r].at = "compare", ![r].seed = TRUE,
                   ![r].loaded = [d \in Docs |-> IF d \in keep THEN 0 ELSE Missing]]
        \/ GiveUp(r)
    BY <1>3, <2>5, <2>6 DEF LoadDocuments
  <2>8. \A S, keep : keep \in (IF task[r].options.limited THEN SUBSET S ELSE {S}) => keep \subseteq S
    OBVIOUS
  <2>9. CASE \E keep \in IF task[r].options.limited THEN SUBSET there ELSE {there} :
             task' = [task EXCEPT ![r].at = "compare", ![r].seed = FALSE,
                   ![r].loaded = [d \in Docs |-> IF d \in keep THEN upstream[d] ELSE Missing]]
    <3>1. PICK keep : /\ keep \subseteq there
                      /\ task' = [task EXCEPT ![r].at = "compare", ![r].seed = FALSE,
                             ![r].loaded = [d \in Docs |-> IF d \in keep THEN upstream[d] ELSE Missing]]
      BY <2>8, <2>9
    <3>2. keep \subseteq mine /\ \A d \in keep : upstream[d] \in Contents
      BY <2>6, <3>1
    <3>3. QED BY <2>3, <2>5, <3>1, <3>2
  <2>10. CASE \E keep \in IF task[r].options.limited THEN SUBSET (mine \cap SeedDocs)
                                                  ELSE {mine \cap SeedDocs} :
             task' = [task EXCEPT ![r].at = "compare", ![r].seed = TRUE,
                   ![r].loaded = [d \in Docs |-> IF d \in keep THEN 0 ELSE Missing]]
    <3>1. PICK keep : /\ keep \subseteq mine \cap SeedDocs
                      /\ task' = [task EXCEPT ![r].at = "compare", ![r].seed = TRUE,
                             ![r].loaded = [d \in Docs |-> IF d \in keep THEN 0 ELSE Missing]]
      BY <2>8, <2>10
    <3>2. QED BY <2>4, <2>5, <3>1
  <2>11. QED BY <2>2, <2>7, <2>9, <2>10
<1>4. CASE Compare(r)
  <2>1. CASE GiveUp(r)
    BY <1>2, <1>4, <2>1 DEF Compare
  <2>2. PICK w : w = {d \in Docs : /\ task[r].loaded[d] # Missing
                                   /\ <<d, task[r].loaded[d]>> \notin Blanks
                                   /\ task[r].options.force \/ corpus[d] # task[r].loaded[d]}
    OBVIOUS
  <2>3. PICK t : t = [task[r] EXCEPT !.at = "flush", !.dirty = w]
    OBVIOUS
  <2>4. /\ t \in Task /\ t.now = task[r].now /\ t.at = "flush" /\ t.loaded = task[r].loaded
        /\ t.dirty = w
    BY <1>0, <2>2, <2>3 DEF Task
  <2>5. CASE task' = [task EXCEPT ![r] = t]
    <3>1. TaskOrder(t) /\ StoredSoFar(r, t)'
      BY <1>0, <1>4, <2>2, <2>4 DEF Compare, TaskOrder, StoredSoFar, Holding, Loaded
    <3>2. QED BY <1>0, <1>4, <2>4, <2>5, <3>1, Moved DEF Compare, Keeps
  <2>6. QED BY <1>4, <2>1, <2>2, <2>3, <2>5 DEF Compare
<1>5. CASE Flush(r)
  <2>1. CASE task[r].dirty = {} /\ To(r, "prune") /\ UNCHANGED corpus
    <3>1. PICK t : t = [task[r] EXCEPT !.at = "prune"]
      OBVIOUS
    <3>2. /\ t \in Task /\ t.now = task[r].now /\ t.at = "prune" /\ t.loaded = task[r].loaded
          /\ t.dirty = task[r].dirty /\ t.errors = task[r].errors
      BY <1>0, <3>1 DEF Task
    <3>3. TaskOrder(t) /\ StoredSoFar(r, t)'
      BY <1>0, <1>5, <2>1, <3>2 DEF Flush, TaskOrder, StoredSoFar, Holding, Loaded
    <3>4. QED BY <1>0, <1>5, <2>1, <3>1, <3>2, <3>3, Moved DEF Flush, To, Keeps
  <2>2. ASSUME NEW d \in task[r].dirty, corpus' = [corpus EXCEPT ![d] = task[r].loaded[d]],
               task' = [task EXCEPT ![r].dirty = @ \ {d}]
        PROVE  Ingesting'
    <3>1. PICK t : t = [task[r] EXCEPT !.dirty = @ \ {d}]
      OBVIOUS
    <3>2. /\ t \in Task /\ t.now = task[r].now /\ t.at = task[r].at /\ t.loaded = task[r].loaded
          /\ t.dirty = task[r].dirty \ {d} /\ t.errors = task[r].errors
      BY <1>0, <3>1 DEF Task
    <3>3. d \in Docs /\ SourceOf[d] = task[r].now /\ task[r].loaded[d] \in Contents
      BY <1>0, <2>2 DEF TaskOrder, Task
    <3>4. TaskOrder(t) /\ StoredSoFar(r, t)'
      BY <1>0, <1>5, <2>2, <3>2, <3>3 DEF Flush, TaskOrder, StoredSoFar, Holding, Loaded
    <3>5. corpus' \in [Docs -> Contents \cup {Missing}]
      BY <1>0, <2>2, <3>3
    <3>6. QED BY <1>0, <1>5, <2>2, <3>1, <3>2, <3>3, <3>4, <3>5, Moved DEF Flush, Keeps
  <2>3. ASSUME NEW b \in SUBSET task[r].dirty, UNCHANGED corpus,
               task' = [task EXCEPT ![r].dirty = @ \ b, ![r].errors = TRUE]
        PROVE  Ingesting'
    <3>1. PICK t : t = [task[r] EXCEPT !.dirty = @ \ b, !.errors = TRUE]
      OBVIOUS
    <3>2. /\ t \in Task /\ t.now = task[r].now /\ t.at = task[r].at /\ t.loaded = task[r].loaded
          /\ t.dirty \subseteq task[r].dirty /\ t.errors
      BY <1>0, <3>1 DEF Task
    <3>3. TaskOrder(t) /\ StoredSoFar(r, t)'
      BY <1>0, <1>5, <2>3, <3>2 DEF Flush, TaskOrder, StoredSoFar, Holding, Loaded
    <3>4. QED BY <1>0, <1>5, <2>3, <3>1, <3>2, <3>3, Moved DEF Flush, Keeps
  <2>4. QED BY <1>5, <2>1, <2>2, <2>3 DEF Flush
<1>6. CASE PruneCorpus(r)
  <2>1. CASE GiveUp(r) /\ UNCHANGED corpus
    BY <1>2, <1>6, <2>1 DEF PruneCorpus
  <2>2. CASE /\ corpus' = [d \in Docs |->
                   IF /\ task[r].options.prune /\ ~task[r].options.limited
                      /\ SourceOf[d] = task[r].now /\ task[r].loaded[d] = Missing
                   THEN Missing ELSE corpus[d]]
             /\ To(r, "release")
    <3>1. PICK t : t = [task[r] EXCEPT !.at = "release"]
      OBVIOUS
    <3>2. /\ t \in Task /\ t.now = task[r].now /\ t.at = "release" /\ t.loaded = task[r].loaded
          /\ t.dirty = task[r].dirty /\ t.errors = task[r].errors
      BY <1>0, <3>1 DEF Task
    <3>3. /\ \A d \in Docs : corpus'[d] # corpus[d] =>
                SourceOf[d] = task[r].now /\ task[r].loaded[d] = Missing
          /\ corpus' \in [Docs -> Contents \cup {Missing}]
      BY <1>0, <2>2
    <3>4. TaskOrder(t) /\ StoredSoFar(r, t)'
      BY <1>0, <1>6, <3>2, <3>3 DEF PruneCorpus, TaskOrder, StoredSoFar, Holding, Loaded
    <3>5. QED BY <1>0, <1>6, <2>2, <3>1, <3>2, <3>3, <3>4, Moved DEF PruneCorpus, To, Keeps
  <2>3. QED BY <1>6, <2>1, <2>2 DEF PruneCorpus
<1>7. CASE ReleaseLock(r)
  <2>1. PICK b \in BOOLEAN, label \in {"finish", "lock"} :
           /\ b = (task[r].good \/ task[r].ok)
           /\ label = IF task[r].left = {} THEN "finish" ELSE "lock"
    BY <1>0 DEF Task
  <2>2. PICK t : t = [task[r] EXCEPT !.at = label, !.good = b, !.now = "none", !.loaded = Nothing,
                                     !.seed = FALSE, !.ok = TRUE]
    OBVIOUS
  <2>3. Nothing \in [Docs -> Contents \cup {Missing}]
    BY DEF Nothing
  <2>4. /\ t \in Task /\ t.now = "none" /\ t.at = label /\ t.loaded = Nothing
        /\ t.dirty = task[r].dirty
    BY <1>0, <2>2, <2>3 DEF Task
  <2>5. task[r].now \in Sources /\ task[r].dirty = {}
    BY <1>0, <1>7 DEF ReleaseLock, TaskOrder, Holding
  <2>6. TaskOrder(t) /\ StoredSoFar(r, t)'
    BY <2>4, <2>5 DEF TaskOrder, StoredSoFar, Nothing, Holding
  <2>7. task' = [task EXCEPT ![r] = t]
    BY <1>7, <2>1, <2>2 DEF ReleaseLock
  <2>8. LetsGo(r, t) /\ UNCHANGED <<upstream, corpus, row, replica>>
    BY <1>7, <2>4, <2>5, NoneIsNoSource DEF ReleaseLock, LetsGo
  <2>9. QED BY <1>0, <2>4, <2>5, <2>6, <2>7, <2>8, Moved
<1>9. QED BY <1>1, <1>3, <1>4, <1>5, <1>6, <1>7

LEMMA NextIngesting == Ingesting /\ [IngestNext]_ingestVars => Ingesting'
<1>. SUFFICES ASSUME Ingesting, [IngestNext]_ingestVars PROVE Ingesting'
  OBVIOUS
<1>1. CASE UNCHANGED ingestVars
  BY <1>1 DEF ingestVars, Ingesting, RunTyped, Locked, Apart, StoredSoFar
<1>2. ASSUME NEW d \in Docs, Publish(d) \/ Withdraw(d) PROVE Ingesting'
  <2>1. upstream' \in [Docs -> Contents \cup {Missing, Withdrawn}]
    BY <1>2 DEF Publish, Withdraw, Ingesting, RunTyped, Contents, Missing, Withdrawn
  <2>2. QED BY <1>2, <2>1 DEF Publish, Withdraw, Ingesting, RunTyped, Locked, Apart, StoredSoFar
<1>3. ASSUME NEW p \in Replicas, Reboot(p) PROVE Ingesting'
  <2>0. task \in [Runs -> Task] /\ lock \in [Replicas \X Sources -> Runs \cup {NoRun}]
        /\ crossed \subseteq Runs /\ replica \in [Runs -> Replicas]
    BY DEF Ingesting, RunTyped
  <2>1. /\ UNCHANGED <<upstream, corpus, row, replica>>
        /\ crossed' = {r \in crossed : replica[r] # p}
        /\ task' = [r \in Runs |-> task'[r]]
        /\ \A r \in Runs : IF replica[r] # p THEN task'[r] = task[r]
                           ELSE task'[r] = NoTask \/ task'[r] = [NoTask EXCEPT !.at = "over"]
    BY <1>3 DEF Reboot
  <2>2. \A r \in Runs : replica[r] = p =>
           /\ task'[r] \in Task /\ task'[r].now = "none" /\ task'[r].loaded = Nothing
           /\ task'[r].at \in {"new", "over"} /\ task'[r].dirty = {}
    BY <2>1, NoTaskTyped DEF Task
  <2>3. /\ lock' \in [Replicas \X Sources -> Runs \cup {NoRun}]
        /\ \A r \in Runs, s \in Sources :
              lock'[<<replica[r], s>>] = IF replica[r] = p THEN NoRun ELSE lock[<<replica[r], s>>]
    BY <1>3, <2>0 DEF Reboot
  <2>4. \A r \in Runs : task'[r] \in Task
    BY <2>0, <2>1, <2>2
  <2>5. RunTyped'
    BY <2>0, <2>1, <2>3, <2>4 DEF Ingesting, RunTyped
  <2>6. Locked'
    BY <2>1, <2>2, <2>3, NoneIsNoSource, IngestionAssumption DEF Ingesting, Locked
  <2>7. Apart'
    BY <2>1, <2>2, NoneIsNoSource DEF Ingesting, Apart
  <2>8. ASSUME NEW r \in Runs PROVE TaskOrder(task[r])' /\ StoredSoFar(r, task[r])'
    <3>1. CASE replica[r] = p
      BY <2>2, <2>8, <3>1, NoneIsNoSource DEF TaskOrder, StoredSoFar, Nothing, Holding
    <3>2. CASE replica[r] # p
      BY <2>1, <2>8, <3>2 DEF Ingesting, TaskOrder, StoredSoFar
    <3>3. QED BY <3>1, <3>2
  <2>9. QED BY <2>5, <2>6, <2>7, <2>8 DEF Ingesting
<1>4. QED BY <1>1, <1>2, <1>3, RequestIngesting, SourceIngesting DEF IngestNext

\* A source is ingested by whoever holds its replica's lock, and what is stored keeps its type,
\* whatever runs overlap, fail and die.
THEOREM IngestionTypes == IngestSpec => []IngestTypeOK
<1>1. Ingesting => IngestTypeOK
  BY DEF Ingesting, RunTyped, Locked, TaskOrder, IngestTypeOK
<1>2. QED BY <1>1, InitIngesting, NextIngesting, PTL DEF IngestSpec

\* A source that a run lets go without an error, and that no other replica ingested in the
\* meantime, is in the corpus as the run loaded it, but for versions without text.
THEOREM IngestedIsStored == IngestSpec => []WhatSucceededIsStored
<1>1. Ingesting => WhatSucceededIsStored
  BY DEF Ingesting, TaskOrder, StoredSoFar, WhatSucceededIsStored
<1>2. QED BY <1>1, InitIngesting, NextIngesting, PTL DEF IngestSpec

-----------------------------------------------------------------------------
(* The corpus follows its sources *)

\* What a task loaded is no older than what the corpus holds, unless it came from the seed
\* files or another replica ingests its source too.
Abreast(r, t) ==
    \A d \in Docs : t.loaded[d] # Missing =>
        t.loaded[d] <= upstream[d] /\ (~t.seed /\ r \notin crossed => corpus[d] <= t.loaded[d])

Advancing ==
    /\ \A d \in Docs : corpus[d] <= upstream[d]
    /\ \A d \in SeedDocs : upstream[d] >= 0
    /\ \A r \in Runs : Abreast(r, task[r])

LEMMA InitAdvancing == IngestInit => Advancing
BY NoTaskTyped DEF IngestInit, Advancing, Abreast, Nothing, Missing

\* A step of one task changes nothing for the others.
LEMMA AbreastKept ==
    ASSUME Ingesting, Ingesting', Advancing, NEW r \in Runs, UNCHANGED upstream,
           \A q \in Runs \ {r} : task'[q] = task[q] /\ (q \in crossed => q \in crossed'),
           \A d \in Docs : corpus'[d] # corpus[d] => SourceOf[d] = task[r].now,
           \A d \in Docs : corpus'[d] <= upstream[d], Abreast(r, task[r])'
    PROVE  Advancing'
<1>1. ASSUME NEW q \in Runs \ {r} PROVE Abreast(q, task[q])'
  <2>1. \A d \in Docs : task[q].loaded[d] # Missing =>
                           corpus'[d] = corpus[d] \/ task[q].now = task[r].now
    BY <1>1 DEF Ingesting, TaskOrder
  <2>2. \A d \in Docs : task[q].loaded[d] # Missing => task[q].now \in Sources
    BY <1>1 DEF Ingesting, TaskOrder, Loaded, Holding
  <2>3. \A d \in Docs : task[q].loaded[d] # Missing => corpus'[d] = corpus[d] \/ q \in crossed'
    BY <1>1, <2>1, <2>2 DEF Ingesting, Apart
  <2>4. task'[q] = task[q] /\ Abreast(q, task[q]) /\ (q \in crossed => q \in crossed')
    BY <1>1 DEF Advancing
  <2>5. QED BY <2>3, <2>4 DEF Abreast
<1>2. QED BY <1>1 DEF Advancing

LEMMA NextAdvancing ==
    Ingesting /\ Ingesting' /\ Advancing /\ [IngestNext]_ingestVars => Advancing'
<1>. SUFFICES ASSUME Ingesting, Ingesting', Advancing, [IngestNext]_ingestVars PROVE Advancing'
  OBVIOUS
<1>0. /\ task \in [Runs -> Task] /\ upstream \in [Docs -> Contents \cup {Missing, Withdrawn}]
      /\ corpus \in [Docs -> Contents \cup {Missing}]
  BY DEF Ingesting, RunTyped
<1>1. CASE UNCHANGED ingestVars
  BY <1>1 DEF ingestVars, Advancing, Abreast
<1>2. ASSUME NEW d \in Docs, Publish(d) \/ Withdraw(d) PROVE Advancing'
  <2>1. \A e \in Docs : upstream'[e] >= upstream[e]
    BY <1>0, <1>2 DEF Publish, Withdraw, Contents, Missing, Withdrawn
  <2>2. \A e \in Docs : /\ upstream[e] \in Int /\ upstream'[e] \in Int /\ corpus[e] \in Int
                        /\ \A r \in Runs : task[r].loaded[e] \in Int
    BY <1>0, <1>2 DEF Publish, Withdraw, Contents, Missing, Withdrawn, Task
  <2>3. UNCHANGED <<corpus, task, crossed>>
    BY <1>2 DEF Publish, Withdraw
  <2>4. QED BY <2>1, <2>2, <2>3 DEF Advancing, Abreast
<1>3. ASSUME NEW r \in Runs, \E s \in Sources \cup {"all"}, o \in Options : PostIngest(r, s, o)
      PROVE  Advancing'
  <2>1. task'[r].loaded = Nothing
    BY <1>0, <1>3, NoTaskTyped DEF PostIngest, NoTask
  <2>2. Abreast(r, task[r])'
    BY <2>1 DEF Abreast, Nothing
  <2>3. QED BY <1>0, <1>3, <2>2, AbreastKept DEF PostIngest, Advancing
<1>4. ASSUME NEW r \in Runs, CreateRun(r) \/ MarkRunning(r) \/ TakeLock(r) PROVE Advancing'
  <2>1. task'[r].loaded = task[r].loaded /\ task'[r].seed = task[r].seed
    <3>1. CASE CreateRun(r)
      BY <1>0, <3>1 DEF CreateRun, To, Task
    <3>2. CASE MarkRunning(r)
      BY <1>0, <3>2 DEF MarkRunning, Task
    <3>3. CASE TakeLock(r)
      BY <1>0, <3>3 DEF TakeLock, Ingests, Task
    <3>4. QED BY <1>4, <3>1, <3>2, <3>3
  <2>2. /\ UNCHANGED <<upstream, corpus>> /\ \A q \in Runs \ {r} : task'[q] = task[q]
        /\ \A q \in crossed : q \in crossed'
    BY <1>0, <1>4 DEF CreateRun, MarkRunning, TakeLock, Ingests, To
  <2>3. Abreast(r, task[r])'
    BY <2>1, <2>2 DEF Abreast, Advancing
  <2>4. QED BY <2>2, <2>3, AbreastKept DEF Advancing
<1>5. ASSUME NEW r \in Runs, GiveUp(r), UNCHANGED <<upstream, corpus, crossed>> PROVE Advancing'
  <2>1. task'[r].loaded = task[r].loaded /\ task'[r].seed = task[r].seed
    BY <1>0, <1>5 DEF GiveUp, Task
  <2>2. \A q \in Runs \ {r} : task'[q] = task[q]
    BY <1>0, <1>5 DEF GiveUp
  <2>3. Abreast(r, task[r])'
    BY <1>5, <2>1 DEF Abreast, Advancing
  <2>4. QED BY <1>5, <2>2, <2>3, AbreastKept DEF Advancing
<1>6. ASSUME NEW r \in Runs, LoadDocuments(r) PROVE Advancing'
  <2>1. UNCHANGED <<upstream, corpus, crossed>>
    BY <1>6 DEF LoadDocuments
  <2>2. ASSUME ~GiveUp(r) PROVE /\ \A q \in Runs \ {r} : task'[q] = task[q]
                                /\ \/ ~task'[r].seed /\ \A d \in Docs :
                                         task'[r].loaded[d] \in {upstream[d], Missing}
                                   \/ task'[r].seed /\ \A d \in Docs :
                                         task'[r].loaded[d] # Missing =>
                                             d \in SeedDocs /\ task'[r].loaded[d] = 0
    BY <1>0, <1>6, <2>2 DEF LoadDocuments, Task
  <2>3. ASSUME ~GiveUp(r) PROVE Abreast(r, task[r])'
    BY <1>0, <2>1, <2>2, <2>3 DEF Abreast, Advancing, Contents, Missing, Withdrawn
  <2>4. QED BY <1>5, <2>1, <2>2, <2>3, AbreastKept DEF Advancing
<1>7. ASSUME NEW r \in Runs, Compare(r) PROVE Advancing'
  <2>1. UNCHANGED <<upstream, corpus, crossed>>
    BY <1>7 DEF Compare
  <2>2. ASSUME ~GiveUp(r) PROVE /\ \A q \in Runs \ {r} : task'[q] = task[q]
                                /\ task'[r].loaded = task[r].loaded /\ task'[r].seed = task[r].seed
    BY <1>0, <1>7, <2>2 DEF Compare, Task
  <2>3. ASSUME ~GiveUp(r) PROVE Abreast(r, task[r])'
    BY <2>1, <2>2, <2>3 DEF Abreast, Advancing
  <2>4. QED BY <1>5, <2>1, <2>2, <2>3, AbreastKept DEF Advancing
<1>8. ASSUME NEW r \in Runs, Flush(r) PROVE Advancing'
  <2>1. /\ UNCHANGED <<upstream, crossed>> /\ \A q \in Runs \ {r} : task'[q] = task[q]
        /\ task'[r].loaded = task[r].loaded /\ task'[r].seed = task[r].seed
    <3>1. task[r] \in Task
      BY <1>0
    <3>2. \/ task' = [task EXCEPT ![r].at = "prune"]
          \/ \E d \in task[r].dirty : task' = [task EXCEPT ![r].dirty = @ \ {d}]
          \/ \E b \in SUBSET task[r].dirty :
                task' = [task EXCEPT ![r].dirty = @ \ b, ![r].errors = TRUE]
      BY <1>8 DEF Flush, To
    <3>3. UNCHANGED <<upstream, crossed>>
      BY <1>8 DEF Flush
    <3>4. CASE task' = [task EXCEPT ![r].at = "prune"]
      BY <1>0, <3>1, <3>3, <3>4 DEF Task
    <3>5. ASSUME NEW d \in task[r].dirty, task' = [task EXCEPT ![r].dirty = @ \ {d}]
          PROVE  /\ \A q \in Runs \ {r} : task'[q] = task[q]
                 /\ task'[r].loaded = task[r].loaded /\ task'[r].seed = task[r].seed
      BY <1>0, <3>1, <3>5 DEF Task
    <3>6. ASSUME NEW b \in SUBSET task[r].dirty,
                 task' = [task EXCEPT ![r].dirty = @ \ b, ![r].errors = TRUE]
          PROVE  /\ \A q \in Runs \ {r} : task'[q] = task[q]
                 /\ task'[r].loaded = task[r].loaded /\ task'[r].seed = task[r].seed
      BY <1>0, <3>1, <3>6 DEF Task
    <3>7. QED BY <3>2, <3>3, <3>4, <3>5, <3>6
  <2>2. corpus' = corpus \/ \E d \in task[r].dirty : corpus' = [corpus EXCEPT ![d] = task[r].loaded[d]]
    BY <1>8 DEF Flush
  <2>3. \A d \in task[r].dirty : /\ d \in Docs /\ SourceOf[d] = task[r].now
                                 /\ task[r].loaded[d] # Missing /\ task[r].loaded[d] <= upstream[d]
    BY DEF Ingesting, TaskOrder, Advancing, Abreast
  <2>4. \A d \in Docs : corpus'[d] = corpus[d] \/ (d \in task[r].dirty /\ corpus'[d] = task[r].loaded[d])
    BY <1>0, <2>2, <2>3
  <2>5. \A d \in Docs : task[r].loaded[d] \in Int
    BY <1>0 DEF Task, Contents, Missing
  <2>6. Abreast(r, task[r])'
    BY <2>1, <2>4, <2>5 DEF Abreast, Advancing
  <2>7. QED BY <2>1, <2>3, <2>4, <2>6, AbreastKept DEF Advancing
<1>9. ASSUME NEW r \in Runs, PruneCorpus(r) PROVE Advancing'
  <2>1. CASE GiveUp(r) /\ UNCHANGED corpus
    BY <1>5, <1>9, <2>1 DEF PruneCorpus
  <2>2. CASE ~(GiveUp(r) /\ UNCHANGED corpus)
    <3>1. /\ UNCHANGED <<upstream, crossed>> /\ \A q \in Runs \ {r} : task'[q] = task[q]
          /\ task'[r].loaded = task[r].loaded /\ task'[r].seed = task[r].seed
      BY <1>0, <1>9, <2>2 DEF PruneCorpus, To, Task
    <3>2. \A d \in Docs : \/ corpus'[d] = corpus[d]
                          \/ corpus'[d] = Missing /\ SourceOf[d] = task[r].now
      BY <1>9, <2>2 DEF PruneCorpus
    <3>3. \A d \in Docs : Missing <= upstream[d] /\ (task[r].loaded[d] >= Missing)
      BY <1>0 DEF Task, Contents, Missing, Withdrawn
    <3>4. Abreast(r, task[r])'
      BY <3>1, <3>2, <3>3 DEF Abreast, Advancing, Missing
    <3>5. QED BY <3>1, <3>2, <3>3, <3>4, AbreastKept DEF Advancing
  <2>3. QED BY <2>1, <2>2
<1>10. ASSUME NEW r \in Runs, ReleaseLock(r) \/ FinishRun(r) PROVE Advancing'
  <2>1. task'[r].loaded = Nothing /\ UNCHANGED <<upstream, corpus>>
    <3>1. CASE ReleaseLock(r)
      <4>1. PICK t : t = [task[r] EXCEPT
                 !.at = IF task[r].left = {} THEN "finish" ELSE "lock", !.good = @ \/ task[r].ok,
                 !.now = "none", !.loaded = Nothing, !.seed = FALSE, !.ok = TRUE]
        OBVIOUS
      <4>2. t.loaded = Nothing
        BY <1>0, <4>1 DEF Task
      <4>3. task' = [task EXCEPT ![r] = t] /\ UNCHANGED <<upstream, corpus>>
        BY <3>1, <4>1 DEF ReleaseLock
      <4>4. QED BY <1>0, <4>2, <4>3
    <3>2. CASE FinishRun(r)
      BY <1>0, <3>2, NoTaskTyped DEF FinishRun, NoTask
    <3>3. QED BY <1>10, <3>1, <3>2
  <2>2. \A q \in Runs \ {r} : task'[q] = task[q] /\ (q \in crossed => q \in crossed')
    BY <1>0, <1>10 DEF ReleaseLock, FinishRun
  <2>3. Abreast(r, task[r])'
    BY <2>1 DEF Abreast, Nothing
  <2>4. QED BY <2>1, <2>2, <2>3, AbreastKept DEF Advancing
<1>11. ASSUME NEW p \in Replicas, Reboot(p) PROVE Advancing'
  <2>1. ASSUME NEW r \in Runs PROVE Abreast(r, task[r])'
    <3>1. CASE replica[r] = p
      <4>1. task'[r].loaded = Nothing
        BY <1>11, <3>1, NoTaskTyped DEF Reboot, NoTask
      <4>2. QED BY <4>1 DEF Abreast, Nothing
    <3>2. CASE replica[r] # p
      <4>1. task'[r] = task[r] /\ UNCHANGED <<upstream, corpus>> /\ (r \in crossed => r \in crossed')
        BY <1>11, <3>2 DEF Reboot
      <4>2. QED BY <4>1 DEF Advancing, Abreast
    <3>3. QED BY <3>1, <3>2
  <2>2. QED BY <1>11, <2>1 DEF Reboot, Advancing
<1>12. QED BY <1>1, <1>2, <1>3, <1>4, <1>6, <1>7, <1>8, <1>9, <1>10, <1>11 DEF IngestNext

\* No document of the corpus goes back to an older version, but from the seed files, and but
\* for a run whose source another replica ingests too.
THEOREM CorpusNeverGoesBack == IngestSpec => CorpusMovesForward
<1>1. Ingesting /\ Advancing /\ [IngestNext]_ingestVars =>
        [\A d \in Docs : corpus[d] # Missing /\ corpus'[d] # Missing /\ corpus'[d] < corpus[d] =>
            \E r \in Runs : Flush(r) /\ (task[r].seed \/ r \in crossed)]_ingestVars
  <2>. SUFFICES ASSUME Ingesting, Advancing, IngestNext, NEW d \in Docs, corpus[d] # Missing,
                       corpus'[d] # Missing, corpus'[d] < corpus[d]
                PROVE  \E r \in Runs : Flush(r) /\ (task[r].seed \/ r \in crossed)
    BY DEF ingestVars
  <2>0. /\ task \in [Runs -> Task] /\ corpus \in [Docs -> Contents \cup {Missing}]
        /\ corpus[d] \in Int /\ corpus' # corpus
    BY DEF Ingesting, RunTyped, Contents, Missing
  <2>1. PICK r \in Runs : Flush(r) \/ PruneCorpus(r)
    BY <2>0 DEF IngestNext, Publish, Withdraw, PostIngest, CreateRun, MarkRunning, TakeLock,
           Ingests, LoadDocuments, Compare, ReleaseLock, FinishRun, Reboot
  <2>2. ~PruneCorpus(r)
    BY <2>0 DEF PruneCorpus
  <2>3. PICK e \in task[r].dirty : corpus' = [corpus EXCEPT ![e] = task[r].loaded[e]]
    <3>1. Flush(r)
      BY <2>1, <2>2
    <3>2. QED BY <2>0, <3>1 DEF Flush
  <2>4. e = d /\ task[r].loaded[d] # Missing
    BY <2>0, <2>3 DEF Ingesting, TaskOrder
  <2>5. QED BY <2>0, <2>1, <2>2, <2>3, <2>4 DEF Advancing, Abreast, Task, Contents, Missing
<1>2. QED BY <1>1, InitIngesting, NextIngesting, InitAdvancing, NextAdvancing, PTL
          DEF IngestSpec, CorpusMovesForward

-----------------------------------------------------------------------------
\* ChatTurns: the window of a thread and its summary cover what was said.

HIDE IngestionAssumption
USE ChatAssumption

-----------------------------------------------------------------------------
(* The thread: what turns carry lies within it *)

Exchange == [at : {"idle", "load", "answer", "question", "reply", "profile", "recount",
                   "summarise", "done"},
             streams : BOOLEAN, states : Statements, window : SUBSET Nat, summary : SUBSET Nat,
             profile : Statements, own : SUBSET Nat]

Conversed ==
    /\ count \in Nat /\ summary \subseteq 1..count
    /\ stated \in Statements /\ profile \in 0..stated
    /\ turn \in [Slots -> Exchange]
    /\ overlapped \in BOOLEAN /\ missed \in 0..2

\* A turn has stored nothing before its question, one message before its reply, then two.
InThread(t) ==
    /\ t.window \subseteq 1..count /\ t.summary \subseteq 1..count /\ t.own \subseteq 1..count
    /\ t.states <= stated /\ t.profile <= stated
    /\ t.at \in {"idle", "load", "answer", "question"} => t.own = {}
    /\ t.at = "reply" => \E i \in Nat : t.own = {i}
    /\ \E i, j \in Nat : t.own \subseteq {i, j}

Thread == Conversed /\ \A s \in Slots : InThread(turn[s])

LEMMA NoTurnTyped ==
    /\ NoTurn \in Exchange /\ NoTurn.at = "idle" /\ NoTurn.states = 0 /\ NoTurn.window = {}
    /\ NoTurn.summary = {} /\ NoTurn.profile = 0 /\ NoTurn.own = {}
BY DEF NoTurn, Exchange, Statements

LEMMA InitThread == ChatInit => Thread
<1>. SUFFICES ASSUME ChatInit PROVE Thread
  OBVIOUS
<1>1. Conversed
  <2>1. turn \in [Slots -> Exchange]
    BY NoTurnTyped DEF ChatInit
  <2>2. count \in Nat /\ summary \subseteq 1..count /\ overlapped \in BOOLEAN
    BY DEF ChatInit
  <2>3. stated \in Statements /\ profile \in 0..stated /\ missed \in 0..2
    BY DEF ChatInit, Statements
  <2>4. QED BY <2>1, <2>2, <2>3 DEF Conversed
<1>2. \A s \in Slots : InThread(turn[s])
  BY NoTurnTyped DEF ChatInit, InThread
<1>3. QED BY <1>1, <1>2 DEF Thread

\* The thread's own variables keep their types, and never shrink.
Grows ==
    /\ count' \in Nat /\ count <= count' /\ stated' \in Statements /\ stated <= stated'
    /\ summary' \subseteq 1..count' /\ profile' \in 0..stated' /\ overlapped' \in BOOLEAN
    /\ missed' \in 0..2

\* A thread that grows still holds what the turns carry.
LEMMA ThreadStep ==
    ASSUME Thread, NEW s \in Slots, NEW t \in Exchange, turn' = [turn EXCEPT ![s] = t],
           Grows, InThread(t)'
    PROVE  Thread'
<1>1. \A r \in Slots : turn'[r] = IF r = s THEN t ELSE turn[r]
  BY DEF Thread, Conversed
<1>2. Conversed'
  BY DEF Thread, Conversed, Grows
<1>3. ASSUME NEW r \in Slots \ {s} PROVE InThread(turn[r])'
  <2>1. 1..count \subseteq 1..count'
    BY DEF Thread, Conversed, Grows
  <2>2. turn[r].states <= stated' /\ turn[r].profile <= stated'
    BY DEF Thread, InThread, Conversed, Exchange, Statements, Grows
  <2>3. QED BY <1>1, <2>1, <2>2 DEF Thread, InThread
<1>4. QED BY <1>1, <1>2, <1>3 DEF Thread, InThread

\* A turn that moves on and carries what it carried.
LEMMA Proceeding ==
    ASSUME Thread, NEW s \in Slots, NEW label,
           label \in {"question", "recount", "summarise", "done"},
           turn[s].at # "idle", turn[s].own = {} \/ label # "question",
           Proceed(s, label), UNCHANGED <<count, stated, overlapped>>,
           summary' \subseteq 1..count, profile' \in 0..stated, missed' \in 0..2
    PROVE  Thread'
<1>0. turn[s] \in Exchange /\ InThread(turn[s]) /\ Conversed
  BY DEF Thread, Conversed
<1>1. PICK t : t = [turn[s] EXCEPT !.at = label]
  OBVIOUS
<1>2. /\ t \in Exchange /\ t.at = label /\ t.window = turn[s].window /\ t.summary = turn[s].summary
      /\ t.own = turn[s].own /\ t.states = turn[s].states /\ t.profile = turn[s].profile
  BY <1>0, <1>1 DEF Exchange
<1>3. InThread(t)'
  BY <1>0, <1>2 DEF InThread
<1>4. Grows
  BY <1>0 DEF Grows, Conversed, Statements
<1>5. QED BY <1>1, <1>2, <1>3, <1>4, ThreadStep DEF Proceed

LEMMA NothingSaid ==
    Conversed /\ UNCHANGED <<count, summary, profile, stated, overlapped, missed>> => Grows
BY DEF Grows, Conversed, Statements

LEMMA Emptied ==
    ASSUME Thread, NEW s \in Slots, turn' = [turn EXCEPT ![s] = NoTurn],
           UNCHANGED <<count, summary, profile, stated, overlapped, missed>>
    PROVE  Thread'
<1>1. InThread(NoTurn)'
  BY NoTurnTyped DEF InThread, Thread, Conversed, Statements
<1>2. QED BY <1>1, NoTurnTyped, NothingSaid, ThreadStep DEF Thread

LEMMA NextThread == Thread /\ [ChatNext]_chatVars => Thread'
<1>. SUFFICES ASSUME Thread, [ChatNext]_chatVars PROVE Thread'
  OBVIOUS
<1>0. Conversed /\ \A s \in Slots : turn[s] \in Exchange /\ InThread(turn[s])
  BY DEF Thread, Conversed
<1>1. CASE UNCHANGED chatVars
  BY <1>1 DEF chatVars, Thread, Conversed, InThread
<1>2. ASSUME NEW s \in Slots, NEW streams \in BOOLEAN, NEW states \in Statements,
             PostMessage(s, streams, states)
      PROVE  Thread'
  <2>1. PICK t : t = [NoTurn EXCEPT !.at = "load", !.streams = streams, !.states = states]
    OBVIOUS
  <2>2. /\ t \in Exchange /\ t.at = "load" /\ t.states = states /\ t.window = {}
        /\ t.summary = {} /\ t.profile = 0 /\ t.own = {}
    BY <2>1, NoTurnTyped DEF Exchange
  <2>3. /\ stated' \in Statements /\ stated <= stated' /\ states <= stated'
        /\ profile' \in 0..stated' /\ overlapped' \in BOOLEAN
    BY <1>0, <1>2 DEF PostMessage, Conversed, Statements
  <2>4. InThread(t)'
    BY <2>2, <2>3 DEF InThread, Statements
  <2>5. Grows
    BY <1>0, <1>2, <2>3 DEF PostMessage, Conversed, Grows
  <2>6. turn' = [turn EXCEPT ![s] = t]
    BY <1>2, <2>1 DEF PostMessage
  <2>7. QED BY <2>2, <2>4, <2>5, <2>6, ThreadStep
<1>3. ASSUME NEW s \in Slots, turn[s].at \in {"load", "answer", "question", "reply", "profile", "recount"}, GivesUp(s),
             UNCHANGED <<count, summary, profile, stated, overlapped, missed>>
      PROVE  Thread'
  BY <1>0, <1>3, Proceeding DEF GivesUp, Conversed
<1>4. ASSUME NEW s \in Slots, LoadMemory(s) PROVE Thread'
  <2>1. PICK p : p = IF turn[s].states # 0 THEN turn[s].states ELSE profile
    OBVIOUS
  <2>2. p \in Statements /\ p <= stated
    BY <1>0, <2>1 DEF Conversed, Exchange, InThread, Statements
  <2>3. PICK t : t = [turn[s] EXCEPT !.at = "answer", !.window = Recent, !.summary = summary,
                                     !.profile = p]
    OBVIOUS
  <2>4. Recent \subseteq 1..count /\ summary \subseteq 1..count /\ 1..count \subseteq Nat
    BY <1>0 DEF Recent, Conversed
  <2>5. /\ t \in Exchange /\ t.at = "answer" /\ t.states = turn[s].states /\ t.window = Recent
        /\ t.summary = summary /\ t.profile = p /\ t.own = turn[s].own
    BY <1>0, <2>2, <2>3, <2>4 DEF Exchange
  <2>6. CASE turn' = [turn EXCEPT ![s] = t]
    <3>1. InThread(t)'
      BY <1>0, <1>4, <2>2, <2>4, <2>5 DEF LoadMemory, InThread
    <3>2. Grows
      BY <1>0, <1>4, NothingSaid DEF LoadMemory
    <3>3. QED BY <2>5, <2>6, <3>1, <3>2, ThreadStep
  <2>7. QED BY <1>3, <1>4, <2>1, <2>3, <2>6 DEF LoadMemory
<1>5. ASSUME NEW s \in Slots, Generate(s) PROVE Thread'
  BY <1>0, <1>3, <1>5, Proceeding DEF Generate, Conversed, InThread
<1>6. ASSUME NEW s \in Slots, Leave(s) \/ EndTurn(s) PROVE Thread'
  BY <1>6, Emptied DEF Leave, EndTurn
<1>7. Grown => /\ count' \in Nat /\ count <= count' /\ missed' \in 0..2 /\ count' = count + 1
               /\ 1..count \subseteq 1..count' /\ count' \in 1..count'
  BY <1>0 DEF Grown, Conversed
<1>8. ASSUME NEW s \in Slots, AddQuestion(s) PROVE Thread'
  <2>1. PICK t : t = [turn[s] EXCEPT !.own = {count + 1}, !.at = "reply"]
    OBVIOUS
  <2>a. count + 1 \in Nat
    BY <1>0 DEF Conversed
  <2>2. /\ t \in Exchange /\ t.at = "reply" /\ t.window = turn[s].window
        /\ t.summary = turn[s].summary /\ t.own = {count + 1} /\ t.states = turn[s].states
        /\ t.profile = turn[s].profile
    BY <1>0, <2>1, <2>a DEF Exchange
  <2>3. CASE Grown /\ turn' = [turn EXCEPT ![s] = t]
    <3>1. InThread(t)'
      BY <1>0, <1>7, <1>8, <2>2, <2>3 DEF AddQuestion, InThread
    <3>2. Grows
      <4>1. UNCHANGED <<summary, profile, stated, overlapped>>
        BY <1>8 DEF AddQuestion
      <4>2. summary \subseteq 1..count'
        BY <1>0, <1>7, <2>3 DEF Conversed
      <4>3. QED BY <1>0, <1>7, <2>3, <4>1, <4>2 DEF Conversed, Grows, Statements
    <3>3. QED BY <2>2, <2>3, <3>1, <3>2, ThreadStep
  <2>4. QED BY <1>3, <1>8, <2>1, <2>3 DEF AddQuestion
<1>9. ASSUME NEW s \in Slots, AddReply(s) PROVE Thread'
  <2>1. PICK t : t = [turn[s] EXCEPT !.own = @ \cup {count + 1}, !.at = "profile"]
    OBVIOUS
  <2>a. count + 1 \in Nat
    BY <1>0 DEF Conversed
  <2>2. /\ t \in Exchange /\ t.at = "profile" /\ t.window = turn[s].window
        /\ t.summary = turn[s].summary /\ t.own = turn[s].own \cup {count + 1}
        /\ t.states = turn[s].states /\ t.profile = turn[s].profile
    BY <1>0, <2>1, <2>a DEF Exchange
  <2>3. CASE Grown /\ turn' = [turn EXCEPT ![s] = t]
    <3>1. PICK i \in Nat : turn[s].own = {i}
      BY <1>0, <1>9 DEF AddReply, InThread
    <3>2. t.own \subseteq {i, count + 1} /\ count + 1 \in Nat
      BY <1>0, <2>2, <3>1 DEF Conversed
    <3>3. t.own \subseteq 1..count'
      BY <1>0, <1>7, <2>2, <2>3 DEF InThread
    <3>4. InThread(t)'
      BY <1>0, <1>7, <1>9, <2>2, <2>3, <3>2, <3>3 DEF AddReply, InThread
    <3>5. Grows
      <4>1. UNCHANGED <<summary, profile, stated, overlapped>>
        BY <1>9 DEF AddReply
      <4>2. summary \subseteq 1..count'
        BY <1>0, <1>7, <2>3 DEF Conversed
      <4>3. QED BY <1>0, <1>7, <2>3, <4>1, <4>2 DEF Conversed, Grows, Statements
    <3>6. QED BY <2>2, <2>3, <3>4, <3>5, ThreadStep
  <2>4. QED BY <1>3, <1>9, <2>1, <2>3 DEF AddReply
<1>10. ASSUME NEW s \in Slots, PersistProfile(s) PROVE Thread'
  <2>1. profile' \in 0..stated
    BY <1>0, <1>10 DEF PersistProfile, Conversed, InThread, Exchange, Statements
  <2>2. QED BY <1>0, <1>10, <2>1, Proceeding DEF PersistProfile, GivesUp, Conversed
<1>11. ASSUME NEW s \in Slots, Recount(s) PROVE Thread'
  BY <1>0, <1>11, Proceeding DEF Recount, GivesUp, Conversed
<1>12. ASSUME NEW s \in Slots, Summarise(s) PROVE Thread'
  <2>1. summary' \subseteq 1..count /\ missed' \in 0..2
    <3>1. turn[s].summary \cup turn[s].window \cup turn[s].own \subseteq 1..count
      BY <1>0 DEF InThread
    <3>2. summary' = turn[s].summary \cup turn[s].window \cup turn[s].own \/ summary' = summary
      BY <1>12 DEF Summarise
    <3>3. missed' \in 0..2
      BY <1>0, <1>12 DEF Summarise, Caught, Conversed
    <3>4. QED BY <1>0, <3>1, <3>2, <3>3 DEF Conversed
  <2>2. QED BY <1>0, <1>12, <2>1, Proceeding DEF Summarise, Conversed
<1>13. QED BY <1>1, <1>2, <1>4, <1>5, <1>6, <1>8, <1>9, <1>10, <1>11, <1>12 DEF ChatNext, TurnStep

-----------------------------------------------------------------------------
(* The bound on the thread: every turn in progress has room for its messages *)

Unstored   == {s \in Slots : turn[s].at \in {"load", "answer", "question"}}
HalfStored == {s \in Slots : turn[s].at = "reply"}
Room == /\ IsFiniteSet(Underway)
        /\ count + 2 * Cardinality(Unstored) + Cardinality(HalfStored) <= MaxMessages

LEMMA InitRoom == ChatInit => Room
<1>. SUFFICES ASSUME ChatInit PROVE Room
  OBVIOUS
<1>1. Underway = {} /\ Unstored = {} /\ HalfStored = {} /\ count = 0
  BY NoTurnTyped DEF ChatInit, Underway, Unstored, HalfStored
<1>2. QED BY <1>1, FS_EmptySet DEF Room

LEMMA Adjusted ==
    ASSUME NEW S, IsFiniteSet(S), NEW x, NEW T
    PROVE  /\ T = S \cup {x} => Cardinality(T) = Cardinality(S) + (IF x \in S THEN 0 ELSE 1)
           /\ T = S \ {x} => Cardinality(T) = Cardinality(S) - (IF x \in S THEN 1 ELSE 0)
<1>1. Cardinality(S) \in Nat
  BY FS_CardinalityType
<1>2. Cardinality(S \cup {x}) = IF x \in S THEN Cardinality(S) ELSE Cardinality(S) + 1
  BY FS_AddElement
<1>3. Cardinality(S \ {x}) = IF x \in S THEN Cardinality(S) - 1 ELSE Cardinality(S)
  BY FS_RemoveElement
<1>4. ASSUME T = S \cup {x} PROVE Cardinality(T) = Cardinality(S) + (IF x \in S THEN 0 ELSE 1)
  <2>1. Cardinality(T) = Cardinality(S \cup {x})
    BY ONLY <1>4, Zenon
  <2>2. QED BY <1>1, <1>2, <2>1
<1>5. ASSUME T = S \ {x} PROVE Cardinality(T) = Cardinality(S) - (IF x \in S THEN 1 ELSE 0)
  <2>1. Cardinality(T) = Cardinality(S \ {x})
    BY ONLY <1>5, Zenon
  <2>2. QED BY <1>1, <1>3, <2>1
<1>6. QED BY <1>4, <1>5

LEMMA PairOf == \A i, j : IsFiniteSet({i, j}) /\ Cardinality({i, j}) <= 2
<1>. SUFFICES ASSUME NEW i, NEW j PROVE IsFiniteSet({i, j}) /\ Cardinality({i, j}) <= 2
  OBVIOUS
<1>1. IsFiniteSet({i}) /\ Cardinality({i}) = 1
  BY FS_Singleton
<1>2. /\ IsFiniteSet({i} \cup {j})
      /\ Cardinality({i} \cup {j}) = IF j \in {i} THEN Cardinality({i}) ELSE Cardinality({i}) + 1
  BY <1>1, FS_AddElement
<1>3. {i, j} = {i} \cup {j}
  OBVIOUS
<1>4. QED BY <1>1, <1>2, <1>3

LEMMA MessagesFinite ==
    ASSUME Room
    PROVE  /\ IsFiniteSet(Unstored) /\ IsFiniteSet(HalfStored) /\ IsFiniteSet(Underway)
           /\ Cardinality(Unstored) \in Nat /\ Cardinality(HalfStored) \in Nat
           /\ Cardinality(Underway) \in Nat
           /\ Cardinality(Unstored) + Cardinality(HalfStored) <= Cardinality(Underway)
<1>1. Unstored \in SUBSET Underway /\ HalfStored \in SUBSET Underway
      /\ Unstored \cup HalfStored \in SUBSET Underway /\ Unstored \cap HalfStored = {}
  BY DEF Unstored, HalfStored, Underway
<1>2. IsFiniteSet(Unstored) /\ IsFiniteSet(HalfStored) /\ IsFiniteSet(Underway)
  BY <1>1, FS_Subset DEF Room
<1>3. Cardinality(Unstored \cup HalfStored) = Cardinality(Unstored) + Cardinality(HalfStored)
  <2>1. Cardinality(Unstored \cap HalfStored) = 0
    BY <1>1, FS_EmptySet
  <2>2. Cardinality(Unstored \cup HalfStored) =
            Cardinality(Unstored) + Cardinality(HalfStored) - Cardinality(Unstored \cap HalfStored)
    BY <1>2, FS_Union
  <2>3. QED BY <1>2, <2>1, <2>2, FS_CardinalityType
<1>4. Cardinality(Unstored \cup HalfStored) <= Cardinality(Underway)
  BY <1>1, <1>2, FS_Subset
<1>5. QED BY <1>2, <1>3, <1>4, FS_CardinalityType

\* A turn takes up no more room than before when it moves on, or is done.
LEMMA RoomKept ==
    ASSUME Thread, Room, NEW s \in Slots, \A r \in Slots \ {s} : turn'[r] = turn[r],
           \/ count' = count /\ turn[s].at \notin {"load", "answer", "question", "reply"}
              /\ turn'[s].at \notin {"load", "answer", "question", "reply"}
           \/ count' = count /\ turn[s].at = "reply" /\ turn'[s].at \notin {"load", "answer", "question"}
           \/ count' = count /\ turn[s].at \in {"load", "answer", "question"}
           \/ count' = count + 1 /\ turn[s].at = "question" /\ turn'[s].at = "reply"
           \/ count' = count + 1 /\ turn[s].at = "reply" /\ turn'[s].at \notin {"load", "answer", "question", "reply"}
    PROVE  Room'
<1>0. /\ IsFiniteSet(Unstored) /\ IsFiniteSet(HalfStored) /\ IsFiniteSet(Underway)
      /\ Cardinality(Unstored) \in Nat /\ Cardinality(HalfStored) \in Nat /\ count \in Nat
  BY MessagesFinite DEF Thread, Conversed
<1>1. Underway' \in SUBSET (Underway \cup {s})
  BY DEF Underway
<1>2. IsFiniteSet(Underway')
  BY <1>0, <1>1, FS_AddElement, FS_Subset
<1>3. Unstored' = (IF turn'[s].at \in {"load", "answer", "question"} THEN Unstored \cup {s}
                   ELSE Unstored \ {s})
  BY DEF Unstored
<1>4. HalfStored' = (IF turn'[s].at = "reply" THEN HalfStored \cup {s} ELSE HalfStored \ {s})
  BY DEF HalfStored
<1>5. (s \in Unstored <=> turn[s].at \in {"load", "answer", "question"})
      /\ (s \in HalfStored <=> turn[s].at = "reply")
  BY DEF Unstored, HalfStored
<1>6. Cardinality(Unstored') = Cardinality(Unstored)
        + (IF turn'[s].at \in {"load", "answer", "question"} THEN IF s \in Unstored THEN 0 ELSE 1
           ELSE IF s \in Unstored THEN -1 ELSE 0)
  <2>1. PICK T : T = Unstored'
    OBVIOUS
  <2>2. /\ T = Unstored \cup {s} =>
              Cardinality(T) = Cardinality(Unstored) + (IF s \in Unstored THEN 0 ELSE 1)
        /\ T = Unstored \ {s} =>
              Cardinality(T) = Cardinality(Unstored) - (IF s \in Unstored THEN 1 ELSE 0)
    BY <1>0, Adjusted
  <2>3. QED BY <1>0, <1>3, <2>1, <2>2
<1>7. Cardinality(HalfStored') = Cardinality(HalfStored)
        + (IF turn'[s].at = "reply" THEN IF s \in HalfStored THEN 0 ELSE 1
           ELSE IF s \in HalfStored THEN -1 ELSE 0)
  <2>1. PICK T : T = HalfStored'
    OBVIOUS
  <2>2. /\ T = HalfStored \cup {s} =>
              Cardinality(T) = Cardinality(HalfStored) + (IF s \in HalfStored THEN 0 ELSE 1)
        /\ T = HalfStored \ {s} =>
              Cardinality(T) = Cardinality(HalfStored) - (IF s \in HalfStored THEN 1 ELSE 0)
    BY <1>0, Adjusted
  <2>3. QED BY <1>0, <1>4, <2>1, <2>2
<1>8. count' + 2 * Cardinality(Unstored') + Cardinality(HalfStored') <= MaxMessages
  BY <1>0, <1>5, <1>6, <1>7 DEF Room
<1>9. QED BY <1>2, <1>8 DEF Room

LEMMA NextRoom == Thread /\ Room /\ [ChatNext]_chatVars => Room'
<1>. SUFFICES ASSUME Thread, Room, [ChatNext]_chatVars PROVE Room'
  OBVIOUS
<1>0. turn \in [Slots -> Exchange] /\ count \in Nat
  BY DEF Thread, Conversed
<1>1. CASE UNCHANGED chatVars
  BY <1>1 DEF chatVars, Room, Underway, Unstored, HalfStored
<1>2. ASSUME NEW s \in Slots, NEW streams \in BOOLEAN, NEW states \in Statements,
             PostMessage(s, streams, states)
      PROVE  Room'
  <2>1. turn'[s].at = "load" /\ count' = count /\ \A r \in Slots \ {s} : turn'[r] = turn[r]
    BY <1>0, <1>2, NoTurnTyped DEF PostMessage, Exchange
  <2>2. Underway' \in SUBSET (Underway \cup {s}) /\ Unstored' = Unstored \cup {s}
        /\ HalfStored' = HalfStored /\ s \notin Unstored
    BY <1>2, <2>1 DEF PostMessage, Underway, Unstored, HalfStored
  <2>3. count + 2 * Cardinality(Underway) + 2 <= MaxMessages
    BY <1>0, <1>2, MessagesFinite DEF PostMessage
  <2>4. Cardinality(Unstored') = Cardinality(Unstored) + 1 /\ IsFiniteSet(Underway')
    BY <2>2, MessagesFinite, FS_AddElement, FS_Subset
  <2>5. QED BY <1>0, <2>1, <2>2, <2>3, <2>4, MessagesFinite DEF Room
<1>3. ASSUME NEW s \in Slots, TurnStep(s) \/ Leave(s) PROVE Room'
  <2>0. \A r \in Slots \ {s} : turn'[r] = turn[r]
    BY <1>0, <1>3 DEF TurnStep, Leave, LoadMemory, Generate, AddQuestion, AddReply, PersistProfile,
           Recount, Summarise, EndTurn, Proceed, GivesUp
  <2>1. CASE LoadMemory(s) \/ Generate(s)
    BY <1>0, <2>0, <2>1, RoomKept DEF LoadMemory, Generate
  <2>2. CASE AddQuestion(s)
    <3>1. \/ count' = count
          \/ count' = count + 1 /\ turn' = [turn EXCEPT ![s].own = {count + 1}, ![s].at = "reply"]
      BY <2>2 DEF AddQuestion, Grown
    <3>2. turn[s].at = "question"
      BY <2>2 DEF AddQuestion
    <3>3. count' = count \/ turn'[s].at = "reply"
      BY <1>0, <3>1 DEF Exchange
    <3>4. QED BY <2>0, <3>1, <3>2, <3>3, RoomKept
  <2>3. CASE AddReply(s)
    <3>1. \/ count' = count /\ turn' = [turn EXCEPT ![s].at = "done"]
          \/ count' = count + 1
             /\ turn' = [turn EXCEPT ![s].own = @ \cup {count + 1}, ![s].at = "profile"]
      BY <2>3 DEF AddReply, Grown, GivesUp, Proceed
    <3>2. turn'[s].at \in {"done", "profile"} /\ turn[s].at = "reply"
      BY <1>0, <2>3, <3>1 DEF Exchange, AddReply
    <3>3. QED BY <2>0, <3>1, <3>2, RoomKept
  <2>4. CASE PersistProfile(s) \/ Recount(s) \/ Summarise(s)
    <3>1. turn[s].at \in {"profile", "recount", "summarise"} /\ count' = count
      BY <2>4 DEF PersistProfile, Recount, Summarise
    <3>2. \E label \in {"recount", "summarise", "done"} : turn' = [turn EXCEPT ![s].at = label]
      BY <2>4 DEF PersistProfile, Recount, Summarise, Proceed, GivesUp
    <3>3. turn'[s].at \in {"recount", "summarise", "done"}
      BY <1>0, <3>2 DEF Exchange
    <3>4. QED BY <2>0, <3>1, <3>3, RoomKept
  <2>5. CASE EndTurn(s) \/ Leave(s)
    <3>1. turn'[s].at = "idle" /\ count' = count
      BY <1>0, <2>5, NoTurnTyped DEF EndTurn, Leave
    <3>2. QED BY <2>0, <3>1, RoomKept
  <2>6. QED BY <1>3, <2>1, <2>2, <2>3, <2>4, <2>5 DEF TurnStep
<1>4. QED BY <1>1, <1>2, <1>3 DEF ChatNext

\* The thread keeps its bounds, whatever turns overlap, fail and are left.
THEOREM ChatTypes == ChatSpec => []ChatTypeOK
<1>1. Thread /\ Room => ChatTypeOK
  <2>. SUFFICES ASSUME Thread, Room PROVE ChatTypeOK
    OBVIOUS
  <2>1. count \in 0..MaxMessages
    BY MessagesFinite DEF Thread, Conversed, Room
  <2>2. 1..count \subseteq Positions
    BY <2>1 DEF Positions
  <2>3. ASSUME NEW s \in Slots PROVE turn[s] \in ChatTurn
    BY <2>2 DEF Thread, Conversed, InThread, Exchange, ChatTurn
  <2>4. ASSUME NEW s \in Slots PROVE Cardinality(turn[s].own) <= 2
    <3>1. PICK i, j \in Nat : turn[s].own \in SUBSET {i, j}
      BY DEF Thread, InThread
    <3>3. IsFiniteSet({i, j}) /\ Cardinality({i, j}) <= 2
      BY PairOf
    <3>4. Cardinality(turn[s].own) <= Cardinality({i, j}) /\ IsFiniteSet(turn[s].own)
      BY <3>1, <3>3, FS_Subset
    <3>5. Cardinality({i, j}) \in Nat /\ Cardinality(turn[s].own) \in Nat
      BY <3>3, <3>4, FS_CardinalityType
    <3>6. QED BY <3>3, <3>4, <3>5
  <2>5. turn \in [Slots -> ChatTurn]
    BY <2>3 DEF Thread, Conversed
  <2>6. QED BY <2>1, <2>4, <2>5 DEF ChatTypeOK, Thread, Conversed, InThread
<1>2. QED BY <1>1, InitThread, NextThread, InitRoom, NextRoom, PTL DEF ChatSpec

-----------------------------------------------------------------------------
(* One turn after the other: what the thread remembers *)

Last(n) == {i \in 1..n : i > n - 2 * MemorySpan}

\* Until turns overlap there is one at a time.
OneTurn == ~overlapped => \A s, r \in Underway : s = r

\* What that one has loaded is still so, and its messages are the last ones.
Solo(t) ==
    /\ t.at = "load" => t.states = 0 \/ t.states >= profile
    /\ t.at \in {"answer", "question", "reply", "profile"} => t.profile >= profile
    /\ t.at \in {"answer", "question", "reply", "profile", "recount", "summarise"} =>
          t.summary = summary
    /\ t.at \in {"answer", "question"} => t.window = Last(count)
    /\ t.at = "reply" => t.own = {count} /\ t.window = Last(count - 1)
    /\ t.at \in {"profile", "recount", "summarise"} =>
          t.own = {count - 1, count} /\ count >= 2 /\ t.window = Last(count - 2)
    /\ t.at = "summarise" => should_summarise

\* The newest summary, made when the thread had c messages, covers all of them that the window
\* still shows, and every summary due since then was missed.
Covers(c) ==
    /\ c \in summary /\ c > 2 * MemorySpan /\ c <= count /\ c % SummaryEvery = 0
    /\ \A i \in summary : i <= c
    /\ \A i \in Last(count) : i <= c => i \in summary
    /\ missed = 0 => count <= c + SummaryEvery
    /\ missed = 1 => count <= c + SummaryEvery + SummaryEvery

Serial ==
    /\ OneTurn
    /\ ~overlapped => /\ \A s \in Underway : Solo(turn[s])
                      /\ summary # {} => \E c \in Nat : Covers(c)

LEMMA DivisionParts ==
    ASSUME NEW c \in Nat, NEW k \in Nat \ {0}
    PROVE  c = k * (c \div k) + (c % k)
BY SMT

LEMMA RemainderBounds ==
    ASSUME NEW c \in Nat, NEW k \in Nat \ {0}
    PROVE  (c % k) \in 0..(k-1) /\ (c \div k) \in Nat
BY SMT

LEMMA SmallMultiple ==
    ASSUME NEW k \in Nat \ {0}, NEW d \in Int, NEW m \in Int, 0 <= m, m < k, k * d = m
    PROVE  m = 0
<1>1. CASE d >= 1
  <2>1. k * d >= k
    BY <1>1, SMT
  <2>2. QED BY <2>1
<1>2. CASE d <= -1
  <2>1. k * d <= -k
    BY <1>2, SMT
  <2>2. QED BY <2>1
<1>3. CASE d = 0
  BY <1>3
<1>4. QED BY <1>1, <1>2, <1>3

LEMMA NextMultiple ==
    ASSUME NEW c \in Nat, NEW k \in Nat \ {0}, c % k = 0
    PROVE  (c + k) % k = 0
<1>1. PICK a \in Nat : c = k * a
  <2>1. (c \div k) \in Nat /\ c = k * (c \div k) + 0
    BY DivisionParts, RemainderBounds
  <2>2. k * (c \div k) \in Int
    BY <2>1
  <2>3. c = k * (c \div k)
    BY <2>1, <2>2
  <2>4. QED BY <2>1, <2>3
<1>2. PICK b \in Nat, m \in 0..(k-1) : c + k = k * b + m /\ m = (c + k) % k
  <2>1. c + k \in Nat
   OBVIOUS
  <2>2. QED BY <2>1, DivisionParts, RemainderBounds
<1>3. k * (a + 1 - b) = m
  <2>1. k * (a + 1 - b) = k * a + k - k * b
   BY SMT
  <2>2. k * b \in Int /\ k * a \in Int
   OBVIOUS
  <2>3. QED BY <1>1, <1>2, <2>1, <2>2
<1>4. a + 1 - b \in Int /\ m \in Int /\ 0 <= m /\ m < k
  BY <1>1, <1>2
<1>5. m = 0
  BY <1>3, <1>4, SmallMultiple
<1>6. QED BY <1>2, <1>5

LEMMA InitSerial == ChatInit => Serial
BY NoTurnTyped DEF ChatInit, Serial, OneTurn, Underway

\* A step of the one turn in progress.
LEMMA SerialStep ==
    ASSUME Thread, Serial, NEW s \in Underway, NEW t, turn' = [turn EXCEPT ![s] = t],
           UNCHANGED overlapped,
           ~overlapped /\ t.at # "idle" => Solo(t)',
           ~overlapped /\ summary' # {} => \E c \in Nat : Covers(c)'
    PROVE  Serial'
<1>0. turn \in [Slots -> Exchange] /\ s \in Slots
  BY DEF Thread, Conversed, Underway
<1>1. \A r \in Slots : turn'[r] = IF r = s THEN t ELSE turn[r]
  BY <1>0
<1>2. Underway' \subseteq Underway
  BY <1>0, <1>1 DEF Underway
<1>3. OneTurn'
  BY <1>2 DEF Serial, OneTurn
<1>4. ASSUME ~overlapped, NEW r \in Underway' PROVE Solo(turn[r])'
  <2>1. r = s
    BY <1>2, <1>4 DEF Serial, OneTurn
  <2>2. Solo(t)'
    BY <1>1, <1>0, <1>4, <2>1 DEF Underway
  <2>3. turn'[r] = t
    BY <1>0, <1>1, <2>1
  <2>4. QED BY <2>2, <2>3 DEF Solo
<1>5. QED BY <1>3, <1>4 DEF Serial

\* Moving on with the thread as it was.
LEMMA SerialMove ==
    ASSUME Thread, Serial, NEW s \in Underway, NEW t, turn' = [turn EXCEPT ![s] = t],
           UNCHANGED <<count, summary, overlapped, missed>>,
           ~overlapped /\ t.at # "idle" => Solo(t)'
    PROVE  Serial'
<1>1. ASSUME ~overlapped, summary' # {} PROVE \E c \in Nat : Covers(c)'
  BY <1>1 DEF Serial, Covers, Last
<1>2. QED BY <1>1, SerialStep

\* A turn that gives up, ends or is left.
LEMMA SerialEnd ==
    ASSUME Thread, Serial, NEW s \in Underway,
           \/ Proceed(s, "done") \/ turn' = [turn EXCEPT ![s] = NoTurn],
           UNCHANGED <<count, summary, overlapped, missed>>
    PROVE  Serial'
<1>1. turn[s] \in Exchange /\ s \in Slots
  BY DEF Thread, Conversed, Underway
<1>2. CASE Proceed(s, "done")
  <2>1. PICK t : t = [turn[s] EXCEPT !.at = "done"]
    OBVIOUS
  <2>2. t.at = "done"
    BY <1>1, <2>1 DEF Exchange
  <2>3. Solo(t)'
    BY <2>2 DEF Solo
  <2>4. QED BY <1>2, <2>1, <2>3, SerialMove DEF Proceed
<1>3. CASE turn' = [turn EXCEPT ![s] = NoTurn]
  BY <1>3, NoTurnTyped, SerialMove
<1>4. QED BY <1>2, <1>3

\* The thread grows by one message: what slides out of the window is in the summary.
LEMMA Sliding ==
    ASSUME Conversed, SummaryEvery <= MemorySpan, Grown, UNCHANGED summary,
           NEW c \in Nat, Covers(c)
    PROVE  Covers(c)' /\ (missed' < 2 => \A i \in Last(count) : i \in Last(count') \/ i \in summary)
<1>0. count \in Nat /\ missed \in 0..2 /\ summary \subseteq 1..count /\ SummaryEvery \in Nat \ {0}
      /\ MemorySpan \in Nat \ {0} /\ count' = count + 1
  BY DEF Conversed, Grown
<1>1. /\ (c + SummaryEvery) % SummaryEvery = 0
      /\ (c + SummaryEvery + SummaryEvery) % SummaryEvery = 0
  <2>1. (c + SummaryEvery) % SummaryEvery = 0
    BY <1>0, NextMultiple DEF Covers
  <2>2. c + SummaryEvery \in Nat
    BY <1>0
  <2>3. QED BY <1>0, <2>1, <2>2, NextMultiple
<1>2. count > c => count \notin summary
  BY <1>0 DEF Covers
<1>3. count = c + SummaryEvery \/ count = c + SummaryEvery + SummaryEvery => SummaryMissed(count)
  BY <1>0, <1>1, <1>2 DEF Covers, SummaryMissed
<1>4. missed' = IF SummaryMissed(count) /\ missed < 2 THEN missed + 1 ELSE missed
  BY DEF Grown
<1>5. /\ missed' = 0 => count' <= c + SummaryEvery
      /\ missed' = 1 => count' <= c + SummaryEvery + SummaryEvery
  BY <1>0, <1>3, <1>4 DEF Covers
<1>6. \A i \in Last(count') : i <= c => i \in summary
  BY <1>0 DEF Covers, Last
<1>7. Covers(c)'
  BY <1>0, <1>5, <1>6 DEF Covers
<1>8. ASSUME missed' < 2, NEW i \in Last(count), i \notin Last(count') PROVE i \in summary
  <2>1. i <= count' - 2 * MemorySpan /\ i \in Nat
    BY <1>0, <1>8 DEF Last
  <2>2. i <= c
    BY <1>0, <1>4, <1>5, <1>8, <2>1
  <2>3. QED BY <1>8, <2>2 DEF Covers
<1>9. QED BY <1>7, <1>8

LEMMA NextSerial ==
    ASSUME SummaryEvery <= MemorySpan, Thread, Serial, [ChatNext]_chatVars
    PROVE  /\ Serial'
           /\ summary # {} /\ ~overlapped' /\ missed' < 2 => Remembered \subseteq Remembered'
           /\ profile' >= profile \/ overlapped
<1>0. Conversed /\ \A s \in Slots : turn[s] \in Exchange /\ InThread(turn[s])
  BY DEF Thread, Conversed
<1>a. Recent = Last(count) /\ Recent' = Last(count')
  BY DEF Recent, Last
<1>b. UNCHANGED count /\ summary \subseteq summary' => Remembered \subseteq Remembered'
  BY DEF Remembered, Recent
<1>c. UNCHANGED profile => profile' >= profile
  BY <1>0 DEF Conversed
<1>1. CASE UNCHANGED chatVars
  BY <1>1, <1>b, <1>c DEF chatVars, Serial, OneTurn, Underway, Solo, Covers, Last, should_summarise
<1>2. ASSUME NEW s \in Slots, NEW streams \in BOOLEAN, NEW states \in Statements,
             PostMessage(s, streams, states)
      PROVE  /\ Serial' /\ UNCHANGED <<count, summary, profile>>
  <2>1. UNCHANGED <<count, summary, profile, missed>> /\ (~overlapped' => ~overlapped /\ Underway = {})
    BY <1>2 DEF PostMessage
  <2>2. PICK t : t = [NoTurn EXCEPT !.at = "load", !.streams = streams, !.states = states]
    OBVIOUS
  <2>3. t.at = "load" /\ t.states = states
    BY <2>2, NoTurnTyped DEF Exchange
  <2>4. \A r \in Slots : turn'[r] = IF r = s THEN t ELSE turn[r]
    BY <1>0, <1>2, <2>2 DEF PostMessage, Conversed
  <2>5. ~overlapped' => Underway' = {s}
    BY <2>1, <2>3, <2>4 DEF Underway
  <2>6. Solo(t)'
    BY <1>0, <1>2, <2>1, <2>3 DEF Solo, PostMessage, Conversed, Statements
  <2>7. ~overlapped' => \A r \in Underway' : Solo(turn[r])'
    BY <2>4, <2>5, <2>6 DEF Solo
  <2>8. ~overlapped' /\ summary' # {} => \E c \in Nat : Covers(c)'
    BY <2>1 DEF Serial, Covers, Last
  <2>9. QED BY <2>1, <2>5, <2>7, <2>8 DEF Serial, OneTurn
<1>3. ASSUME NEW s \in Slots, turn[s].at # "idle",
             \/ GivesUp(s) \/ turn' = [turn EXCEPT ![s] = NoTurn],
             UNCHANGED <<count, summary, profile, overlapped, missed>>
      PROVE  Serial' /\ UNCHANGED <<count, summary, profile>>
  BY <1>3, SerialEnd DEF GivesUp, Underway
<1>4. ASSUME NEW s \in Slots, LoadMemory(s) \/ Generate(s)
      PROVE  Serial' /\ UNCHANGED <<count, summary, profile>>
  <2>1. /\ UNCHANGED <<count, summary, profile, overlapped, missed>> /\ turn[s].at \in {"load", "answer"}
        /\ s \in Underway
    BY <1>4 DEF LoadMemory, Generate, Underway
  <2>2. ~overlapped => Solo(turn[s])
    BY <2>1 DEF Serial
  <2>3. CASE LoadMemory(s) /\ ~GivesUp(s)
    <3>1. PICK p : p = IF turn[s].states # 0 THEN turn[s].states ELSE profile
      OBVIOUS
    <3>2. PICK t : t = [turn[s] EXCEPT !.at = "answer", !.window = Recent, !.summary = summary,
                                       !.profile = p]
      OBVIOUS
    <3>3. t.at = "answer" /\ t.window = Recent /\ t.summary = summary /\ t.profile = p
      BY <1>0, <3>2 DEF Exchange
    <3>4. ~overlapped => p >= profile
      BY <1>0, <2>2, <2>3, <3>1 DEF Solo, LoadMemory, Conversed
    <3>5. ~overlapped => Solo(t)'
      BY <1>a, <2>1, <3>3, <3>4 DEF Solo
    <3>6. turn' = [turn EXCEPT ![s] = t]
      BY <2>3, <3>1, <3>2 DEF LoadMemory
    <3>7. QED BY <2>1, <3>5, <3>6, SerialMove
  <2>4. CASE Generate(s) /\ ~GivesUp(s)
    <3>1. PICK t : t = [turn[s] EXCEPT !.at = "question"]
      OBVIOUS
    <3>2. t.at = "question" /\ t.window = turn[s].window /\ t.summary = turn[s].summary
          /\ t.profile = turn[s].profile
      BY <1>0, <3>1 DEF Exchange
    <3>3. ~overlapped => Solo(t)'
      BY <2>1, <2>2, <2>4, <3>2 DEF Solo, Generate
    <3>4. turn' = [turn EXCEPT ![s] = t]
      BY <2>4, <3>1 DEF Generate, Proceed
    <3>5. QED BY <2>1, <3>3, <3>4, SerialMove
  <2>5. QED BY <1>3, <1>4, <2>1, <2>3, <2>4
<1>5. ASSUME NEW s \in Slots, NEW t, Grown, UNCHANGED <<summary, profile, overlapped>>,
             turn' = [turn EXCEPT ![s] = t], turn[s].at # "idle", ~overlapped => Solo(t)'
      PROVE  /\ Serial' /\ UNCHANGED profile
             /\ summary # {} /\ ~overlapped' /\ missed' < 2 => Remembered \subseteq Remembered'
  <2>1. ASSUME ~overlapped, summary # {}
        PROVE  (\E c \in Nat : Covers(c)') /\ (missed' < 2 => Remembered \subseteq Remembered')
    <3>1. PICK c \in Nat : Covers(c)
      BY <2>1 DEF Serial
    <3>2. Covers(c)' /\ (missed' < 2 => \A i \in Last(count) : i \in Last(count') \/ i \in summary)
      BY <1>0, <1>5, <3>1, Sliding
    <3>3. QED BY <1>5, <1>a, <3>2 DEF Remembered
  <2>2. Serial'
    BY <1>5, <2>1, SerialStep DEF Underway
  <2>3. QED BY <1>5, <2>1, <2>2
<1>6. Grown => count' = count + 1
  BY DEF Grown
<1>7. ASSUME NEW s \in Slots, AddQuestion(s) \/ AddReply(s)
      PROVE  /\ Serial' /\ UNCHANGED profile
             /\ summary # {} /\ ~overlapped' /\ missed' < 2 => Remembered \subseteq Remembered'
  <2>1. UNCHANGED <<summary, profile, overlapped>> /\ turn[s].at \in {"question", "reply"}
        /\ s \in Underway
    BY <1>7 DEF AddQuestion, AddReply, Underway
  <2>2. ~overlapped => Solo(turn[s])
    BY <2>1 DEF Serial
  <2>3. CASE GivesUp(s) /\ UNCHANGED <<count, missed>>
    BY <1>3, <1>b, <2>1, <2>3
  <2>4. CASE AddQuestion(s) /\ Grown /\ turn' = [turn EXCEPT ![s].own = {count + 1}, ![s].at = "reply"]
    <3>1. PICK t : t = [turn[s] EXCEPT !.own = {count + 1}, !.at = "reply"]
      OBVIOUS
    <3>2. t.at = "reply" /\ t.window = turn[s].window /\ t.summary = turn[s].summary
          /\ t.profile = turn[s].profile /\ t.own = {count + 1}
      BY <1>0, <3>1 DEF Exchange
    <3>3. count' - 1 = count
      BY <1>0, <1>6, <2>4 DEF Conversed
    <3>4. ~overlapped => Solo(t)'
      BY <1>6, <2>1, <2>2, <2>4, <3>2, <3>3 DEF Solo, AddQuestion
    <3>5. QED BY <1>5, <2>1, <2>4, <3>1, <3>4
  <2>5. CASE AddReply(s) /\ Grown
             /\ turn' = [turn EXCEPT ![s].own = @ \cup {count + 1}, ![s].at = "profile"]
    <3>1. PICK t : t = [turn[s] EXCEPT !.own = @ \cup {count + 1}, !.at = "profile"]
      OBVIOUS
    <3>2. t.at = "profile" /\ t.window = turn[s].window /\ t.summary = turn[s].summary
          /\ t.profile = turn[s].profile /\ t.own = turn[s].own \cup {count + 1}
      BY <1>0, <3>1 DEF Exchange
    <3>3. count' - 1 = count /\ count' - 2 = count - 1 /\ count' = count + 1 /\ count \in Nat
      BY <1>0, <1>6, <2>5 DEF Conversed
    <3>4. ~overlapped => turn[s].own = {count} /\ turn[s].window = Last(count - 1)
      BY <2>2, <2>5 DEF Solo, AddReply
    <3>5. ~overlapped => count >= 1
      BY <1>0, <3>3, <3>4 DEF InThread
    <3>6. ~overlapped => t.own = {count' - 1, count'} /\ count' >= 2 /\ t.window = Last(count' - 2)
      BY <3>2, <3>3, <3>4, <3>5
    <3>7. ~overlapped => Solo(t)'
      BY <2>1, <2>2, <2>5, <3>2, <3>6 DEF Solo, AddReply
    <3>8. QED BY <1>5, <2>1, <2>5, <3>1, <3>7
  <2>6. QED BY <1>7, <2>3, <2>4, <2>5 DEF AddQuestion, AddReply
<1>8. ASSUME NEW s \in Slots, PersistProfile(s) \/ Recount(s)
      PROVE  Serial' /\ UNCHANGED <<count, summary>> /\ (profile' >= profile \/ overlapped)
  <2>1. /\ UNCHANGED <<count, summary, overlapped, missed>> /\ turn[s].at \in {"profile", "recount"}
        /\ s \in Underway
    BY <1>8 DEF PersistProfile, Recount, Underway
  <2>2. ~overlapped => Solo(turn[s])
    BY <2>1 DEF Serial
  <2>3. profile' >= profile \/ overlapped
    BY <1>0, <1>8, <2>2 DEF PersistProfile, Recount, Solo, Conversed
  <2>4. ASSUME Proceed(s, "recount"), turn[s].at = "profile" PROVE Serial'
    <3>1. PICK t : t = [turn[s] EXCEPT !.at = "recount"]
      OBVIOUS
    <3>2. t.at = "recount" /\ t.window = turn[s].window /\ t.summary = turn[s].summary
          /\ t.own = turn[s].own
      BY <1>0, <3>1 DEF Exchange
    <3>3. ~overlapped => Solo(t)'
      BY <2>1, <2>2, <2>4, <3>2 DEF Solo
    <3>4. QED BY <2>1, <2>4, <3>1, <3>3, SerialMove DEF Proceed
  <2>5. ASSUME Proceed(s, "summarise"), turn[s].at = "recount", should_summarise PROVE Serial'
    <3>1. PICK t : t = [turn[s] EXCEPT !.at = "summarise"]
      OBVIOUS
    <3>2. t.at = "summarise" /\ t.window = turn[s].window /\ t.summary = turn[s].summary
          /\ t.own = turn[s].own
      BY <1>0, <3>1 DEF Exchange
    <3>3. ~overlapped => Solo(t)'
      BY <2>1, <2>2, <2>5, <3>2 DEF Solo, should_summarise
    <3>4. QED BY <2>1, <2>5, <3>1, <3>3, SerialMove DEF Proceed
  <2>6. ASSUME Proceed(s, "done") PROVE Serial'
    BY <2>1, <2>6, SerialEnd
  <2>7. QED BY <1>8, <2>1, <2>3, <2>4, <2>5, <2>6 DEF PersistProfile, Recount, GivesUp
<1>9. ASSUME NEW s \in Slots, Summarise(s)
      PROVE  Serial' /\ UNCHANGED <<count, profile, overlapped>> /\ (summary \subseteq summary' \/ overlapped)
  <2>1. /\ UNCHANGED <<count, profile, overlapped>> /\ turn[s].at = "summarise" /\ s \in Underway
        /\ Proceed(s, "done")
    BY <1>9 DEF Summarise, Underway
  <2>2. ~overlapped => Solo(turn[s])
    BY <2>1 DEF Serial
  <2>3. CASE UNCHANGED <<summary, missed>>
    BY <2>1, <2>3, SerialEnd
  <2>4. CASE summary' = turn[s].summary \cup turn[s].window \cup turn[s].own /\ missed' = Caught
    <3>1. ASSUME ~overlapped PROVE Covers(count)' /\ summary \subseteq summary'
      <4>1. /\ turn[s].own = {count - 1, count} /\ count >= 2 /\ turn[s].window = Last(count - 2)
            /\ turn[s].summary = summary /\ count > 2 * MemorySpan /\ count % SummaryEvery = 0
        BY <2>1, <2>2, <3>1 DEF Solo, should_summarise
      <4>2. count \in Nat /\ count \in summary' /\ summary \subseteq summary'
        BY <1>0, <2>4, <4>1 DEF Conversed
      <4>3. \A i \in summary' : i <= count
        BY <1>0, <2>4 DEF InThread, Conversed
      <4>4. \A i \in Last(count) : i \in summary'
        BY <2>4, <4>1, <4>2 DEF Last
      <4>5. missed' \in {0, 2}
        BY <2>4 DEF Caught
      <4>6. QED BY <2>1, <4>1, <4>2, <4>3, <4>4, <4>5 DEF Covers
    <3>2. PICK t : t = [turn[s] EXCEPT !.at = "done"]
      OBVIOUS
    <3>3. t.at = "done"
      BY <1>0, <3>2 DEF Exchange
    <3>4. Solo(t)' /\ turn' = [turn EXCEPT ![s] = t]
      BY <2>1, <3>2, <3>3 DEF Solo, Proceed
    <3>5. count \in Nat /\ count' = count
      BY <1>0, <2>1 DEF Conversed
    <3>6. ~overlapped => \E c \in Nat : Covers(c)'
      BY <3>1, <3>5 DEF Covers
    <3>7. QED BY <2>1, <3>1, <3>4, <3>6, SerialStep
  <2>5. QED BY <1>9, <2>1, <2>3, <2>4 DEF Summarise
<1>10. ASSUME NEW s \in Slots, EndTurn(s) \/ Leave(s)
       PROVE  Serial' /\ UNCHANGED <<count, summary, profile>>
  BY <1>3, <1>10 DEF EndTurn, Leave
<1>11. \A s \in Slots : AddQuestion(s) \/ AddReply(s) \/ Summarise(s) => UNCHANGED overlapped
  BY DEF AddQuestion, AddReply, Summarise
<1>12. QED BY <1>1, <1>2, <1>4, <1>7, <1>8, <1>9, <1>10, <1>11, <1>b, <1>c DEF ChatNext, TurnStep

\* One turn after the other, a thread that has a summary loses no message a turn could see, and
\* no turn replaces the buyer's newer statement by an older one.
THEOREM ThreadsRemember ==
    ASSUME SummaryEvery <= MemorySpan
    PROVE  ChatSpec => ThreadRemembers
<1>1. Thread /\ Serial /\ [ChatNext]_chatVars => Serial'
  BY NextSerial
<1>2. Thread /\ Serial /\ [ChatNext]_chatVars =>
        [summary # {} /\ ~overlapped' /\ missed' < 2 => Remembered \subseteq Remembered']_chatVars
  BY NextSerial
<1>3. Thread /\ Serial /\ [ChatNext]_chatVars => [profile' >= profile \/ overlapped]_chatVars
  BY NextSerial
<1>4. QED BY <1>1, <1>2, <1>3, InitThread, NextThread, InitSerial, PTL
          DEF ChatSpec, ThreadRemembers, NothingForgotten, ProfileMovesForward

-----------------------------------------------------------------------------
\* AgentTurn: the answer of a turn is made from what its nodes left.

HIDE ChatAssumption
USE AgentAssumption

-----------------------------------------------------------------------------
(* The turn: how far it is bounds what it has done *)

Early == {"idle", "load_memory", "guard", "classify", "rewrite_query", "retrieve",
           "grade_context", "call_tools"}

\* The loops so far, and the calls of the model that they and the node allow.
Bounded(a) ==
    /\ a.iteration <= MAX_ITERATIONS
    /\ a.at \in {"idle", "load_memory", "guard", "classify"} => a.iteration = 0 /\ a.calls = 0
    /\ a.at \in {"rewrite_query", "retrieve"} => a.iteration < MAX_ITERATIONS
    /\ a.at = "grade_context" => a.iteration > 0
    /\ a.at \in {"idle", "load_memory", "guard", "classify", "grade_context"} => a.calls <= 2 * a.iteration
    /\ a.at \in {"rewrite_query", "call_tools"} => a.calls <= 2 * a.iteration + 1
    /\ a.at \in {"retrieve", "run_tools", "generate"} => a.calls <= 2 * a.iteration + 2
    /\ a.calls <= 2 * a.iteration + 3

\* The calls still planned, and the leads stored, are no more than a plan has.
Planned(a) ==
    /\ a.at \in Early => posted = 0 /\ a.results = {}
    /\ a.at # "run_tools" => a.plan = <<>>
    /\ posted + Len(a.plan) <= MaxPlanned

HonestSearch(r) ==
    r.tool = "search_listings" /\ r.ok =>
        /\ \A fails \in r.shown : fails \cap r.asked \subseteq {r.without}
        /\ r.shown = {} => \A f \in Filters : Matches(r.market, r.asked \ {f}) = {}

Honest(a) ==
    /\ \A r \in a.results : HonestSearch(r)
    /\ (\E r \in a.results : r.tool = "create_lead" /\ r.ok) => posted > 0
    /\ posted > 0 => a.message = "yes"
    /\ a.confirmed => a.message = "yes"

Answering ==
    /\ agent \in Agent /\ recall \in Profile /\ posted \in Nat /\ turns \in 0..MaxTurns
    /\ Bounded(agent) /\ Planned(agent) /\ Honest(agent)

LEMMA NoAgentTyped ==
    /\ NoAgent \in Agent /\ NoAgent.at = "idle" /\ NoAgent.plan = <<>> /\ NoAgent.results = {}
    /\ NoAgent.iteration = 0 /\ NoAgent.calls = 0 /\ ~NoAgent.confirmed
<1>1. NoProfile \in Profile
  BY DEF NoProfile, Profile
<1>2. <<>> \in Seq(Tools) /\ {} \in SUBSET ToolOutcome
  BY EmptySeq
<1>3. QED BY <1>1, <1>2 DEF NoAgent, Agent, Nodes, Messages, Routes

LEMMA InitAnswering == AgentInit => Answering
<1>. SUFFICES ASSUME AgentInit PROVE Answering
  OBVIOUS
<1>1. NoProfile \in Profile
  BY DEF NoProfile, Profile
<1>2. Bounded(agent)
  BY NoAgentTyped DEF AgentInit, Bounded, MAX_ITERATIONS
<1>3. Planned(agent) /\ Honest(agent)
  BY NoAgentTyped, EmptySeq DEF AgentInit, Planned, Honest, Early
<1>4. QED BY <1>1, <1>2, <1>3, NoAgentTyped DEF AgentInit, Answering

-----------------------------------------------------------------------------
(* What the search tool shows *)

Shows(w, market, asked) ==
    /\ w.without \in Filters \cup {"none"} /\ w.shown \in SUBSET SUBSET Filters
    /\ \A fails \in w.shown : fails \cap asked \subseteq {w.without}
    /\ w.shown = {} => \A f \in Filters : Matches(market, asked \ {f}) = {}

LEMMA WidenHonest ==
    ASSUME NEW market \in SUBSET SUBSET Filters, NEW asked \in SUBSET Filters,
           NEW w, w = Widen(market, asked)
    PROVE  Shows(w, market, asked)
<1>. USE DEF Shows
<1>1. PICK found : found = {i \in 1..3 : /\ Widening[i] \in asked
                                         /\ Matches(market, asked \ {Widening[i]}) # {}}
  OBVIOUS
<1>2. PICK first : first = CHOOSE i \in found : \A j \in found : i <= j
  OBVIOUS
<1>3. w = IF Matches(market, asked) # {} THEN [without |-> "none", shown |-> Matches(market, asked)]
          ELSE IF found = {} THEN [without |-> "none", shown |-> {}]
          ELSE [without |-> Widening[first], shown |-> Matches(market, asked \ {Widening[first]})]
  BY <1>1, <1>2 DEF Widen
<1>4. \A any : Matches(market, any) \in SUBSET SUBSET Filters
               /\ \A fails \in Matches(market, any) : fails \cap any = {}
  BY DEF Matches
<1>5. CASE Matches(market, asked) # {}
  BY <1>3, <1>4, <1>5
<1>6. CASE Matches(market, asked) = {} /\ found = {}
  <2>1. \A f \in Filters : f \notin asked => asked \ {f} = asked
    OBVIOUS
  <2>2. \A f \in Filters : \E i \in 1..3 : Widening[i] = f
    BY DEF Filters, Widening
  <2>3. \A f \in Filters : Matches(market, asked \ {f}) = {}
    BY <1>1, <1>6, <2>1, <2>2
  <2>4. w.without = "none" /\ w.shown = {}
    BY <1>3, <1>6
  <2>5. QED BY <2>3, <2>4
<1>7. CASE Matches(market, asked) = {} /\ found # {}
  <2>1. first \in found
    <3>1. \E i \in found : \A j \in found : i <= j
      <4>1. found \subseteq {1, 2, 3}
        BY <1>1
      <4>2. CASE 1 \in found
        BY <4>1, <4>2
      <4>3. CASE 1 \notin found /\ 2 \in found
        BY <4>1, <4>3
      <4>4. CASE 1 \notin found /\ 2 \notin found
        <5>1. \A i \in found : i = 3
          BY <4>1, <4>4
        <5>2. 3 \in found
          BY <1>7, <5>1
        <5>3. \A j \in found : 3 <= j
          BY <5>1
        <5>4. QED BY <5>2, <5>3
      <4>5. QED BY <4>2, <4>3, <4>4
    <3>2. QED BY <1>2, <3>1
  <2>2. w.without = Widening[first] /\ w.shown = Matches(market, asked \ {Widening[first]})
    BY <1>3, <1>7
  <2>3. w.without \in Filters /\ w.shown # {}
    BY <1>1, <2>1, <2>2 DEF Widening, Filters
  <2>4. \A fails \in w.shown : fails \cap (asked \ {w.without}) = {}
    BY <1>4, <2>2
  <2>5. \A fails \in w.shown : fails \cap asked \subseteq {w.without}
    BY <2>4
  <2>6. w.shown \in SUBSET SUBSET Filters
    BY <1>4, <2>2
  <2>7. QED BY <2>3, <2>5, <2>6
<1>8. QED BY <1>5, <1>6, <1>7

-----------------------------------------------------------------------------
(* The steps *)

\* A step before the tools: it has planned and reported nothing.
LEMMA EarlyStep ==
    ASSUME Answering, agent.at \in Early, NEW a \in Agent, agent' = a, a.at # "run_tools",
           a.at = "idle" \/ a.message = agent.message,
           a.plan = agent.plan, a.results = agent.results, posted' = posted, Bounded(a),
           turns' \in 0..MaxTurns, recall' \in Profile,
           a.confirmed => a.message = "yes"
    PROVE  Answering'
<1>1. posted = 0 /\ agent.results = {} /\ agent.plan = <<>>
  BY DEF Answering, Planned, Early
<1>2. Planned(a)' /\ Honest(a)'
  BY <1>1, EmptySeq DEF Planned, Honest
<1>3. QED BY <1>1, <1>2 DEF Answering, Bounded, Planned, Honest

\* A tool's result takes its call off the plan.
LEMMA ToolStep ==
    ASSUME Answering, AtNode("run_tools"), agent.plan # <<>>, NEW result \in ToolOutcome,
           Done(result), KeepThread, posted' \in {posted, posted + 1}, HonestSearch(result),
           result.tool = "create_lead" /\ result.ok => posted' > 0,
           posted' # posted => agent.message = "yes"
    PROVE  Answering'
<1>0. /\ agent \in Agent /\ posted \in Nat /\ agent.plan \in Seq(Tools)
      /\ Bounded(agent) /\ Planned(agent) /\ Honest(agent)
  BY DEF Answering, Agent
<1>1. PICK rest : rest = Tail(agent.plan)
  OBVIOUS
<1>2. rest \in Seq(Tools) /\ Len(rest) = Len(agent.plan) - 1 /\ Len(agent.plan) \in Nat
  BY <1>0, <1>1, HeadTailProperties
<1>3. PICK a : a = [agent EXCEPT !.plan = rest, !.results = @ \cup {result}]
  OBVIOUS
<1>4. /\ a \in Agent /\ a.at = "run_tools" /\ a.plan = rest /\ a.iteration = agent.iteration
      /\ a.results = agent.results \cup {result} /\ a.calls = agent.calls
      /\ a.message = agent.message /\ a.confirmed = agent.confirmed
  BY <1>0, <1>2, <1>3 DEF Agent, AtNode
<1>5. agent' = a
  BY <1>1, <1>3 DEF Done
<1>6. Bounded(a)
  BY <1>0, <1>4 DEF Bounded, AtNode
<1>7. Planned(a)'
  BY <1>0, <1>2, <1>4 DEF Planned, Early
<1>8. Honest(a)'
  BY <1>0, <1>4 DEF Honest
<1>9. posted' \in Nat
  BY <1>0
<1>10. QED BY <1>4, <1>5, <1>6, <1>7, <1>8, <1>9 DEF Answering, KeepThread, Bounded, Planned, Honest

LEMMA AskingKeeps ==
    ASSUME agent \in Agent, NEW x, x = Asking(agent) \/ x = agent
    PROVE  /\ x \in Agent /\ x.at = agent.at /\ x.plan = agent.plan /\ x.results = agent.results
           /\ x.iteration = agent.iteration /\ x.calls <= agent.calls + 1
           /\ x.message = agent.message /\ x.confirmed = agent.confirmed
<1>0. agent.calls \in Nat /\ agent.calls <= agent.calls + 1
  BY DEF Agent
<1>1. CASE x = agent
  BY <1>0, <1>1
<1>2. CASE x = Asking(agent)
  <2>1. PICK n \in Nat : n = agent.calls + 1
    BY <1>0
  <2>2. x = [agent EXCEPT !.calls = n]
    BY <1>2, <2>1 DEF Asking
  <2>3. x \in Agent /\ x.calls = n
    BY <2>1, <2>2 DEF Agent
  <2>4. /\ x.at = agent.at /\ x.plan = agent.plan /\ x.results = agent.results
        /\ x.iteration = agent.iteration /\ x.message = agent.message
        /\ x.confirmed = agent.confirmed
    BY <2>2 DEF Agent
  <2>5. QED BY <2>1, <2>3, <2>4
<1>3. QED BY <1>1, <1>2

LEMMA EarlyAnswering ==
    ASSUME Answering,
           \/ \E streams, online, history \in BOOLEAN, message \in Messages :
                 StartTurn(streams, online, message, history)
           \/ \E names \in BOOLEAN, filters \in Wishes : load_memory(names, filters)
           \/ \E b \in BOOLEAN : retrieve(b) \/ grade_context(b)
           \/ guard \/ rewrite_query
           \/ \E r \in Routes : classify(r)
    PROVE  Answering'
<1>0. /\ agent \in Agent /\ recall \in Profile /\ turns \in 0..MaxTurns /\ Bounded(agent)
      /\ (agent.confirmed => agent.message = "yes") /\ agent.calls \in Nat /\ agent.iteration \in Nat
  BY DEF Answering, Agent, Honest
<1>1. ASSUME NEW streams \in BOOLEAN, NEW online \in BOOLEAN, NEW history \in BOOLEAN,
             NEW message \in Messages, StartTurn(streams, online, message, history)
      PROVE  Answering'
  <2>1. PICK a : a = [NoAgent EXCEPT !.at = "load_memory", !.streams = streams, !.online = online,
                                     !.message = message, !.history = history]
    OBVIOUS
  <2>2. /\ a \in Agent /\ a.at = "load_memory" /\ a.plan = <<>> /\ a.results = {}
        /\ a.iteration = 0 /\ a.calls = 0 /\ ~a.confirmed
    BY <2>1, NoAgentTyped DEF Agent, Nodes
  <2>3. agent' = a /\ turns' \in 0..MaxTurns /\ posted' = 0 /\ UNCHANGED recall
    <3>1. agent' = a /\ posted' = 0 /\ UNCHANGED recall
      BY <1>1, <2>1 DEF StartTurn
    <3>2. turns < MaxTurns /\ turns' = turns + 1
      BY <1>1 DEF StartTurn
    <3>3. QED BY <1>0, <3>1, <3>2
  <2>4. Bounded(a)
    BY <2>2 DEF Bounded, MAX_ITERATIONS
  <2>5. Planned(a)' /\ Honest(a)'
    BY <2>2, <2>3, EmptySeq DEF Planned, Honest
  <2>6. QED BY <1>0, <2>2, <2>3, <2>4, <2>5 DEF Answering, Bounded, Planned, Honest
<1>2. ASSUME NEW names \in BOOLEAN, NEW filters \in Wishes, load_memory(names, filters)
      PROVE  Answering'
  <2>1. PICK p : p = [recall EXCEPT !.filters = @ \cup filters, !.price = @ \/ names]
    OBVIOUS
  <2>2. p \in Profile
    <3>1. recall.filters \cup filters \in SUBSET Filters /\ (recall.price \/ names) \in BOOLEAN
      BY <1>0 DEF Profile
    <3>2. QED BY <1>0, <2>1, <3>1 DEF Profile
  <2>3. PICK a : a = [agent EXCEPT !.at = "guard", !.confirmed = agent.message = "yes", !.profile = p]
    OBVIOUS
  <2>4. /\ a \in Agent /\ a.at = "guard" /\ a.plan = agent.plan /\ a.results = agent.results
        /\ a.iteration = agent.iteration /\ a.calls = agent.calls /\ a.message = agent.message
        /\ (a.confirmed <=> agent.message = "yes")
    BY <1>0, <2>2, <2>3 DEF Agent, Nodes
  <2>5. agent' = a
    BY <1>2, <2>1, <2>3 DEF load_memory
  <2>6. Bounded(a)
    BY <1>0, <1>2, <2>4 DEF Bounded, load_memory, AtNode
  <2>7. QED BY <1>0, <1>2, <2>4, <2>5, <2>6, EarlyStep DEF load_memory, KeepThread, AtNode, Early
<1>3. CASE guard
  <2>2. CASE agent.message \in {"empty", "blocked"}
    <3>1. PICK a : a = [agent EXCEPT !.at = "persist", !.answer = "canned"]
      OBVIOUS
    <3>2. /\ a \in Agent /\ a.at = "persist" /\ a.plan = agent.plan /\ a.results = agent.results
          /\ a.iteration = agent.iteration /\ a.calls = agent.calls /\ a.message = agent.message
          /\ a.confirmed = agent.confirmed
      BY <1>0, <3>1 DEF Agent, Nodes
    <3>3. Bounded(a)
      BY <1>0, <1>3, <3>2 DEF Bounded, guard, AtNode
    <3>4. agent' = a
      BY <1>3, <2>2, <3>1 DEF guard
    <3>5. QED BY <1>0, <1>3, <3>2, <3>3, <3>4, EarlyStep DEF guard, KeepThread, AtNode, Early
  <2>3. CASE agent.message \notin {"empty", "blocked"}
    <3>1. PICK a : a = [agent EXCEPT !.at = "classify"]
      OBVIOUS
    <3>2. /\ a \in Agent /\ a.at = "classify" /\ a.plan = agent.plan /\ a.results = agent.results
          /\ a.iteration = agent.iteration /\ a.calls = agent.calls /\ a.message = agent.message
          /\ a.confirmed = agent.confirmed
      BY <1>0, <3>1 DEF Agent, Nodes
    <3>3. Bounded(a)
      BY <1>0, <1>3, <3>2 DEF Bounded, guard, AtNode
    <3>4. agent' = a
      BY <1>3, <2>3, <3>1 DEF guard
    <3>5. QED BY <1>0, <1>3, <3>2, <3>3, <3>4, EarlyStep DEF guard, KeepThread, AtNode, Early
  <2>4. QED BY <2>2, <2>3
<1>4. ASSUME NEW r \in Routes, classify(r) PROVE Answering'
  <2>1. PICK x : x = IF agent.online THEN Asking(agent) ELSE agent
    OBVIOUS
  <2>2. /\ x \in Agent /\ x.plan = agent.plan /\ x.results = agent.results
        /\ x.iteration = agent.iteration /\ x.calls <= agent.calls + 1 /\ x.message = agent.message
        /\ x.confirmed = agent.confirmed
    BY <1>0, <2>1, AskingKeeps
  <2>3. PICK node \in {"generate", "rewrite_query", "call_tools"} : node = AfterRoute(x, r)
    BY DEF AfterRoute
  <2>4. PICK a : a = [x EXCEPT !.route = r, !.at = node]
    OBVIOUS
  <2>5. /\ a \in Agent /\ a.at = node /\ a.plan = x.plan /\ a.results = x.results
        /\ a.iteration = x.iteration /\ a.calls = x.calls /\ a.message = x.message
        /\ a.confirmed = x.confirmed
    BY <2>2, <2>4 DEF Agent, Nodes
  <2>6. a.calls \in Nat /\ agent' = a
    BY <1>4, <2>1, <2>3, <2>4, <2>5 DEF classify, Agent
  <2>7. Bounded(a)
    <3>1. agent.iteration = 0 /\ agent.calls = 0
      BY <1>0, <1>4 DEF Bounded, classify, AtNode
    <3>2. a.iteration = 0 /\ a.calls <= 1
      BY <2>2, <2>5, <3>1
    <3>3. a.at \in {"generate", "rewrite_query", "call_tools"}
      BY <2>3, <2>5
    <3>4. QED BY <2>6, <3>2, <3>3 DEF Bounded, MAX_ITERATIONS
  <2>8. QED BY <1>0, <1>4, <2>2, <2>3, <2>5, <2>6, <2>7, EarlyStep DEF classify, KeepThread, AtNode, Early
<1>5. CASE rewrite_query
  <2>1. PICK x : x = IF agent.online /\ agent.history THEN Asking(agent) ELSE agent
    OBVIOUS
  <2>2. /\ x \in Agent /\ x.plan = agent.plan /\ x.results = agent.results
        /\ x.iteration = agent.iteration /\ x.calls <= agent.calls + 1 /\ x.message = agent.message
        /\ x.confirmed = agent.confirmed
    BY <1>0, <2>1, AskingKeeps
  <2>3. PICK a : a = [x EXCEPT !.at = "retrieve"]
    OBVIOUS
  <2>4. /\ a \in Agent /\ a.at = "retrieve" /\ a.plan = x.plan /\ a.results = x.results
        /\ a.iteration = x.iteration /\ a.calls = x.calls /\ a.message = x.message
        /\ a.confirmed = x.confirmed
    BY <2>2, <2>3 DEF Agent, Nodes
  <2>5. a.calls \in Nat /\ agent' = a
    BY <1>5, <2>1, <2>3, <2>4 DEF rewrite_query, Agent
  <2>6. Bounded(a)
    BY <1>0, <1>5, <2>2, <2>4, <2>5 DEF Bounded, rewrite_query, AtNode
  <2>7. QED BY <1>0, <1>5, <2>2, <2>4, <2>5, <2>6, EarlyStep DEF rewrite_query, KeepThread, AtNode, Early
<1>6. ASSUME NEW b \in BOOLEAN, retrieve(b) PROVE Answering'
  <2>1. PICK a : a = [agent EXCEPT !.at = "grade_context", !.retrieved = b, !.iteration = @ + 1]
    OBVIOUS
  <2>2. /\ a \in Agent /\ a.at = "grade_context" /\ a.plan = agent.plan /\ a.results = agent.results
        /\ a.iteration = agent.iteration + 1 /\ a.calls = agent.calls /\ a.message = agent.message
        /\ a.confirmed = agent.confirmed
    <3>1. PICK n \in Nat : n = agent.iteration + 1
      BY <1>0
    <3>2. a = [agent EXCEPT !.at = "grade_context", !.retrieved = b, !.iteration = n]
      BY <2>1, <3>1
    <3>3. a \in Agent /\ a.at = "grade_context" /\ a.iteration = n
      BY <1>0, <3>1, <3>2 DEF Agent, Nodes
    <3>4. /\ a.plan = agent.plan /\ a.results = agent.results /\ a.calls = agent.calls
          /\ a.message = agent.message /\ a.confirmed = agent.confirmed
      BY <1>0, <3>2 DEF Agent
    <3>5. QED BY <3>1, <3>3, <3>4
  <2>3. Bounded(a)
    <3>1. agent.iteration \in 0..1 /\ agent.calls <= 2 * agent.iteration + 2
      <4>1. agent.at = "retrieve"
        BY <1>6 DEF retrieve, AtNode
      <4>2. agent.iteration < 2 /\ agent.calls <= 2 * agent.iteration + 2
        BY <1>0, <4>1 DEF Bounded, MAX_ITERATIONS
      <4>3. QED BY <1>0, <4>2
    <3>2. a.iteration \in 1..2 /\ a.calls \in Nat /\ a.calls <= 2 * a.iteration
      BY <1>0, <2>2, <3>1
    <3>3. QED BY <2>2, <3>2 DEF Bounded, MAX_ITERATIONS
  <2>4. agent' = a
    BY <1>6, <2>1 DEF retrieve
  <2>5. QED BY <1>0, <1>6, <2>2, <2>3, <2>4, EarlyStep DEF retrieve, KeepThread, AtNode, Early
<1>7. ASSUME NEW b \in BOOLEAN, grade_context(b) PROVE Answering'
  <2>0. PICK sufficient \in BOOLEAN :
           sufficient = (agent.retrieved /\ (~(agent.retrieved /\ agent.online) \/ b))
    OBVIOUS
  <2>1. PICK x : x = IF agent.retrieved /\ agent.online THEN Asking(agent) ELSE agent
    OBVIOUS
  <2>2. /\ x \in Agent /\ x.plan = agent.plan /\ x.results = agent.results
        /\ x.iteration = agent.iteration /\ x.calls <= agent.calls + 1 /\ x.message = agent.message
        /\ x.confirmed = agent.confirmed
    BY <1>0, <2>1, AskingKeeps
  <2>3. PICK node \in {"generate", "rewrite_query", "call_tools"} :
           /\ node = AfterGrade(x, sufficient)
           /\ node = "rewrite_query" => x.iteration < MAX_ITERATIONS
    BY Zenon DEF AfterGrade
  <2>4. PICK a : a = [x EXCEPT !.at = node, !.retrieved = FALSE]
    OBVIOUS
  <2>5. /\ a \in Agent /\ a.at = node /\ a.plan = x.plan /\ a.results = x.results
        /\ a.iteration = x.iteration /\ a.calls = x.calls /\ a.message = x.message
        /\ a.confirmed = x.confirmed
    BY <2>2, <2>4 DEF Agent, Nodes
  <2>6. a.calls \in Nat /\ agent' = a
    BY <1>7, <2>0, <2>1, <2>3, <2>4, <2>5 DEF grade_context, Agent
  <2>7. Bounded(a)
    <3>1. agent.iteration \in 1..2 /\ agent.calls <= 2 * agent.iteration
      <4>1. agent.at = "grade_context"
        BY <1>7 DEF grade_context, AtNode
      <4>2. agent.iteration > 0 /\ agent.iteration <= 2 /\ agent.calls <= 2 * agent.iteration
        BY <1>0, <4>1 DEF Bounded, MAX_ITERATIONS
      <4>3. QED BY <1>0, <4>2
    <3>2. a.iteration \in 1..2 /\ a.calls <= 2 * a.iteration + 1
      BY <1>0, <2>2, <2>5, <2>6, <3>1
    <3>3. a.at = "rewrite_query" => a.iteration < 2
      BY <2>2, <2>3, <2>5 DEF MAX_ITERATIONS
    <3>4. a.at \in {"generate", "rewrite_query", "call_tools"}
      BY <2>3, <2>5
    <3>5. QED BY <2>6, <3>2, <3>3, <3>4 DEF Bounded, MAX_ITERATIONS
  <2>8. QED BY <1>0, <1>7, <2>2, <2>3, <2>5, <2>6, <2>7, EarlyStep
            DEF grade_context, KeepThread, AtNode, Early
<1>8. QED BY <1>1, <1>2, <1>3, <1>4, <1>5, <1>6, <1>7

\* The plan the turn will run has no more calls than a plan may have.
LEMMA PlanAnswering ==
    ASSUME Answering, NEW n \in 0..MaxPlanned, NEW plan \in [1..n -> Tools], PlanToolCalls(plan)
    PROVE  Answering'
<1>0. /\ agent \in Agent /\ recall \in Profile /\ turns \in 0..MaxTurns /\ Bounded(agent)
      /\ (agent.confirmed => agent.message = "yes") /\ agent.calls \in Nat /\ agent.iteration \in Nat
      /\ posted = 0 /\ agent.results = {} /\ agent.at = "call_tools" /\ agent.profile \in Profile
  BY DEF Answering, Agent, Honest, Planned, PlanToolCalls, AtNode, Early
<1>1. PICK x : x = IF agent.online THEN Asking(agent) ELSE agent
  OBVIOUS
<1>2. /\ x \in Agent /\ x.results = agent.results
      /\ x.iteration = agent.iteration /\ x.calls <= agent.calls + 1 /\ x.message = agent.message
      /\ x.confirmed = agent.confirmed
  BY <1>0, <1>1, AskingKeeps
<1>3. PICK chosen : chosen = IF agent.online /\ plan # <<>> THEN plan ELSE DefaultToolCalls(agent)
  OBVIOUS
<1>4. chosen \in Seq(Tools) /\ Len(chosen) <= MaxPlanned
  <2>1. plan \in Seq(Tools) /\ Len(plan) <= MaxPlanned
    OBVIOUS
  <2>2. DefaultToolCalls(agent) \in {<<"search_listings">>, <<"calculate_mortgage">>, <<"web_search">>,
                                     <<"escalate_to_human">>, <<>>}
    BY DEF DefaultToolCalls
  <2>3. DefaultToolCalls(agent) \in Seq(Tools) /\ Len(DefaultToolCalls(agent)) <= 1
    <3>1. \A tool \in Tools : <<tool>> \in Seq(Tools) /\ Len(<<tool>>) = 1
      OBVIOUS
    <3>2. <<>> \in Seq(Tools) /\ Len(<<>>) = 0
      BY EmptySeq
    <3>3. DefaultToolCalls(agent) = <<>> \/ \E tool \in Tools : DefaultToolCalls(agent) = <<tool>>
      BY <2>2 DEF Tools
    <3>4. CASE DefaultToolCalls(agent) = <<>>
      BY <3>2, <3>4
    <3>5. ASSUME NEW tool \in Tools, DefaultToolCalls(agent) = <<tool>>
          PROVE  DefaultToolCalls(agent) \in Seq(Tools) /\ Len(DefaultToolCalls(agent)) <= 1
      BY <3>1, <3>5
    <3>6. QED BY <3>3, <3>4, <3>5
  <2>4. DefaultToolCalls(agent) \in Seq(Tools) /\ Len(DefaultToolCalls(agent)) <= MaxPlanned
    BY <2>3
  <2>5. QED BY <1>3, <2>1, <2>4
<1>5. PICK p : p = [x.profile EXCEPT !.calculated = \E i \in DOMAIN chosen : chosen[i] = "calculate_mortgage"]
  OBVIOUS
<1>6. p \in Profile
  BY <1>2, <1>5 DEF Agent, Profile
<1>7. PICK a : a = [x EXCEPT !.at = "run_tools", !.plan = chosen, !.profile = p]
  OBVIOUS
<1>8. /\ a \in Agent /\ a.at = "run_tools" /\ a.plan = chosen /\ a.results = x.results
      /\ a.iteration = x.iteration /\ a.calls = x.calls /\ a.message = x.message
      /\ a.confirmed = x.confirmed
  BY <1>2, <1>4, <1>6, <1>7 DEF Agent, Nodes
<1>9. agent' = a
  BY <1>1, <1>3, <1>5, <1>7 DEF PlanToolCalls
<1>10. Bounded(a)
  <2>1. agent.iteration \in 0..2 /\ agent.calls <= 2 * agent.iteration + 1
    BY <1>0 DEF Bounded, MAX_ITERATIONS
  <2>2. a.calls \in Nat /\ a.iteration \in 0..2 /\ a.calls <= 2 * a.iteration + 2
    BY <1>0, <1>2, <1>8, <2>1 DEF Agent
  <2>3. QED BY <1>8, <2>2 DEF Bounded, MAX_ITERATIONS
<1>11. posted' = 0 /\ UNCHANGED <<recall, turns>>
  BY <1>0 DEF PlanToolCalls, KeepThread
<1>12. Planned(a)'
  BY <1>4, <1>8, <1>11, LenProperties DEF Planned, Early
<1>13. Honest(a)'
  BY <1>0, <1>2, <1>8, <1>11 DEF Honest
<1>14. QED BY <1>0, <1>8, <1>9, <1>10, <1>11, <1>12, <1>13 DEF Answering, Bounded, Planned, Honest

LEMMA PlainTyped ==
    ASSUME NEW tool \in Tools, NEW ok \in BOOLEAN, tool # "search_listings" \/ ~ok
    PROVE  /\ Plain(tool, ok) \in ToolOutcome /\ HonestSearch(Plain(tool, ok))
           /\ Plain(tool, ok).tool = tool /\ Plain(tool, ok).ok = ok
BY DEF Plain, ToolOutcome, HonestSearch

LEMMA SearchAnswering ==
    ASSUME Answering, NEW market \in Markets, NEW asked \in Wishes, search_listings(market, asked)
    PROVE  Answering'
<1>1. market \in SUBSET SUBSET Filters /\ asked \in SUBSET Filters
  OBVIOUS
<1>2. AtNode("run_tools") /\ agent.plan # <<>> /\ KeepThread /\ posted' = posted
  BY DEF search_listings, Due
<1>3. PICK ok \in BOOLEAN :
         IF ~ok THEN Done(Plain("search_listings", FALSE))
         ELSE LET w == Widen(market, asked)
              IN  Done([tool |-> "search_listings", ok |-> TRUE, asked |-> asked,
                        market |-> market, without |-> w.without, shown |-> w.shown])
  BY DEF search_listings, MayBreak
<1>4. CASE ~ok
  <2>1. PICK result : result = Plain("search_listings", FALSE)
    OBVIOUS
  <2>2. result \in ToolOutcome /\ HonestSearch(result) /\ result.tool = "search_listings"
    BY <2>1, PlainTyped DEF Tools
  <2>3. Done(result)
    BY <1>3, <1>4, <2>1
  <2>4. QED BY <1>2, <2>2, <2>3, ToolStep
<1>5. CASE ok
  <2>1. PICK w : w = Widen(market, asked)
    OBVIOUS
  <2>2. Shows(w, market, asked)
    BY <1>1, <2>1, WidenHonest
  <2>3. PICK result : result = [tool |-> "search_listings", ok |-> TRUE, asked |-> asked,
                                market |-> market, without |-> w.without, shown |-> w.shown]
    OBVIOUS
  <2>4. result \in ToolOutcome /\ result.tool = "search_listings"
    BY <1>1, <2>2, <2>3 DEF ToolOutcome, Tools, Shows
  <2>5. HonestSearch(result)
    BY <2>2, <2>3 DEF HonestSearch, Shows
  <2>6. Done(result)
    BY <1>3, <1>5, <2>1, <2>3
  <2>7. QED BY <1>2, <2>4, <2>5, <2>6, ToolStep
<1>6. QED BY <1>4, <1>5

LEMMA ToolAnswering ==
    ASSUME Answering,
           (\E tool \in Tools : ask_service(tool)) \/ web_search \/ escalate_to_human \/ create_lead
    PROVE  Answering'
<1>1. ASSUME NEW tool \in Tools, NEW ok \in BOOLEAN, tool # "search_listings",
             Due(tool), Done(Plain(tool, ok)), KeepThread, posted' \in {posted, posted + 1},
             tool = "create_lead" /\ ok => posted' > 0, posted' # posted => agent.message = "yes"
      PROVE  Answering'
  <2>1. PICK result : result = Plain(tool, ok)
    OBVIOUS
  <2>2. result \in ToolOutcome /\ HonestSearch(result) /\ result.tool = tool /\ result.ok = ok
    BY <1>1, <2>1, PlainTyped
  <2>3. AtNode("run_tools") /\ agent.plan # <<>>
    BY <1>1 DEF Due
  <2>4. QED BY <1>1, <2>1, <2>2, <2>3, ToolStep
<1>2. \A b \in MayBreak : b \in BOOLEAN
  BY DEF MayBreak
<1>3. ASSUME NEW tool \in Tools, ask_service(tool) PROVE Answering'
  <2>1. PICK ok \in BOOLEAN : Done(Plain(tool, ok))
    BY <1>2, <1>3 DEF ask_service
  <2>2. QED BY <1>1, <1>3, <2>1 DEF ask_service
<1>4. CASE web_search
  <2>1. PICK ok \in BOOLEAN : Done(Plain("web_search", ok))
    BY <1>2, <1>4 DEF web_search
  <2>2. QED BY <1>1, <1>4, <2>1 DEF web_search, Tools
<1>5. CASE escalate_to_human
  BY <1>1, <1>5 DEF escalate_to_human, Tools
<1>6. CASE create_lead
  <2>0. posted \in Nat /\ (agent.confirmed => agent.message = "yes")
    BY DEF Answering, Honest
  <2>1. PICK ok \in BOOLEAN :
           /\ Done(Plain("create_lead", ok)) /\ posted' \in {posted, posted + 1}
           /\ (ok => posted' > 0) /\ (posted' # posted => agent.confirmed)
    <3>0. posted <= posted + 1 /\ posted + 1 > 0 /\ posted # posted + 1
      BY <2>0
    <3>1. CASE ~agent.confirmed
      <4>1. Done(Plain("create_lead", FALSE)) /\ posted' = posted
        BY <1>6, <3>1 DEF create_lead
      <4>2. QED BY <4>1
    <3>2. CASE agent.confirmed /\ Done(Plain("create_lead", TRUE)) /\ posted' = posted + 1
      BY <3>0, <3>2
    <3>3. CASE agent.confirmed /\ Done(Plain("create_lead", FALSE)) /\ posted' \in {posted, posted + 1}
      BY <3>0, <3>3
    <3>4. QED BY <1>6, <3>1, <3>2, <3>3 DEF create_lead
  <2>2. QED BY <1>1, <1>6, <2>0, <2>1 DEF create_lead, Tools
<1>7. QED BY <1>3, <1>4, <1>5, <1>6

\* The step is over, and reports what it reported.
LEMMA LateStep ==
    ASSUME Answering, agent.at \notin Early, agent.at # "run_tools" \/ agent.plan = <<>>,
           NEW a \in Agent, agent' = a, a.at \in {"generate", "persist"},
           a.message = agent.message, a.plan = agent.plan, a.results = agent.results,
           a.confirmed = agent.confirmed,
           posted' = posted, Bounded(a), KeepThread
    PROVE  Answering'
<1>1. agent.plan = <<>> /\ posted \in Nat /\ Planned(agent) /\ Honest(agent)
  BY DEF Answering, Planned
<1>2. Planned(a)'
  BY <1>1 DEF Planned, Early
<1>3. Honest(a)'
  BY <1>1 DEF Honest
<1>4. QED BY <1>1, <1>2, <1>3 DEF Answering, Bounded, Planned, Honest, KeepThread

LEMMA LateAnswering ==
    ASSUME Answering, ToolsDone \/ generate \/ persist \/ Abandon
    PROVE  Answering'
<1>0. /\ agent \in Agent /\ recall \in Profile /\ turns \in 0..MaxTurns /\ Bounded(agent)
      /\ agent.calls \in Nat /\ agent.iteration \in Nat /\ agent.profile \in Profile
  BY DEF Answering, Agent
<1>1. CASE ToolsDone
  <2>1. PICK a : a = [agent EXCEPT !.at = "generate"]
    OBVIOUS
  <2>2. /\ a \in Agent /\ a.at = "generate" /\ a.plan = agent.plan /\ a.results = agent.results
        /\ a.iteration = agent.iteration /\ a.calls = agent.calls /\ a.message = agent.message
        /\ a.confirmed = agent.confirmed
    BY <1>0, <2>1 DEF Agent, Nodes
  <2>3. Bounded(a)
    BY <1>0, <1>1, <2>2 DEF Bounded, ToolsDone, AtNode
  <2>4. QED BY <1>1, <2>1, <2>2, <2>3, LateStep DEF ToolsDone, GoTo, AtNode, Early
<1>2. CASE generate
  <2>1. PICK x : x = IF agent.online THEN Asking(agent) ELSE agent
    OBVIOUS
  <2>2. /\ x \in Agent /\ x.plan = agent.plan /\ x.results = agent.results
        /\ x.iteration = agent.iteration /\ x.calls <= agent.calls + 1 /\ x.message = agent.message
        /\ x.confirmed = agent.confirmed
    BY <1>0, <2>1, AskingKeeps
  <2>3. PICK answer \in {"full", "partial", "apology"} :
           agent' = [x EXCEPT !.at = "persist", !.answer = answer]
    BY <1>2, <2>1 DEF generate
  <2>4. PICK a : a = [x EXCEPT !.at = "persist", !.answer = answer]
    OBVIOUS
  <2>5. /\ a \in Agent /\ a.at = "persist" /\ a.plan = agent.plan /\ a.results = agent.results
        /\ a.iteration = agent.iteration /\ a.calls = x.calls /\ a.message = agent.message
        /\ a.confirmed = agent.confirmed
    BY <2>2, <2>4 DEF Agent, Nodes
  <2>6. Bounded(a)
    <3>1. agent.iteration \in 0..2 /\ agent.calls <= 2 * agent.iteration + 2
      <4>1. agent.at = "generate"
        BY <1>2 DEF generate, AtNode
      <4>2. agent.iteration <= 2 /\ agent.calls <= 2 * agent.iteration + 2
        BY <1>0, <4>1 DEF Bounded, MAX_ITERATIONS
      <4>3. QED BY <1>0, <4>2
    <3>2. a.calls \in Nat /\ a.iteration \in 0..2 /\ a.calls <= 2 * a.iteration + 3
      BY <1>0, <2>2, <2>5, <3>1 DEF Agent
    <3>3. QED BY <2>5, <3>2 DEF Bounded, MAX_ITERATIONS
  <2>7. QED BY <1>2, <2>3, <2>4, <2>5, <2>6, LateStep DEF generate, AtNode, Early
<1>3. ASSUME agent' = NoAgent, posted' = 0, recall' \in Profile, UNCHANGED turns PROVE Answering'
  <2>1. PICK a : a = NoAgent
    OBVIOUS
  <2>2. Bounded(a)
    BY <2>1, NoAgentTyped DEF Bounded, MAX_ITERATIONS
  <2>3. Planned(a)' /\ Honest(a)'
    BY <1>3, <2>1, NoAgentTyped, EmptySeq DEF Planned, Honest
  <2>4. QED BY <1>0, <1>3, <2>1, <2>2, <2>3, NoAgentTyped DEF Answering, Bounded, Planned, Honest
<1>4. CASE persist
  BY <1>0, <1>3, <1>4 DEF persist
<1>5. CASE Abandon
  BY <1>0, <1>3, <1>5 DEF Abandon
<1>6. QED BY <1>1, <1>2, <1>4, <1>5

LEMMA StepAnswering == Answering /\ [AgentNext]_agentVars => Answering'
<1>. SUFFICES ASSUME Answering, [AgentNext]_agentVars PROVE Answering'
  OBVIOUS
<1>1. CASE UNCHANGED agentVars
  BY <1>1 DEF Answering, Bounded, Planned, Honest, agentVars
<1>2. CASE AgentNext
  BY <1>2, EarlyAnswering, PlanAnswering, SearchAnswering, ToolAnswering, LateAnswering DEF AgentNext
<1>3. QED BY <1>1, <1>2

LEMMA AlwaysAnswering == AgentSpec => []Answering
BY InitAnswering, StepAnswering, PTL DEF AgentSpec

\* However the router, the judge and the planner answer, a turn asks the model at most
\* seven times: its values stay in their types.
THEOREM AgentTypes == AgentSpec => []AgentTypeOK
<1>1. Answering => AgentTypeOK
  <2>. SUFFICES ASSUME Answering PROVE AgentTypeOK
    OBVIOUS
  <2>1. agent.calls \in Nat /\ agent.iteration \in 0..2 /\ agent.plan \in Seq(Tools)
    BY DEF Answering, Bounded, Agent, MAX_ITERATIONS
  <2>2. agent.calls <= 2 * MAX_ITERATIONS + 3
    BY <2>1 DEF Answering, Bounded, MAX_ITERATIONS
  <2>3. posted \in 0..MaxPlanned
    BY <2>1, LenProperties DEF Answering, Planned
  <2>4. QED BY <2>2, <2>3 DEF Answering, AgentTypeOK
<1>2. QED BY <1>1, AlwaysAnswering, PTL

\* What the tools tell the model is so, whatever the market has and however the search
\* was widened, and no lead is stored in a turn that was not a confirmation.
THEOREM ToolsStayHonest == AgentSpec => []ToolsAreHonest
<1>1. Answering => ToolsAreHonest
  BY DEF Answering, Honest, HonestSearch, ToolsAreHonest
<1>2. QED BY <1>1, AlwaysAnswering, PTL
=============================================================================
