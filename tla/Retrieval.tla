------------------------------ MODULE Retrieval ------------------------------
(***************************************************************************)
(* rag-svc finds what it answers from: one flush of an ingestion, which    *)
(* embeds the texts of its documents in batches sent together and stores   *)
(* them one by one, and one hybrid search, whose two branches run side by  *)
(* side, are fused by rank and are reranked.  They share the corpus and    *)
(* the embedding provider, which may be one that does not take the         *)
(* `dimensions` it is sent.                                                *)
(*                                                                         *)
(* A document has one chunk, named by the version of the text that it      *)
(* holds, and a vector is named by the text that it was made from.  What   *)
(* matches, and how near, is the provider's and Postgres's to say: any     *)
(* order.  The filters are a window of prices, from the question, and the  *)
(* one property type for those that are equal or not.  Offline providers,  *)
(* whose calls never fail, and the runs around a flush (IngestionRuns) are *)
(* left out.                                                               *)
(***************************************************************************)
EXTENDS Integers, Sequences, FiniteSets

CONSTANTS
    Loaded,            \* the documents in the loader's order
    Facts(_, _),       \* the metadata of a document at a version
    Queried,         \* what is said of prices and of the type in them
    Words(_),          \* the documents that a question's words occur in
    Missing,
    BatchSize,         \* MAX_BATCH_SIZE
    Concurrency,       \* rag_embedding_concurrency
    MaxTries,          \* rag_http_max_retries
    TopK, TopN,        \* rag_top_k, rag_rerank_top_n
    Damping,           \* rag_rrf_k
    MaxVersions,       \* the versions there are of each document
    MaxSearches,       \* bounds the searches
    ProvidersFail      \* calls to providers and to Postgres may fail

Docs == {Loaded[i] : i \in DOMAIN Loaded}

\* A figure as it is written: a number, the unit after it, and whether square metres follow.
Figures == [num : Nat, unit : {"", "k", "m"}, sqm : BOOLEAN]

ASSUME RetrievalAssumption ==
    /\ Loaded \in Seq(Docs)
    /\ Missing \notin Nat
    /\ {BatchSize, Concurrency, MaxTries, TopK, TopN, Damping} \subseteq Nat \ {0}
    /\ TopK <= Damping + 1
    /\ MaxVersions \in [Docs -> Nat \ {0}] /\ MaxSearches \in Nat
    /\ Missing \notin Docs /\ Missing \notin Figures
    /\ \A d \in Docs : \A v \in 1..MaxVersions[d] :
          Facts(d, v) \in [listing : BOOLEAN, price : Nat, type : STRING]
    /\ \A q \in Queried :
          /\ {q.low, q.high, q.budget} \subseteq Figures \cup {Missing}
          /\ {q.below, q.above} \subseteq Seq(Figures)
          /\ q.type \in STRING \cup {Missing}
          /\ Words(q) \subseteq Docs
    /\ ProvidersFail \in BOOLEAN

VARIABLES
    upstream,          \* the version of each document in its source
    corpus,            \* the chunk and the vector of each stored document
    takes,             \* the model takes the parameter `dimensions`
    sendDimensions,    \* _send_dimensions
    calls,              \* the calls to the embedding endpoint
    flush, search, searches,
    rewritten          \* history: the documents stored since the search began

retrievalVars == <<upstream, corpus, takes, sendDimensions, calls, flush, search, searches,
                   rewritten>>

Text(d, v) == [doc |-> d, version |-> v]
DocTexts == [doc : Docs \cup {Missing}, version : Nat]
Question == Text(Missing, 0)          \* the text of a query
Unstored == [chunk |-> Missing, vector |-> Missing]

\* The batch that a text of a sequence goes with, and the batches of a sequence.
Least(m, n) == IF m < n THEN m ELSE n
BatchOf(i) == (i - 1) \div BatchSize + 1
BatchesOf(texts) ==
    [b \in 1..BatchOf(Len(texts)) |->
        SubSeq(texts, (b - 1) * BatchSize + 1, Least(b * BatchSize, Len(texts)))]

\* The calls for the batches of a flush, and the one for the text of a query.
Batches == 1..BatchOf(Len(Loaded))
Query == 0
CallNames == Batches \cup {Query}

\* `because` is history: why a call would fail.
IdleCall == [at |-> "idle", texts |-> <<>>, with |-> FALSE, tries |-> 0, vectors |-> <<>>,
             because |-> "nothing"]
NewCall(texts) == [IdleCall EXCEPT !.at = "queued", !.texts = texts]
NoFlush  == [at |-> "idle", texts |-> <<>>, vectors |-> <<>>, next |-> 1]
NoSearch == [at |-> "idle", question |-> Missing, vector |-> Missing, text |-> Missing,
             candidates |-> <<>>, answer |-> <<>>]

CallStates ==
    [at : {"idle", "queued", "sent", "again", "done", "failed"}, texts : Seq(DocTexts),
     with : BOOLEAN, tries : Nat, vectors : Seq(DocTexts),
     because : {"nothing", "provider", "another"}]

FlushOK ==
    /\ flush \in [at : {"idle", "embed", "store"}, texts : Seq(DocTexts), vectors : Seq(DocTexts),
                  next : Nat \ {0}]
    /\ flush.at # "idle" => flush.next \in DOMAIN flush.texts

CorpusOK == corpus \in [Docs -> [chunk : DocTexts \cup {Missing}, vector : DocTexts \cup {Missing}]]

RetrievalTypeOK ==
    /\ \A d \in Docs :
          /\ upstream[d] \in 1..MaxVersions[d]
          /\ corpus[d] = Unstored \/ corpus[d].chunk \in {Text(d, v) : v \in 1..upstream[d]}
    /\ CorpusOK
    /\ {takes, sendDimensions} \subseteq BOOLEAN
    /\ calls \in [CallNames -> CallStates]
    /\ FlushOK
    /\ search.at \in {"idle", "branches", "rerank", "answered"}
    /\ searches \in 0..MaxSearches
    /\ rewritten \subseteq Docs

RetrievalInit ==
    /\ upstream = [d \in Docs |-> 1]
    /\ corpus = [d \in Docs |-> Unstored]
    /\ takes \in BOOLEAN
    /\ sendDimensions = TRUE
    /\ calls = [c \in CallNames |-> IdleCall]
    /\ flush = NoFlush /\ search = NoSearch /\ searches = 0
    /\ rewritten = {}

-----------------------------------------------------------------------------
(* The question's prices *)

Multiplier(unit) == IF unit = "k" THEN 1000 ELSE IF unit = "m" THEN 1000000 ELSE 1
MinBarePrice == 100000     \* _MIN_BARE_PRICE

\* _to_amount: an area is not a price, and neither is a small bare number.
ToAmount(figure) ==
    LET amount == figure.num * Multiplier(figure.unit)
    IN  IF figure.sqm /\ figure.unit # "k" THEN Missing
        ELSE IF figure.unit = "" /\ amount < MinBarePrice THEN Missing
        ELSE IF amount > 0 THEN amount ELSE Missing

\* A keyword is looked for once: the first figure behind it counts.
First(figures) == IF figures = <<>> THEN Missing ELSE ToAmount(figures[1])

PriceWindow(min, max) ==
    IF min # Missing /\ max # Missing /\ min > max THEN [min |-> max, max |-> min]
    ELSE [min |-> min, max |-> max]

\* parse_price_range: a range whose ends are both prices, else bounds, else a budget.  The
\* lower end of a range borrows the unit of the upper one.
ParsePriceRange(q) ==
    LET whole == q.low # Missing /\ q.high # Missing
        high  == ToAmount(q.high)
        low   == ToAmount([q.low EXCEPT !.unit = IF @ = "" THEN q.high.unit ELSE @, !.sqm = FALSE])
        min   == First(q.above)
        max   == First(q.below)
    IN  IF whole /\ low # Missing /\ high # Missing THEN PriceWindow(low, high)
        ELSE IF min = Missing /\ max = Missing /\ q.budget # Missing
             THEN PriceWindow(Missing, ToAmount(q.budget))
        ELSE PriceWindow(min, max)

\* build_filter_sql: only listings are held to the filters.
Admits(q, facts) ==
    LET window == ParsePriceRange(q)
    IN  facts.listing =>
            /\ window.max # Missing => facts.price <= window.max
            /\ window.min # Missing => facts.price >= window.min
            /\ q.type # Missing => facts.type = q.type

-----------------------------------------------------------------------------
(* The embedding endpoint *)

\* The slots of a semaphore are a call's own; a query has one batch.
MaySend(c) ==
    c \in Batches => Cardinality({b \in Batches : calls[b].at \in {"sent", "again"}}) < Concurrency

SendBatch(c) ==
    /\ calls[c].at = "queued" /\ MaySend(c)
    /\ calls' = [calls EXCEPT ![c] = [@ EXCEPT !.at = "sent", !.with = sendDimensions]]
    /\ UNCHANGED <<upstream, corpus, takes, sendDimensions, flush, search, searches, rewritten>>

Waiting(c) == calls[c].at \in {"sent", "again"}
Refused(c) == Waiting(c) /\ calls[c].with /\ ~takes

\* Mutant: the payload keeps the parameter.
SameAgain(sent) == [sent EXCEPT !.at = "again", !.tries = 0]

\* The request once more, without the parameter.
SentAgain(sent) == [sent EXCEPT !.at = "again", !.tries = 0, !.with = FALSE]

\* The parameter is refused: the call is sent again without it, unless another call has
\* found that out since this one was sent.
RefuseDimensions(c) ==
    /\ Refused(c)
    /\ sendDimensions' = FALSE
    /\ calls' = [o \in CallNames |->
                   IF o = c THEN IF sendDimensions THEN SentAgain(calls[c])
                                 ELSE [calls[c] EXCEPT !.at = "failed"]
                   ELSE IF Refused(o) THEN [calls[o] EXCEPT !.because = "another"] ELSE calls[o]]
    /\ UNCHANGED <<upstream, corpus, takes, flush, search, searches, rewritten>>

\* Mutant: as they came.
AsTheyCame(response) == [i \in DOMAIN response |-> response[i].vector]

\* The items of a response name their texts by index.
InOrder(response) ==
    [i \in DOMAIN response |->
        response[CHOOSE j \in DOMAIN response : response[j].index = i].vector]

\* The responses to a batch: its items in any order.
Orders(n) == {f \in [1..n -> 1..n] : \A i \in 1..n : \E j \in 1..n : f[j] = i}
Responses(texts) ==
    {[i \in DOMAIN texts |-> [index |-> order[i], vector |-> texts[order[i]]]] :
        order \in Orders(Len(texts))}

Embed(c) ==
    /\ Waiting(c) /\ ~Refused(c)
    /\ \E response \in Responses(calls[c].texts) :
          calls' = [calls EXCEPT ![c] = [@ EXCEPT !.at = "done", !.vectors = InOrder(response)]]
    /\ UNCHANGED <<upstream, corpus, takes, sendDimensions, flush, search, searches, rewritten>>

\* A timeout, a 429 or a 5xx is tried again, a few times; what else goes wrong is not: a
\* request that is refused, a body that holds too few vectors.
Falter(c) ==
    /\ ProvidersFail /\ Waiting(c)
    /\ \/ /\ calls[c].tries + 1 < MaxTries
          /\ calls' = [calls EXCEPT ![c].tries = @ + 1]
       \/ calls' = [calls EXCEPT ![c] = [@ EXCEPT !.at = "failed", !.because = "provider"]]
    /\ UNCHANGED <<upstream, corpus, takes, sendDimensions, flush, search, searches, rewritten>>

-----------------------------------------------------------------------------
(* A flush *)

Revise(d) ==
    /\ upstream[d] < MaxVersions[d]
    /\ upstream' = [upstream EXCEPT ![d] = @ + 1]
    /\ UNCHANGED <<corpus, takes, sendDimensions, calls, flush, search, searches, rewritten>>

Changed(d) == corpus[d].chunk # Text(d, upstream[d])

\* embed_documents; the calls of a flush that failed may still be under way, and a new
\* flush then has to wait in this model.
StartFlush ==
    /\ flush.at = "idle"
    /\ \A b \in Batches : calls[b].at = "idle"
    /\ \E n \in 1..Len(Loaded) : \E pick \in [1..n -> DOMAIN Loaded] :
          /\ \A i, j \in 1..n : i < j => pick[i] < pick[j]
          /\ \A i \in 1..n : Changed(Loaded[pick[i]])
          /\ LET texts == [i \in 1..n |-> Text(Loaded[pick[i]], upstream[Loaded[pick[i]]])]
                 sent  == BatchesOf(texts)
             IN  /\ flush' = [NoFlush EXCEPT !.at = "embed", !.texts = texts]
                 /\ calls' = [c \in CallNames |->
                                IF c \in DOMAIN sent THEN NewCall(sent[c]) ELSE calls[c]]
    /\ UNCHANGED <<upstream, corpus, takes, sendDimensions, search, searches, rewritten>>

InFlush == 1..BatchOf(Len(flush.texts))

\* gather raises the first failure and the flush stores nothing; the other calls go on.
AbandonFlush ==
    /\ flush.at = "embed" /\ \E b \in InFlush : calls[b].at = "failed"
    /\ flush' = NoFlush
    /\ UNCHANGED <<upstream, corpus, takes, sendDimensions, calls, search, searches, rewritten>>

\* A call that nobody waits for any more.
Forget(b) ==
    /\ flush.at # "embed" /\ calls[b].at \in {"done", "failed"}
    /\ calls' = [calls EXCEPT ![b] = IdleCall]
    /\ UNCHANGED <<upstream, corpus, takes, sendDimensions, flush, search, searches, rewritten>>

\* gather keeps the order of the batches.
BeginStoring ==
    /\ flush.at = "embed" /\ \A b \in InFlush : calls[b].at = "done"
    /\ flush' = [flush EXCEPT !.at = "store",
                    !.vectors = [i \in DOMAIN flush.texts |->
                        calls[BatchOf(i)].vectors[i - (BatchOf(i) - 1) * BatchSize]]]
    /\ calls' = [c \in CallNames |-> IF c \in InFlush THEN IdleCall ELSE calls[c]]
    /\ UNCHANGED <<upstream, corpus, takes, sendDimensions, search, searches, rewritten>>

\* The rest of a flush, once a document is stored or not.
AfterDocument ==
    IF flush.next = Len(flush.texts) THEN flush' = NoFlush
    ELSE flush' = [flush EXCEPT !.next = @ + 1]

\* _persist: the document and its chunk, in one transaction.
StoreDocument ==
    /\ flush.at = "store"
    /\ LET t == flush.texts[flush.next]
       IN  /\ corpus' = [corpus EXCEPT ![t.doc] =
                            [chunk |-> t, vector |-> flush.vectors[flush.next]]]
           /\ rewritten' = IF search.at \in {"idle", "answered"} THEN rewritten
                           ELSE rewritten \cup {t.doc}
    /\ AfterDocument
    /\ UNCHANGED <<upstream, takes, sendDimensions, calls, search, searches>>

SkipDocument ==
    /\ ProvidersFail /\ flush.at = "store"
    /\ AfterDocument
    /\ UNCHANGED <<upstream, corpus, takes, sendDimensions, calls, search, searches, rewritten>>

-----------------------------------------------------------------------------
(* A search *)

AskFor(q) ==
    /\ search.at \in {"idle", "answered"} /\ searches < MaxSearches
    /\ searches' = searches + 1
    /\ search' = [NoSearch EXCEPT !.at = "branches", !.question = q]
    /\ calls' = [calls EXCEPT ![Query] = NewCall(<<Question>>)]
    /\ rewritten' = {}
    /\ UNCHANGED <<upstream, corpus, takes, sendDimensions, flush>>

\* The rank of a chunk in a branch, 0 where it is not.
Rank(chunk, rows) ==
    IF \E i \in DOMAIN rows : rows[i] = chunk
    THEN CHOOSE i \in DOMAIN rows : rows[i] = chunk ELSE 0

\* 1/(k+r) + 1/(k+s) as a fraction, where a rank of 0 adds nothing.
Part(r) == IF r = 0 THEN 1 ELSE Damping + r
Numerator(r, s) == (IF r = 0 THEN 0 ELSE Part(s)) + (IF s = 0 THEN 0 ELSE Part(r))
Denominator(r, s) == Part(r) * Part(s)
Higher(r, s, p, q) == Numerator(r, s) * Denominator(p, q) > Numerator(p, q) * Denominator(r, s)

Best(r, s) == IF r = 0 THEN s ELSE IF s = 0 \/ r < s THEN r ELSE s
\* Where a chunk is first met: among the vectors, and then among the texts.
Met(r, s) == IF r # 0 THEN r ELSE TopK + s

\* reciprocal_rank_fusion: the higher score, then the better rank, then the first met.
Before(r, s, p, q) ==
    IF Numerator(r, s) * Denominator(p, q) # Numerator(p, q) * Denominator(r, s)
    THEN Higher(r, s, p, q)
    ELSE \/ Best(r, s) < Best(p, q)
         \/ Best(r, s) = Best(p, q) /\ Met(r, s) < Met(p, q)

RowsOf(s) == {s[i] : i \in DOMAIN s}

Fuse(near, worded) ==
    LET found == RowsOf(near) \cup RowsOf(worded)
        Ahead(a, b) == Before(Rank(a, near), Rank(a, worded), Rank(b, near), Rank(b, worded))
    IN  [i \in 1..Cardinality(found) |->
            CHOOSE c \in found : Cardinality({o \in found : Ahead(o, c)}) = i - 1]

\* A branch has its rows; with the second one the two are fused.
Found(near, worded) ==
    search' = [search EXCEPT
        !.vector = near, !.text = worded,
        !.at = IF Missing \in {near, worded} THEN "branches"
               ELSE IF near = <<>> /\ worded = <<>> THEN "answered" ELSE "rerank",
        !.candidates = IF Missing \in {near, worded} THEN <<>> ELSE Fuse(near, worded)]

\* The first rows of any order of a set of chunks.
Rankings(chunks, size) ==
    {s \in [1..size -> chunks] : \A i, j \in 1..size : i # j => s[i] # s[j]}
Admitted == {corpus[d].chunk : d \in {e \in Docs :
                corpus[e] # Unstored /\ Admits(search.question, Facts(e, corpus[e].chunk.version))}}

SearchStays == UNCHANGED <<upstream, corpus, takes, sendDimensions, flush, searches, rewritten>>

\* The vectors near the question's: of the chunks there are now.
VectorSearch ==
    /\ search.at = "branches" /\ search.vector = Missing /\ calls[Query].at = "done"
    /\ \E near \in Rankings(Admitted, Least(TopK, Cardinality(Admitted))) :
          Found(near, search.text)
    /\ calls' = [calls EXCEPT ![Query] = IdleCall]
    /\ SearchStays

TextSearch ==
    /\ search.at = "branches" /\ search.text = Missing
    /\ LET hits == {c \in Admitted : c.doc \in Words(search.question)}
       IN  \E worded \in Rankings(hits, Least(TopK, Cardinality(hits))) :
              Found(search.vector, worded)
    /\ UNCHANGED calls /\ SearchStays

\* A branch that fails has no rows.
LoseVectors ==
    /\ search.at = "branches" /\ search.vector = Missing
    /\ \/ calls[Query].at = "failed"
       \/ calls[Query].at = "done" /\ ProvidersFail
    /\ Found(<<>>, search.text)
    /\ calls' = [calls EXCEPT ![Query] = IdleCall]
    /\ SearchStays

LoseTexts ==
    /\ ProvidersFail /\ search.at = "branches" /\ search.text = Missing
    /\ Found(search.vector, <<>>)
    /\ UNCHANGED calls /\ SearchStays

\* What the reranker chose, in its order, and then the others in theirs.
WithTail(candidates, chosen) ==
    LET rest == {i \in DOMAIN candidates : \A j \in DOMAIN chosen : chosen[j] # i}
        Nth(n) == CHOOSE i \in rest : Cardinality({k \in rest : k < i}) = n - 1
    IN  [i \in DOMAIN chosen |-> candidates[chosen[i]]] \o
        [n \in 1..Cardinality(rest) |-> candidates[Nth(n)]]

\* The reranker answers with some of the candidates, each once; where it fails or has nothing to say
\* BM25 answers with as many as were asked for.
Rerank ==
    /\ search.at = "rerank"
    /\ LET n == Len(search.candidates)
       IN  \E size \in 1..Least(TopN, n) : \E chosen \in Rankings(1..n, size) :
              LET order == WithTail(search.candidates, chosen)
              IN  search' = [search EXCEPT !.at = "answered",
                                !.answer = SubSeq(order, 1, Least(TopN, Len(order)))]
    /\ UNCHANGED calls /\ SearchStays

-----------------------------------------------------------------------------
RetrievalNext ==
    \/ \E c \in CallNames : SendBatch(c) \/ RefuseDimensions(c) \/ Embed(c) \/ Falter(c)
    \/ \E d \in Docs : Revise(d)
    \/ StartFlush \/ AbandonFlush \/ BeginStoring \/ StoreDocument \/ SkipDocument
    \/ \E b \in Batches : Forget(b)
    \/ \E q \in Queried : AskFor(q)
    \/ VectorSearch \/ TextSearch \/ LoseVectors \/ LoseTexts \/ Rerank

RetrievalSpec == RetrievalInit /\ [][RetrievalNext]_retrievalVars
-----------------------------------------------------------------------------
(* What retrieval promises *)

\* A stored vector was made from the text it is stored with, in whatever order the
\* batches and the items of their responses came.
VectorsFollowTexts == \A d \in Docs : corpus[d].vector = corpus[d].chunk

\* "Some model revisions reject the optional `dimensions` parameter", and no call fails for
\* that alone: it fails because the provider failed it, or because the parameter of another
\* call was refused while it was under way with its own.
FailsForCause ==
    \A c \in CallNames : calls[c].at = "failed" => calls[c].because # "nothing"

Answer == RowsOf(search.answer)
InBoth == RowsOf(search.vector) \cap RowsOf(search.text)
Answered == search.at = "answered"

\* "A document that appears in both rankings outranks one that only tops a single ranking."
SharedFirst ==
    search.at = "rerank" =>
        \A i, j \in DOMAIN search.candidates :
            search.candidates[i] \in InBoth /\ search.candidates[j] \notin InBoth => i < j

\* As many chunks as were found, up to those asked for, and none of them twice; a document
\* is there at two versions only if it was stored while the search was under way.
NeverStarved ==
    Answered =>
        /\ Len(search.answer) = Least(TopN, Cardinality(RowsOf(search.vector) \cup RowsOf(search.text)))
        /\ Cardinality(Answer) = Len(search.answer)
        /\ \A a, b \in Answer : a.doc = b.doc /\ a # b => a.doc \in rewritten

\* The prices a question states, each keyword said once.
Stated(q, figures) == {ToAmount(f) : f \in figures \ {Missing}} \ {Missing}
Uppers(q) == Stated(q, RowsOf(q.below) \cup IF q.above = <<>> THEN {q.budget} ELSE {})
Lowers(q) == Stated(q, RowsOf(q.above))

\* No listing is answered that is dearer than all the bounds a question states, where one
\* of them is an upper one, or cheaper than all of them, where one is a lower one.
PricesAsAsked ==
    Answered => \A c \in Answer :
        LET facts == Facts(c.doc, c.version)
            q     == search.question
        IN  facts.listing /\ Len(q.below) <= 1 /\ Len(q.above) <= 1 /\ q.low = Missing =>
                /\ Uppers(q) # {} => \E p \in Uppers(q) \cup Lowers(q) : facts.price <= p
                /\ Lowers(q) # {} => \E p \in Uppers(q) \cup Lowers(q) : facts.price >= p

RetrievalHolds ==
    FailsForCause /\ SharedFirst /\ NeverStarved /\ PricesAsAsked
=============================================================================
