--------------------------- MODULE RetrievalProofs ---------------------------
(***************************************************************************)
(* Proofs about Retrieval, for any corpus, batches and branches.  A stored *)
(* vector was made from the text it is stored with, whatever order batches *)
(* and their items come back in.  Fusing lines up what was found by score, *)
(* which is a strict order of it, so that what both branches found comes   *)
(* first and nothing is dropped or doubled; the reranker's choice and its  *)
(* tail are the same chunks again.  An answer then has as many chunks as   *)
(* there are, and none beyond the prices that were asked for.              *)
(***************************************************************************)
EXTENDS Retrieval, SequenceTheorems, FiniteSetTheorems, FunctionTheorems, TLAPS

\* What the assumption says of sizes.
LEMMA Sizes ==
    /\ BatchSize \in Nat \ {0}
    /\ TopK \in Nat /\ Damping \in Nat \ {0} /\ TopK <= Damping + 1
BY RetrievalAssumption

-----------------------------------------------------------------------------
(* Batches *)

\* A position lies within the batch it belongs to.
LEMMA BatchBounds ==
    \A i \in Nat \ {0} : /\ BatchOf(i) \in Nat \ {0}
                         /\ (BatchOf(i) - 1) * BatchSize < i
                         /\ i <= BatchOf(i) * BatchSize
<1>1. \A a \in Nat : /\ a \div BatchSize \in Nat
                     /\ BatchSize * (a \div BatchSize) <= a
                     /\ a < BatchSize * (a \div BatchSize) + BatchSize
  BY Sizes
<1>2. SUFFICES ASSUME NEW i \in Nat \ {0}
               PROVE  /\ BatchOf(i) \in Nat \ {0}
                      /\ (BatchOf(i) - 1) * BatchSize < i
                      /\ i <= BatchOf(i) * BatchSize
  OBVIOUS
<1> DEFINE q == (i - 1) \div BatchSize
<1>3. q \in Nat /\ BatchSize * q <= i - 1 /\ i - 1 < BatchSize * q + BatchSize
  BY <1>1
<1>4. BatchOf(i) = q + 1
  BY DEF BatchOf
<1> HIDE DEF q
<1>5. (q + 1) * BatchSize = BatchSize * q + BatchSize /\ ((q + 1) - 1) * BatchSize = BatchSize * q
  BY <1>3, Sizes
<1>6. QED
  BY <1>3, <1>4, <1>5, Sizes

\* Earlier positions are in earlier batches.
LEMMA BatchesInOrder ==
    ASSUME NEW m \in Nat \ {0}, NEW n \in Nat \ {0}, m <= n
    PROVE  BatchOf(m) <= BatchOf(n)
<1>1. /\ BatchOf(m) \in Nat \ {0} /\ BatchOf(n) \in Nat \ {0}
      /\ (BatchOf(m) - 1) * BatchSize < m /\ n <= BatchOf(n) * BatchSize
  BY BatchBounds
<1>2. (BatchOf(m) - 1) * BatchSize < BatchOf(n) * BatchSize
  BY <1>1, Sizes
<1>3. \A x, y \in Int : x * BatchSize < y * BatchSize => x < y
  BY Sizes
<1>4. BatchOf(m) - 1 < BatchOf(n)
  BY <1>1, <1>2, <1>3
<1>5. QED
  BY <1>1, <1>4

\* What a sequence holds at a position, its batch holds at the position's place there.
LEMMA BatchHolds ==
    ASSUME NEW S, NEW texts \in Seq(S), NEW i \in DOMAIN texts
    PROVE  /\ BatchOf(i) \in 1..BatchOf(Len(texts))
           /\ BatchesOf(texts)[BatchOf(i)] \in Seq(S)
           /\ BatchesOf(texts)[BatchOf(i)][i - (BatchOf(i) - 1) * BatchSize] = texts[i]
<1> DEFINE b == BatchOf(i)
           low == (b - 1) * BatchSize
           high == Least(b * BatchSize, Len(texts))
<1>1. Len(texts) \in Nat /\ i \in 1..Len(texts)
  OBVIOUS
<1>2. b \in Nat \ {0} /\ low < i /\ i <= b * BatchSize
  BY <1>1, BatchBounds
<1>3. b \in 1..BatchOf(Len(texts))
  BY <1>1, <1>2, BatchesInOrder, BatchBounds
<1>4. BatchesOf(texts)[b] = SubSeq(texts, low + 1, high)
  BY <1>3 DEF BatchesOf
<1>5. low \in Nat /\ b * BatchSize \in Nat
  BY <1>2, Sizes
<1>6. high \in Nat /\ i <= high /\ high <= Len(texts)
  BY <1>1, <1>2, <1>5 DEF Least
<1> HIDE DEF low, high, b
<1>7. low + 1 \in 1..(Len(texts) + 1) /\ high \in low..Len(texts)
  BY <1>1, <1>2, <1>5, <1>6
<1>8. /\ SubSeq(texts, low + 1, high) \in Seq(S)
      /\ \A k \in 1..(high - (low + 1) + 1) : SubSeq(texts, low + 1, high)[k] = texts[(low + 1) + k - 1]
  BY <1>1, <1>7, <1>5, <1>6, SubSeqProperties
<1>9. i - low \in 1..(high - (low + 1) + 1) /\ (low + 1) + (i - low) - 1 = i
  BY <1>1, <1>2, <1>5, <1>6
<1>10. SubSeq(texts, low + 1, high)[i - low] = texts[i]
  BY <1>8, <1>9
<1>11. QED
  BY <1>3, <1>4, <1>8, <1>10 DEF b, low

-----------------------------------------------------------------------------
(* Fusion *)

\* "A document that appears in both rankings outranks one that only tops a single ranking",
\* as far down as the branches go.
THEOREM SharedOutranks ==
    ASSUME NEW r \in 1..TopK, NEW s \in 1..TopK, NEW p \in 1..TopK
    PROVE  Higher(r, s, p, 0) /\ Higher(r, s, 0, p)
<1>1. Damping \in Nat \ {0} /\ TopK \in Nat /\ TopK <= Damping + 1
  BY Sizes
<1> DEFINE x == Damping + r
           y == Damping + s
           z == Damping + p
<1>2. /\ x \in Int /\ y \in Int /\ z \in Int
      /\ z >= Damping + 1 /\ x <= 2 * Damping + 1 /\ y <= 2 * Damping + 1
      /\ x >= 1 /\ y >= 1
  BY <1>1
<1> HIDE DEF x, y, z
<1>3. 2 * z > x /\ 2 * z > y
  BY <1>1, <1>2
<1>4. 2 * z * y > x * y /\ 2 * z * x > y * x
  BY <1>2, <1>3
<1>5. (x + y) * z > x * y
  BY <1>2, <1>4
<1>6. Higher(r, s, p, 0) <=> (y + x) * (z * 1) > 1 * (x * y)
  BY <1>1 DEF Higher, Numerator, Denominator, Part, x, y, z
<1>7. Higher(r, s, 0, p) <=> (y + x) * (1 * z) > 1 * (x * y)
  BY <1>1 DEF Higher, Numerator, Denominator, Part, x, y, z
<1>8. QED
  BY <1>2, <1>5, <1>6, <1>7

-----------------------------------------------------------------------------
(* Vectors and texts *)

\* A call that is done has the vectors of its texts, in their order; the batches of a flush
\* are its texts cut up, and its vectors, once they are put together, are those texts again.
AllTold  == \A c \in CallNames : calls[c].at = "done" => calls[c].vectors = calls[c].texts
Split == flush.at = "embed" =>
            /\ InFlush \subseteq Batches
            /\ \A b \in InFlush : calls[b].texts = BatchesOf(flush.texts)[b]
Whole == flush.at = "store" => flush.vectors = flush.texts

Following ==
    /\ upstream \in [Docs -> Nat] /\ calls \in [CallNames -> CallStates] /\ FlushOK /\ CorpusOK
    /\ sendDimensions \in BOOLEAN
    /\ AllTold /\ Split /\ Whole
    /\ VectorsFollowTexts

LEMMA NewCalls ==
    IdleCall \in CallStates /\ \A texts \in Seq(DocTexts) : NewCall(texts) \in CallStates
<1>1. <<>> \in Seq(DocTexts)
  OBVIOUS
<1>2. IdleCall \in CallStates
  BY <1>1 DEF IdleCall, CallStates
<1>3. QED
  BY <1>1, <1>2 DEF NewCall, IdleCall, CallStates

\* Sorted by index, the items of a response are the texts that were sent.
LEMMA ResponsesInOrder ==
    ASSUME NEW texts \in Seq(DocTexts), NEW response \in Responses(texts)
    PROVE  InOrder(response) = texts
<1>1. PICK order \in Orders(Len(texts)) :
         response = [i \in DOMAIN texts |-> [index |-> order[i], vector |-> texts[order[i]]]]
  BY DEF Responses
<1>2. DOMAIN texts = 1..Len(texts) /\ DOMAIN response = 1..Len(texts)
  BY <1>1
<1>3. ASSUME NEW i \in 1..Len(texts)
      PROVE  InOrder(response)[i] = texts[i]
  <2> DEFINE j == CHOOSE k \in DOMAIN response : response[k].index = i
  <2>1. \E k \in 1..Len(texts) : order[k] = i
    BY <1>1 DEF Orders
  <2>2. \E k \in DOMAIN response : response[k].index = i
    BY <1>1, <1>2, <2>1
  <2>3. j \in DOMAIN response /\ response[j].index = i
    BY <2>2
  <2>4. InOrder(response)[i] = response[j].vector
    BY <1>2 DEF InOrder
  <2> HIDE DEF j
  <2>5. QED
    BY <1>1, <1>2, <2>3, <2>4
<1>4. InOrder(response) = [i \in 1..Len(texts) |-> InOrder(response)[i]]
  BY <1>2 DEF InOrder
<1>5. texts = [i \in 1..Len(texts) |-> texts[i]]
  OBVIOUS
<1>6. QED
  BY <1>3, <1>4, <1>5

LEMMA FollowingInit == RetrievalInit => Following
<1> SUFFICES ASSUME RetrievalInit PROVE Following
  OBVIOUS
<1>1. calls \in [CallNames -> CallStates] /\ FlushOK
  BY DEF RetrievalInit, CallStates, IdleCall, FlushOK, NoFlush
<1>2. CorpusOK /\ VectorsFollowTexts
  BY DEF RetrievalInit, CorpusOK, VectorsFollowTexts, Unstored
<1>3. AllTold /\ Split /\ Whole
  BY DEF RetrievalInit, AllTold, Split, Whole, NoFlush, IdleCall
<1>4. upstream \in [Docs -> Nat]
  BY DEF RetrievalInit
<1>5. sendDimensions \in BOOLEAN
  BY DEF RetrievalInit
<1>6. QED
  BY <1>1, <1>2, <1>3, <1>4, <1>5 DEF Following

\* Steps of one call, which leave its texts alone.
LEMMA CallSteps ==
    ASSUME Following, NEW c \in CallNames,
           calls' \in [CallNames -> CallStates],
           \A o \in CallNames : calls'[o].texts = calls[o].texts,
           \A o \in CallNames : calls'[o].at = "done" => calls'[o].vectors = calls'[o].texts,
           sendDimensions' \in BOOLEAN, UNCHANGED <<upstream, flush, corpus>>
    PROVE  Following'
<1>1. FlushOK' /\ CorpusOK' /\ VectorsFollowTexts' /\ Whole'
  BY DEF Following, FlushOK, CorpusOK, VectorsFollowTexts, Whole
<1>2. AllTold'
  BY DEF AllTold, CallNames, Batches
<1>3. Split'
  BY DEF Following, Split, InFlush, CallNames, Batches
<1>4. upstream' \in [Docs -> Nat]
  BY DEF Following
<1>5. QED
  BY <1>1, <1>2, <1>3, <1>4 DEF Following

LEMMA FollowingStep == Following /\ [RetrievalNext]_retrievalVars => Following'
<1> SUFFICES ASSUME Following, [RetrievalNext]_retrievalVars PROVE Following'
  OBVIOUS
<1> USE DEF Following
<1>1. ASSUME NEW c \in CallNames, SendBatch(c) PROVE Following'
  <2>1. calls' \in [CallNames -> CallStates]
    BY <1>1 DEF SendBatch, CallStates
  <2>2. \A o \in CallNames : /\ calls'[o].texts = calls[o].texts
                             /\ calls'[o].at = "done" => calls'[o].vectors = calls'[o].texts
    BY <1>1 DEF SendBatch, CallStates, AllTold
  <2>3. QED
    BY <1>1, <2>1, <2>2, CallSteps DEF SendBatch
<1>2. ASSUME NEW c \in CallNames, RefuseDimensions(c) PROVE Following'
  <2>1. calls' \in [CallNames -> CallStates]
    BY <1>2 DEF RefuseDimensions, SentAgain, CallStates
  <2>2. \A o \in CallNames : /\ calls'[o].texts = calls[o].texts
                             /\ calls'[o].at = "done" => calls'[o].vectors = calls'[o].texts
    BY <1>2 DEF RefuseDimensions, SentAgain, CallStates, AllTold
  <2>3. QED
    BY <1>2, <2>1, <2>2, CallSteps DEF RefuseDimensions
<1>3. ASSUME NEW c \in CallNames, Embed(c) PROVE Following'
  <2>1. PICK response \in Responses(calls[c].texts) :
           calls' = [calls EXCEPT ![c] = [@ EXCEPT !.at = "done", !.vectors = InOrder(response)]]
    BY <1>3 DEF Embed
  <2>2. calls[c].texts \in Seq(DocTexts)
    BY DEF CallStates
  <2>3. InOrder(response) = calls[c].texts
    BY <2>2, ResponsesInOrder
  <2>4. calls' \in [CallNames -> CallStates]
    BY <2>1, <2>2, <2>3 DEF CallStates
  <2>5. \A o \in CallNames : /\ calls'[o].texts = calls[o].texts
                             /\ calls'[o].at = "done" => calls'[o].vectors = calls'[o].texts
    BY <2>1, <2>3 DEF CallStates, AllTold
  <2>6. QED
    BY <1>3, <2>4, <2>5, CallSteps DEF Embed
<1>4. ASSUME NEW c \in CallNames, Falter(c) PROVE Following'
  <2> DEFINE tried == [calls[c] EXCEPT !.tries = @ + 1]
             failed == [calls[c] EXCEPT !.at = "failed", !.because = "provider"]
  <2>b. calls[c] \in CallStates /\ calls[c].tries \in Nat
    BY DEF CallStates
  <2>c. tried \in CallStates /\ tried.texts = calls[c].texts /\ tried.at = calls[c].at
           /\ tried.vectors = calls[c].vectors
    <3> DEFINE k == calls[c].tries + 1
    <3>1. k \in Nat
      BY <2>b
    <3> HIDE DEF k
    <3>2. \A r \in CallStates : LET u == [r EXCEPT !.tries = k]
                          IN  u \in CallStates /\ u.texts = r.texts /\ u.at = r.at /\ u.vectors = r.vectors
      BY <3>1 DEF CallStates
    <3>3. tried = [calls[c] EXCEPT !.tries = k]
      BY DEF k
    <3>4. QED
      BY <2>b, <3>2, <3>3
  <2>d. failed \in CallStates /\ failed.texts = calls[c].texts /\ failed.at = "failed"
    BY <2>b DEF CallStates
  <2>a. calls' = [calls EXCEPT ![c] = tried] \/ calls' = [calls EXCEPT ![c] = failed]
    BY <1>4 DEF Falter
  <2> HIDE DEF tried, failed
  <2>1. calls' \in [CallNames -> CallStates]
    BY <2>b, <2>c, <2>d, <2>a
  <2>2. \A o \in CallNames : /\ calls'[o].texts = calls[o].texts
                             /\ calls'[o].at = "done" => calls'[o].vectors = calls'[o].texts
    BY <2>b, <2>c, <2>d, <2>a DEF AllTold
  <2>3. QED
    BY <1>4, <2>1, <2>2, CallSteps DEF Falter
<1>5. ASSUME StartFlush PROVE Following'
  <2> DEFINE Starts(n, pick) ==
           LET texts == [i \in 1..n |-> Text(Loaded[pick[i]], upstream[Loaded[pick[i]]])]
               sent  == BatchesOf(texts)
           IN  /\ flush' = [NoFlush EXCEPT !.at = "embed", !.texts = texts]
               /\ calls' = [c \in CallNames |->
                              IF c \in DOMAIN sent THEN NewCall(sent[c]) ELSE calls[c]]
  <2>0. PICK n \in 1..Len(Loaded) : \E pick \in [1..n -> DOMAIN Loaded] : Starts(n, pick)
    BY <1>5 DEF StartFlush
  <2>1. PICK pick \in [1..n -> DOMAIN Loaded] : Starts(n, pick)
    BY <2>0
  <2> DEFINE texts == [i \in 1..n |-> Text(Loaded[pick[i]], upstream[Loaded[pick[i]]])]
             sent  == BatchesOf(texts)
  <2>2. /\ Len(Loaded) \in Nat /\ DOMAIN Loaded = 1..Len(Loaded)
        /\ n \in Nat \ {0} /\ n <= Len(Loaded)
    BY RetrievalAssumption
  <2>3. texts \in Seq(DocTexts) /\ Len(texts) = n
    <3>1. ASSUME NEW i \in 1..n PROVE texts[i] \in DocTexts
      <4>1. Loaded[pick[i]] \in Docs
        BY <2>2 DEF Docs
      <4>2. QED
        BY <4>1 DEF Text, DocTexts
    <3>2. QED
      BY <2>2, <3>1
  <2>4. /\ flush' = [NoFlush EXCEPT !.at = "embed", !.texts = texts]
        /\ calls' = [c \in CallNames |-> IF c \in DOMAIN sent THEN NewCall(sent[c]) ELSE calls[c]]
    BY <2>1
  <2> HIDE DEF texts
  <2>5. flush'.at = "embed" /\ flush'.texts = texts /\ FlushOK'
    <3>1. flush' = [at |-> "embed", texts |-> texts, vectors |-> <<>>, next |-> 1]
      BY <2>4 DEF NoFlush
    <3>2. <<>> \in Seq(DocTexts) /\ 1 \in DOMAIN texts
      BY <2>2, <2>3
    <3>3. QED
      BY <2>3, <3>1, <3>2 DEF FlushOK
  <2>6. DOMAIN sent = 1..BatchOf(n) /\ 1..BatchOf(n) \subseteq Batches
    BY <2>2, <2>3, BatchesInOrder, BatchBounds DEF BatchesOf, Batches
  <2>7. \A b \in DOMAIN sent : sent[b] \in Seq(DocTexts)
    <3> SUFFICES ASSUME NEW b \in 1..BatchOf(n) PROVE sent[b] \in Seq(DocTexts)
      BY <2>6
    <3>1. sent[b] = SubSeq(texts, (b - 1) * BatchSize + 1, Least(b * BatchSize, n))
      BY <2>3 DEF BatchesOf
    <3>2. BatchOf(n) \in Nat \ {0} /\ (BatchOf(n) - 1) * BatchSize < n
      BY <2>2, BatchBounds
    <3>3. b \in Nat \ {0} /\ b - 1 <= BatchOf(n) - 1
      BY <3>2
    <3>a. \A k, m \in Nat : k <= m => k * BatchSize <= m * BatchSize
      BY Sizes
    <3>4. (b - 1) * BatchSize <= (BatchOf(n) - 1) * BatchSize
      BY <3>2, <3>3, <3>a
    <3>5. /\ (b - 1) * BatchSize \in Nat /\ b * BatchSize \in Nat
          /\ (b - 1) * BatchSize <= b * BatchSize
          /\ (b - 1) * BatchSize < n
      BY <3>2, <3>3, <3>4, Sizes
    <3> DEFINE low == (b - 1) * BatchSize
               top == b * BatchSize
    <3>6. low \in Nat /\ top \in Nat /\ low <= top /\ low < n
      BY <3>5
    <3> HIDE DEF low, top
    <3>7. low + 1 \in 1..(n + 1) /\ Least(top, n) \in low..n
      BY <2>2, <3>6 DEF Least
    <3>8. SubSeq(texts, low + 1, Least(top, n)) \in Seq(DocTexts)
      BY <2>2, <2>3, <3>6, <3>7, SubSeqProperties
    <3>9. QED
      BY <3>1, <3>8 DEF low, top
  <2> HIDE DEF sent
  <2>8. calls' \in [CallNames -> CallStates]
    <3>1. \A c \in CallNames : c \in DOMAIN sent => NewCall(sent[c]) \in CallStates
      BY <2>7, NewCalls
    <3>2. QED
      BY <2>4, <3>1
  <2>9. AllTold'
    BY <2>4 DEF AllTold, NewCall, IdleCall, CallNames, Batches
  <2>10. Split'
    <3>1. InFlush' = 1..BatchOf(n)
      BY <2>3, <2>5 DEF InFlush, BatchOf
    <3>2. \A b \in 1..BatchOf(n) : calls'[b].texts = sent[b]
      BY <2>4, <2>6, <2>7 DEF NewCall, IdleCall, CallNames
    <3>3. QED
      BY <2>5, <2>6, <3>1, <3>2 DEF Split, Batches, sent, BatchesOf
  <2>11. UNCHANGED <<upstream, corpus, sendDimensions>>
    BY <1>5 DEF StartFlush
  <2>12. QED
    BY <2>5, <2>8, <2>9, <2>10, <2>11 DEF CorpusOK, VectorsFollowTexts, Whole
<1>6. ASSUME AbandonFlush PROVE Following'
  BY <1>6 DEF AbandonFlush, NoFlush, FlushOK, CorpusOK, VectorsFollowTexts, AllTold, Split, Whole
<1>7. ASSUME NEW b \in Batches, Forget(b) PROVE Following'
  <2>1. calls' \in [CallNames -> CallStates] /\ AllTold'
    <3>1. IdleCall.at = "idle"
      BY DEF IdleCall
    <3>2. QED
      BY <1>7, <3>1, NewCalls DEF Forget, AllTold
  <2>2. QED
    BY <1>7, <2>1 DEF Forget, FlushOK, CorpusOK, VectorsFollowTexts, Split, Whole
<1>8. ASSUME BeginStoring PROVE Following'
  <2>1. /\ flush.at = "embed"
        /\ \A b \in InFlush : calls[b].at = "done"
        /\ flush' = [flush EXCEPT !.at = "store",
                        !.vectors = [i \in DOMAIN flush.texts |->
                            calls[BatchOf(i)].vectors[i - (BatchOf(i) - 1) * BatchSize]]]
        /\ calls' = [c \in CallNames |-> IF c \in InFlush THEN IdleCall ELSE calls[c]]
        /\ UNCHANGED <<upstream, corpus, sendDimensions>>
    BY <1>8 DEF BeginStoring
  <2>2. flush.texts \in Seq(DocTexts)
    BY DEF FlushOK
  <2>3. \A i \in DOMAIN flush.texts :
           calls[BatchOf(i)].vectors[i - (BatchOf(i) - 1) * BatchSize] = flush.texts[i]
    <3> SUFFICES ASSUME NEW i \in DOMAIN flush.texts
                 PROVE  calls[BatchOf(i)].vectors[i - (BatchOf(i) - 1) * BatchSize] = flush.texts[i]
      OBVIOUS
    <3>1. BatchOf(i) \in InFlush
      BY <2>2, BatchHolds DEF InFlush
    <3>2. calls[BatchOf(i)].vectors = BatchesOf(flush.texts)[BatchOf(i)]
      BY <2>1, <3>1 DEF AllTold, Split, CallNames
    <3>3. QED
      BY <2>2, <3>2, BatchHolds
  <2>4. flush'.vectors = flush.texts /\ flush'.texts = flush.texts /\ flush'.at = "store"
    BY <2>1, <2>2, <2>3 DEF FlushOK
  <2>5. FlushOK'
    BY <2>1, <2>2, <2>4 DEF FlushOK
  <2>6. calls' \in [CallNames -> CallStates] /\ AllTold'
    BY <2>1 DEF IdleCall, CallStates, AllTold, CallNames, Batches
  <2>7. QED
    BY <2>1, <2>4, <2>5, <2>6 DEF CorpusOK, VectorsFollowTexts, Split, Whole
<1>9. ASSUME flush.at = "store", AfterDocument, UNCHANGED <<upstream, calls, sendDimensions>>
      PROVE  upstream' \in [Docs -> Nat] /\ sendDimensions' \in BOOLEAN /\ calls' \in [CallNames -> CallStates] /\ FlushOK' /\ AllTold' /\ Split' /\ Whole'
  <2>1. calls' \in [CallNames -> CallStates] /\ AllTold'
    BY <1>9 DEF AllTold, CallNames, Batches
  <2>2. FlushOK' /\ Split' /\ Whole'
    <3>1. CASE flush.next = Len(flush.texts)
      <4>1. flush' = [at |-> "idle", texts |-> <<>>, vectors |-> <<>>, next |-> 1]
        BY <1>9, <3>1 DEF AfterDocument, NoFlush
      <4>2. <<>> \in Seq(DocTexts)
        OBVIOUS
      <4>3. QED
        BY <4>1, <4>2 DEF FlushOK, Split, Whole
    <3>2. CASE flush.next # Len(flush.texts)
      <4>1. flush' = [flush EXCEPT !.next = @ + 1]
        BY <1>9, <3>2 DEF AfterDocument
      <4>2. flush.next + 1 \in DOMAIN flush.texts
        BY <1>9, <3>2 DEF FlushOK
      <4>3. QED
        BY <1>9, <4>1, <4>2 DEF FlushOK, Split, Whole
    <3>3. QED
      BY <3>1, <3>2
  <2>3. QED
    BY <1>9, <2>1, <2>2
<1>10. ASSUME StoreDocument PROVE Following'
  <2> DEFINE t == flush.texts[flush.next]
  <2>1. /\ flush.at = "store" /\ AfterDocument /\ UNCHANGED <<upstream, calls, sendDimensions>>
        /\ corpus' = [corpus EXCEPT ![t.doc] = [chunk |-> t, vector |-> flush.vectors[flush.next]]]
    BY <1>10 DEF StoreDocument
  <2>2. t \in DocTexts /\ flush.vectors[flush.next] = t
    BY <2>1 DEF FlushOK, Whole
  <2> HIDE DEF t
  <2>3. corpus' = [corpus EXCEPT ![t.doc] = [chunk |-> t, vector |-> t]]
    BY <2>1, <2>2
  <2>4. CorpusOK' /\ VectorsFollowTexts'
    BY <2>2, <2>3 DEF CorpusOK, VectorsFollowTexts
  <2>5. QED
    BY <1>9, <2>1, <2>4
<1>11. ASSUME SkipDocument PROVE Following'
  BY <1>9, <1>11 DEF SkipDocument, CorpusOK, VectorsFollowTexts
<1>12. ASSUME NEW d \in Docs, Revise(d) PROVE Following'
  <2>1. upstream' \in [Docs -> Nat]
    BY <1>12 DEF Revise
  <2>2. QED
    BY <1>12, <2>1 DEF Revise, FlushOK, CorpusOK, VectorsFollowTexts, AllTold, Split, Whole,
                       InFlush, CallNames, Batches
<1>13. ASSUME UNCHANGED <<upstream, corpus, flush, sendDimensions>>,
              \/ UNCHANGED calls
              \/ \E texts \in Seq(DocTexts) : calls' = [calls EXCEPT ![Query] = NewCall(texts)]
              \/ calls' = [calls EXCEPT ![Query] = IdleCall]
       PROVE  Following'
  <2>1. calls' \in [CallNames -> CallStates] /\ AllTold'
    <3>1. IdleCall.at = "idle" /\ \A texts \in Seq(DocTexts) : NewCall(texts).at = "queued"
      BY DEF IdleCall, NewCall
    <3>2. calls' \in [CallNames -> CallStates]
      BY <1>13, NewCalls
    <3>3. \A c \in CallNames : calls'[c] = calls[c] \/ calls'[c].at # "done"
      BY <1>13, <3>1
    <3>4. QED
      BY <3>2, <3>3 DEF AllTold, CallNames, Batches
  <2>2. Query \notin Batches
    BY DEF Query, Batches
  <2>3. \A b \in Batches : calls'[b] = calls[b]
    BY <1>13, <2>2 DEF CallNames
  <2>4. Split'
    BY <1>13, <2>3 DEF Split, InFlush
  <2>5. QED
    BY <1>13, <2>1, <2>4 DEF FlushOK, CorpusOK, VectorsFollowTexts, Whole
<1>14. ASSUME NEW q \in Queried, AskFor(q) PROVE Following'
  <2>1. <<Question>> \in Seq(DocTexts)
    BY DEF Question, Text, DocTexts
  <2>2. QED
    BY <1>13, <1>14, <2>1 DEF AskFor
<1>15. ASSUME VectorSearch \/ TextSearch \/ LoseVectors \/ LoseTexts \/ Rerank PROVE Following'
  BY <1>13, <1>15 DEF VectorSearch, TextSearch, LoseVectors, LoseTexts, Rerank, SearchStays
<1>16. CASE UNCHANGED retrievalVars
  BY <1>13, <1>16 DEF retrievalVars
<1>17. QED
  BY <1>1, <1>2, <1>3, <1>4, <1>5, <1>6, <1>7, <1>8, <1>10, <1>11, <1>12, <1>14, <1>15, <1>16
     DEF RetrievalNext

\* Whatever order batches and items come back in, and whatever fails on the way, a stored
\* vector was made from the text it is stored with.
THEOREM VectorsFollow == RetrievalSpec => []VectorsFollowTexts
<1>1. Following => VectorsFollowTexts
  BY DEF Following
<1>2. QED
  BY <1>1, FollowingInit, FollowingStep, PTL DEF RetrievalSpec

-----------------------------------------------------------------------------
(* Lining up a finite set *)

LEMMA CountedBelow == ASSUME NEW n \in Nat PROVE IsFiniteSet(0..(n - 1)) /\ Cardinality(0..(n - 1)) = n
<1>1. IsFiniteSet(0..(n - 1)) /\ Cardinality(0..(n - 1)) = IF 0 > n - 1 THEN 0 ELSE n - 1 - 0 + 1
  BY FS_Interval
<1>2. QED
  BY <1>1

LEMMA CountedTo == ASSUME NEW n \in Nat PROVE IsFiniteSet(1..n) /\ Cardinality(1..n) = n
<1>1. IsFiniteSet(1..n) /\ Cardinality(1..n) = IF 1 > n THEN 0 ELSE n - 1 + 1
  BY FS_Interval
<1>2. QED
  BY <1>1

\* A strict order of a set, all of whose members it compares.
StrictOrder(S, R) ==
    /\ \A a \in S : <<a, a>> \notin R
    /\ \A a, b, c \in S : <<a, b>> \in R /\ <<b, c>> \in R => <<a, c>> \in R
    /\ \A a, b \in S : a # b => <<a, b>> \in R \/ <<b, a>> \in R

AheadOf(S, R, c) == {o \in S : <<o, c>> \in R}

LEMMA FartherBack ==
    ASSUME NEW S, IsFiniteSet(S), NEW R, StrictOrder(S, R),
           NEW a \in S, NEW b \in S, <<a, b>> \in R
    PROVE  /\ Cardinality(AheadOf(S, R, a)) \in Nat /\ Cardinality(AheadOf(S, R, b)) \in Nat
           /\ Cardinality(AheadOf(S, R, a)) < Cardinality(AheadOf(S, R, b))
<1>1. PICK A : A = AheadOf(S, R, a)
  OBVIOUS
<1>2. PICK B : B = AheadOf(S, R, b)
  OBVIOUS
<1>3. A \subseteq B /\ B \subseteq S /\ a \in B /\ a \notin A
  BY <1>1, <1>2 DEF AheadOf, StrictOrder
<1>4. IsFiniteSet(B)
  BY <1>3, FS_Subset
<1>5. /\ IsFiniteSet(A) /\ Cardinality(A) <= Cardinality(B)
      /\ Cardinality(B) = Cardinality(A) => B = A
  BY <1>3, <1>4, FS_Subset
<1>6. Cardinality(A) \in Nat /\ Cardinality(B) \in Nat
  BY <1>4, <1>5, FS_CardinalityType
<1>7. QED
  BY <1>1, <1>2, <1>3, <1>5, <1>6

\* Every member has a place of its own.
LEMMA EachPlaceTaken ==
    ASSUME NEW S, IsFiniteSet(S), NEW R, StrictOrder(S, R)
    PROVE  /\ Cardinality(S) \in Nat
           /\ \A i \in 1..Cardinality(S) : \E c \in S : Cardinality(AheadOf(S, R, c)) = i - 1
           /\ \A a, b \in S : Cardinality(AheadOf(S, R, a)) = Cardinality(AheadOf(S, R, b)) => a = b
<1>1. PICK n : n = Cardinality(S) /\ n \in Nat
  BY FS_CardinalityType
<1>2. PICK f : f = [c \in S |-> Cardinality(AheadOf(S, R, c))]
  OBVIOUS
<1>3. \A c \in S : Cardinality(AheadOf(S, R, c)) \in 0..(n - 1)
  <2>1. TAKE c \in S
  <2>2. PICK A : A = AheadOf(S, R, c)
    OBVIOUS
  <2>3. A \subseteq S /\ c \notin A
    BY <2>2 DEF AheadOf, StrictOrder
  <2>4. /\ IsFiniteSet(A) /\ Cardinality(A) <= n
        /\ Cardinality(S) = Cardinality(A) => S = A
    BY <1>1, <2>3, FS_Subset
  <2>5. Cardinality(A) \in Nat
    BY <2>4, FS_CardinalityType
  <2>6. Cardinality(A) # n
    BY <1>1, <2>3, <2>4
  <2>7. QED
    BY <1>1, <2>2, <2>4, <2>5, <2>6
<1>4. \A a, b \in S : Cardinality(AheadOf(S, R, a)) = Cardinality(AheadOf(S, R, b)) => a = b
  <2>1. SUFFICES ASSUME NEW a \in S, NEW b \in S, a # b
                 PROVE  Cardinality(AheadOf(S, R, a)) # Cardinality(AheadOf(S, R, b))
    OBVIOUS
  <2>2. <<a, b>> \in R \/ <<b, a>> \in R
    BY <2>1 DEF StrictOrder
  <2>3. CASE <<a, b>> \in R
    BY <2>3, FartherBack
  <2>4. CASE <<b, a>> \in R
    BY <2>4, FartherBack
  <2>5. QED
    BY <2>2, <2>3, <2>4
<1>5. f \in [S -> 0..(n - 1)] /\ \A a, b \in S : f[a] = f[b] => a = b
  BY <1>2, <1>3, <1>4
<1>6. f \in Injection(S, 0..(n - 1))
  BY <1>5, Fun_IsInj
<1>7. IsFiniteSet(0..(n - 1)) /\ Cardinality(0..(n - 1)) = n
  BY <1>1, CountedBelow
<1>8. f \in Surjection(S, 0..(n - 1))
  BY <1>1, <1>6, <1>7, FS_Injection
<1>9. \A i \in 0..(n - 1) : \E c \in S : f[c] = i
  BY <1>8, Fun_SurjectionProperties
<1>10. \A i \in 1..n : \E c \in S : Cardinality(AheadOf(S, R, c)) = i - 1
  <2>1. TAKE i \in 1..n
  <2>2. i - 1 \in 0..(n - 1)
    BY <1>1
  <2>3. PICK c \in S : f[c] = i - 1
    BY <1>9, <2>2
  <2>4. QED
    BY <1>2, <2>3
<1>11. QED
  BY <1>1, <1>4, <1>10

\* A line, each of whose places has the member with that many ahead of it.
IsLine(S, R, L) ==
    /\ L = [i \in 1..Cardinality(S) |-> L[i]]
    /\ \A i \in 1..Cardinality(S) : L[i] \in S /\ Cardinality(AheadOf(S, R, L[i])) = i - 1

InLine(S, R, L) ==
    /\ Cardinality(S) \in Nat /\ L \in [1..Cardinality(S) -> S]
    /\ \A i, j \in 1..Cardinality(S) : L[i] = L[j] => i = j
    /\ \A c \in S : \E i \in 1..Cardinality(S) : L[i] = c
    /\ \A i, j \in 1..Cardinality(S) : <<L[i], L[j]>> \in R => i < j

LEMMA LinedUp ==
    ASSUME NEW S, IsFiniteSet(S), NEW R, StrictOrder(S, R), NEW L, IsLine(S, R, L)
    PROVE  InLine(S, R, L)
<1>1. PICK n : n = Cardinality(S) /\ n \in Nat
  BY FS_CardinalityType
<1>2. \A i \in 1..n : L[i] \in S /\ Cardinality(AheadOf(S, R, L[i])) = i - 1
  BY <1>1 DEF IsLine
<1>3. L \in [1..n -> S]
  BY <1>1, <1>2 DEF IsLine
<1>4. \A i, j \in 1..n : L[i] = L[j] => i = j
  BY <1>1, <1>2
<1>5. \A i, j \in 1..n : <<L[i], L[j]>> \in R => i < j
  <2>1. SUFFICES ASSUME NEW i \in 1..n, NEW j \in 1..n, <<L[i], L[j]>> \in R
                 PROVE  i < j
    OBVIOUS
  <2>2. Cardinality(AheadOf(S, R, L[i])) < Cardinality(AheadOf(S, R, L[j]))
    BY <1>2, <2>1, FartherBack
  <2>3. QED
    BY <1>1, <1>2, <2>2
<1>6. \A c \in S : \E i \in 1..n : L[i] = c
  <2>1. L \in Injection(1..n, S)
    BY <1>3, <1>4, Fun_IsInj
  <2>2. Cardinality(1..n) = n
    BY <1>1, FS_Interval
  <2>3. L \in Surjection(1..n, S)
    BY <1>1, <2>1, <2>2, FS_Injection
  <2>4. \A t \in S : \E s \in 1..n : L[s] = t
    BY <2>3 DEF Surjection
  <2>5. QED
    BY <2>4
<1>7. QED
  BY <1>1, <1>3, <1>4, <1>5, <1>6 DEF InLine

-----------------------------------------------------------------------------
(* The order of fused chunks *)

LEMMA TimesPositive ==
    ASSUME NEW k \in Int, k > 0, NEW x \in Int, NEW y \in Int
    PROVE  (x > y <=> x * k > y * k) /\ (x = y <=> x * k = y * k)
OBVIOUS

\* Fractions compare like numbers.
LEMMA FractionsCompare ==
    ASSUME NEW a \in Int, NEW x \in Int, x > 0, NEW b \in Int, NEW y \in Int, y > 0,
           NEW c \in Int, NEW z \in Int, z > 0,
           a * y >= b * x, b * z >= c * y
    PROVE  /\ a * z >= c * x
           /\ a * y > b * x \/ b * z > c * y => a * z > c * x
<1>1. (a * y) * z >= (b * x) * z /\ (a * y > b * x => (a * y) * z > (b * x) * z)
  <2>1. a * y \in Int /\ b * x \in Int
    OBVIOUS
  <2>2. QED
    BY <2>1, TimesPositive
<1>2. (b * z) * x >= (c * y) * x /\ (b * z > c * y => (b * z) * x > (c * y) * x)
  <2>1. b * z \in Int /\ c * y \in Int
    OBVIOUS
  <2>2. QED
    BY <2>1, TimesPositive
<1>3. /\ (a * y) * z = (a * z) * y /\ (b * x) * z = (b * z) * x
      /\ (c * y) * x = (c * x) * y
  OBVIOUS
<1>4. (a * z) * y >= (c * x) * y /\ (a * y > b * x \/ b * z > c * y => (a * z) * y > (c * x) * y)
  <2>1. /\ (a * y) * z \in Int /\ (b * x) * z \in Int /\ (b * z) * x \in Int /\ (c * y) * x \in Int
    OBVIOUS
  <2>2. QED
    BY <1>1, <1>2, <1>3, <2>1
<1>5. a * z \in Int /\ c * x \in Int
  OBVIOUS
<1>6. QED
  BY <1>4, <1>5, TimesPositive

Ranked(r, s)        == r \in 0..TopK /\ s \in 0..TopK /\ (r # 0 \/ s # 0)
RanksDiffer(r, s, p, q) == (r # p \/ r = 0) /\ (s # q \/ s = 0)

LEMMA ScoreParts ==
    ASSUME NEW r, NEW s, Ranked(r, s)
    PROVE  /\ Numerator(r, s) \in Int /\ Denominator(r, s) \in Int /\ Denominator(r, s) > 0
           /\ Best(r, s) \in Int /\ Met(r, s) \in Int
<1>1. r \in Int /\ s \in Int /\ r >= 0 /\ s >= 0 /\ Damping \in Int /\ Damping > 0 /\ TopK \in Int
  BY Sizes DEF Ranked
<1>2. PICK x : x = Part(r) /\ x \in Int /\ x > 0
  BY <1>1 DEF Part
<1>3. PICK y : y = Part(s) /\ y \in Int /\ y > 0
  BY <1>1 DEF Part
<1>4. x * y \in Int /\ x * y > 0
  BY <1>2, <1>3
<1>5. Denominator(r, s) = x * y
  BY <1>2, <1>3 DEF Denominator
<1>6. Numerator(r, s) \in Int
  BY <1>2, <1>3 DEF Numerator
<1>7. Best(r, s) \in Int /\ Met(r, s) \in Int
  BY <1>1 DEF Best, Met
<1>8. QED
  BY <1>4, <1>5, <1>6, <1>7

\* Before, without its conditional.
LEMMA BeforeMeans ==
    ASSUME NEW r, NEW s, Ranked(r, s), NEW p, NEW q, Ranked(p, q)
    PROVE  Before(r, s, p, q) <=>
               \/ Numerator(r, s) * Denominator(p, q) > Numerator(p, q) * Denominator(r, s)
               \/ /\ Numerator(r, s) * Denominator(p, q) = Numerator(p, q) * Denominator(r, s)
                  /\ \/ Best(r, s) < Best(p, q)
                     \/ Best(r, s) = Best(p, q) /\ Met(r, s) < Met(p, q)
<1>1. PICK u : u = Numerator(r, s) * Denominator(p, q) /\ u \in Int
  BY ScoreParts
<1>2. PICK v : v = Numerator(p, q) * Denominator(r, s) /\ v \in Int
  BY ScoreParts
<1>3. Before(r, s, p, q) <=>
         IF u # v THEN u > v
         ELSE \/ Best(r, s) < Best(p, q)
              \/ Best(r, s) = Best(p, q) /\ Met(r, s) < Met(p, q)
  BY <1>1, <1>2 DEF Before, Higher
<1>4. (u # v => u > v \/ v > u) /\ ~(u > v /\ u = v)
  BY <1>1, <1>2
<1>5. QED
  BY <1>1, <1>2, <1>3, <1>4

LEMMA BeforeIsStrict == ASSUME NEW r, NEW s, Ranked(r, s) PROVE ~Before(r, s, r, s)
<1>1. PICK u : u = Numerator(r, s) * Denominator(r, s) /\ u \in Int
  BY ScoreParts
<1>2. Best(r, s) \in Int /\ Met(r, s) \in Int
  BY ScoreParts
<1>3. QED
  BY <1>1, <1>2, BeforeMeans

LEMMA BeforeIsTotal ==
    ASSUME NEW r, NEW s, Ranked(r, s), NEW p, NEW q, Ranked(p, q), RanksDiffer(r, s, p, q)
    PROVE  Before(r, s, p, q) \/ Before(p, q, r, s)
<1>1. PICK u : u = Numerator(r, s) * Denominator(p, q) /\ u \in Int
  BY ScoreParts
<1>2. PICK v : v = Numerator(p, q) * Denominator(r, s) /\ v \in Int
  BY ScoreParts
<1>3. /\ Best(r, s) \in Int /\ Met(r, s) \in Int /\ Best(p, q) \in Int /\ Met(p, q) \in Int
  BY ScoreParts
<1>4. Met(r, s) # Met(p, q)
  BY Sizes DEF Met, Ranked, RanksDiffer
<1>5. QED
  BY <1>1, <1>2, <1>3, <1>4, BeforeMeans

LEMMA BeforeGoesOn ==
    ASSUME NEW r, NEW s, Ranked(r, s), NEW p, NEW q, Ranked(p, q), NEW t, NEW w, Ranked(t, w),
           Before(r, s, p, q), Before(p, q, t, w)
    PROVE  Before(r, s, t, w)
<1>1. PICK a : a = Numerator(r, s) /\ a \in Int
  BY ScoreParts
<1>2. PICK x : x = Denominator(r, s) /\ x \in Int /\ x > 0
  BY ScoreParts
<1>3. PICK b : b = Numerator(p, q) /\ b \in Int
  BY ScoreParts
<1>4. PICK y : y = Denominator(p, q) /\ y \in Int /\ y > 0
  BY ScoreParts
<1>5. PICK c : c = Numerator(t, w) /\ c \in Int
  BY ScoreParts
<1>6. PICK z : z = Denominator(t, w) /\ z \in Int /\ z > 0
  BY ScoreParts
<1>7. /\ Best(r, s) \in Int /\ Met(r, s) \in Int /\ Best(p, q) \in Int /\ Met(p, q) \in Int
      /\ Best(t, w) \in Int /\ Met(t, w) \in Int
  BY ScoreParts
<1>8. \/ a * y > b * x
      \/ /\ a * y = b * x
         /\ \/ Best(r, s) < Best(p, q)
            \/ Best(r, s) = Best(p, q) /\ Met(r, s) < Met(p, q)
  BY <1>1, <1>2, <1>3, <1>4, BeforeMeans
<1>9. \/ b * z > c * y
      \/ /\ b * z = c * y
         /\ \/ Best(p, q) < Best(t, w)
            \/ Best(p, q) = Best(t, w) /\ Met(p, q) < Met(t, w)
  BY <1>3, <1>4, <1>5, <1>6, BeforeMeans
<1>10. PICK i, j, k, l : i = a * y /\ j = b * x /\ k = b * z /\ l = c * y /\ {i, j, k, l} \subseteq Int
  BY <1>1, <1>2, <1>3, <1>4, <1>5, <1>6
<1>11. i >= j /\ k >= l
  BY <1>8, <1>9, <1>10
<1>12. a * z >= c * x /\ (i > j \/ k > l => a * z > c * x)
  BY <1>1, <1>2, <1>3, <1>4, <1>5, <1>6, <1>10, <1>11, FractionsCompare
<1>13. PICK m, n : m = a * z /\ n = c * x /\ {m, n} \subseteq Int
  BY <1>1, <1>2, <1>5, <1>6
<1>14. \/ m > n
       \/ /\ m = n
          /\ \/ Best(r, s) < Best(t, w)
             \/ Best(r, s) = Best(t, w) /\ Met(r, s) < Met(t, w)
  <2>1. CASE i > j \/ k > l
    BY <1>12, <1>13, <2>1
  <2>2. CASE i = j /\ k = l
    <3>1. m >= n
      BY <1>12, <1>13
    <3>2. \/ Best(r, s) < Best(t, w)
          \/ Best(r, s) = Best(t, w) /\ Met(r, s) < Met(t, w)
      BY <1>7, <1>8, <1>9, <1>10, <2>2
    <3>3. QED
      BY <1>13, <3>1, <3>2
  <2>3. QED
    BY <1>10, <1>11, <2>1, <2>2
<1>15. QED
  BY <1>1, <1>2, <1>5, <1>6, <1>13, <1>14, BeforeMeans

-----------------------------------------------------------------------------
(* Rankings *)

\* Some chunks, each once, no more than a branch may have.
IsRanking(rows, n) ==
    /\ n \in 0..TopK /\ DOMAIN rows = 1..n /\ rows = [i \in 1..n |-> rows[i]]
    /\ \A i, j \in 1..n : i # j => rows[i] # rows[j]

LEMMA RankOf ==
    ASSUME NEW rows, NEW n, IsRanking(rows, n), NEW c
    PROVE  /\ Rank(c, rows) \in 0..TopK
           /\ Rank(c, rows) # 0 <=> c \in RowsOf(rows)
           /\ Rank(c, rows) # 0 => Rank(c, rows) \in 1..n /\ rows[Rank(c, rows)] = c
<1>1. n \in Nat /\ n <= TopK /\ TopK \in Nat /\ DOMAIN rows = 1..n
  BY Sizes DEF IsRanking
<1>2. CASE \E i \in DOMAIN rows : rows[i] = c
  <2>1. PICK i : i = CHOOSE k \in DOMAIN rows : rows[k] = c
    OBVIOUS
  <2>2. i \in 1..n /\ rows[i] = c
    BY <1>1, <1>2, <2>1
  <2>3. Rank(c, rows) = i
    BY <1>2, <2>1 DEF Rank
  <2>4. QED
    BY <1>1, <2>2, <2>3 DEF RowsOf
<1>3. CASE ~\E i \in DOMAIN rows : rows[i] = c
  BY <1>1, <1>3 DEF Rank, RowsOf
<1>4. QED
  BY <1>2, <1>3

\* As many chunks as places, where none comes twice.
LEMMA RowsCounted ==
    ASSUME NEW rows, NEW n \in Nat, DOMAIN rows = 1..n, rows = [i \in 1..n |-> rows[i]],
           \A i, j \in 1..n : i # j => rows[i] # rows[j]
    PROVE  IsFiniteSet(RowsOf(rows)) /\ Cardinality(RowsOf(rows)) = n
<1>2. PICK S : S = RowsOf(rows)
  OBVIOUS
<1>3. rows \in [1..n -> S] /\ \A t \in S : \E i \in 1..n : rows[i] = t
  BY <1>2 DEF RowsOf
<1>4. rows \in Surjection(1..n, S)
  BY <1>3 DEF Surjection
<1>5. rows \in Injection(1..n, S)
  BY <1>3, Fun_IsInj
<1>6. IsFiniteSet(1..n) /\ Cardinality(1..n) = n
  BY CountedTo
<1>7. IsFiniteSet(S) /\ Cardinality(S) = Cardinality(1..n)
  BY <1>4, <1>5, <1>6, FS_Surjection
<1>8. QED
  BY <1>2, <1>6, <1>7

\* What was found has an order.
FoundBefore(near, worded) ==
    {x \in (RowsOf(near) \cup RowsOf(worded)) \X (RowsOf(near) \cup RowsOf(worded)) :
        Before(Rank(x[1], near), Rank(x[1], worded), Rank(x[2], near), Rank(x[2], worded))}

LEMMA FoundHasOrder ==
    ASSUME NEW near, NEW m, IsRanking(near, m), NEW worded, NEW n, IsRanking(worded, n),
           NEW S, S = RowsOf(near) \cup RowsOf(worded),
           NEW R, R = FoundBefore(near, worded)
    PROVE  /\ StrictOrder(S, R)
           /\ \A a, b \in S :
                 <<a, b>> \in R <=> Before(Rank(a, near), Rank(a, worded), Rank(b, near), Rank(b, worded))
           /\ \A a \in S : Ranked(Rank(a, near), Rank(a, worded))
<1>1. \A a, b \in S :
         <<a, b>> \in R <=> Before(Rank(a, near), Rank(a, worded), Rank(b, near), Rank(b, worded))
  BY DEF FoundBefore
<1>2. \A a \in S : Ranked(Rank(a, near), Rank(a, worded))
  BY RankOf DEF Ranked
<1>3. \A a, b \in S : a # b => RanksDiffer(Rank(a, near), Rank(a, worded), Rank(b, near), Rank(b, worded))
  <2>1. SUFFICES ASSUME NEW a \in S, NEW b \in S, a # b
                 PROVE  RanksDiffer(Rank(a, near), Rank(a, worded), Rank(b, near), Rank(b, worded))
    OBVIOUS
  <2>2. Rank(a, near) # 0 => near[Rank(a, near)] = a /\ (Rank(b, near) # 0 => near[Rank(b, near)] = b)
    BY RankOf
  <2>3. Rank(a, worded) # 0 => worded[Rank(a, worded)] = a /\ (Rank(b, worded) # 0 => worded[Rank(b, worded)] = b)
    BY RankOf
  <2>4. QED
    BY <2>1, <2>2, <2>3 DEF RanksDiffer
<1>4. \A a \in S : <<a, a>> \notin R
  BY <1>1, <1>2, BeforeIsStrict
<1>5. \A a, b \in S : a # b => <<a, b>> \in R \/ <<b, a>> \in R
  BY <1>1, <1>2, <1>3, BeforeIsTotal
<1>6. \A a, b, c \in S : <<a, b>> \in R /\ <<b, c>> \in R => <<a, c>> \in R
  <2>1. SUFFICES ASSUME NEW a \in S, NEW b \in S, NEW c \in S, <<a, b>> \in R, <<b, c>> \in R
                 PROVE  <<a, c>> \in R
    OBVIOUS
  <2>2. /\ Before(Rank(a, near), Rank(a, worded), Rank(b, near), Rank(b, worded))
        /\ Before(Rank(b, near), Rank(b, worded), Rank(c, near), Rank(c, worded))
    BY <1>1, <2>1
  <2>3. Before(Rank(a, near), Rank(a, worded), Rank(c, near), Rank(c, worded))
    BY <1>2, <2>2, BeforeGoesOn
  <2>4. QED
    BY <1>1, <2>3
<1>7. QED
  BY <1>1, <1>2, <1>4, <1>5, <1>6 DEF StrictOrder

\* Fusing puts all that was found in a line, once each, what both branches found first.
LEMMA FusedUp ==
    ASSUME NEW near, NEW m, IsRanking(near, m), NEW worded, NEW n, IsRanking(worded, n),
           NEW S, S = RowsOf(near) \cup RowsOf(worded), NEW F, F = Fuse(near, worded)
    PROVE  /\ IsFiniteSet(S) /\ Cardinality(S) \in Nat /\ F \in [1..Cardinality(S) -> S]
           /\ \A i, j \in 1..Cardinality(S) : F[i] = F[j] => i = j
           /\ \A i, j \in 1..Cardinality(S) :
                 F[i] \in RowsOf(near) \cap RowsOf(worded) /\ F[j] \notin RowsOf(near) \cap RowsOf(worded)
                 => i < j
<1>1. PICK R : R = FoundBefore(near, worded)
  OBVIOUS
<1>2. /\ StrictOrder(S, R)
      /\ \A a, b \in S :
            <<a, b>> \in R <=> Before(Rank(a, near), Rank(a, worded), Rank(b, near), Rank(b, worded))
      /\ \A a \in S : Ranked(Rank(a, near), Rank(a, worded))
  BY <1>1, FoundHasOrder
<1>3. IsFiniteSet(S)
  <2>1. m \in Nat /\ n \in Nat
    BY Sizes DEF IsRanking
  <2>2. IsFiniteSet(RowsOf(near)) /\ IsFiniteSet(RowsOf(worded))
    BY <2>1, RowsCounted DEF IsRanking
  <2>3. QED
    BY <2>2, FS_Union
<1>4. \A c \in S : AheadOf(S, R, c) =
         {o \in S : Before(Rank(o, near), Rank(o, worded), Rank(c, near), Rank(c, worded))}
  BY <1>2 DEF AheadOf
<1>5. \A i \in 1..Cardinality(S) : \E c \in S :
         Cardinality({o \in S : Before(Rank(o, near), Rank(o, worded), Rank(c, near), Rank(c, worded))}) = i - 1
  <2>1. TAKE i \in 1..Cardinality(S)
  <2>2. PICK c \in S : Cardinality(AheadOf(S, R, c)) = i - 1
    BY <1>2, <1>3, EachPlaceTaken
  <2>3. QED
    BY <1>4, <2>2
<1>6. F = [i \in 1..Cardinality(S) |->
             CHOOSE c \in S :
                Cardinality({o \in S : Before(Rank(o, near), Rank(o, worded), Rank(c, near), Rank(c, worded))}) = i - 1]
  BY DEF Fuse
<1>7. \A i \in 1..Cardinality(S) : F[i] \in S /\ Cardinality(AheadOf(S, R, F[i])) = i - 1
  <2>1. TAKE i \in 1..Cardinality(S)
  <2>2. F[i] = CHOOSE c \in S :
           Cardinality({o \in S : Before(Rank(o, near), Rank(o, worded), Rank(c, near), Rank(c, worded))}) = i - 1
    BY <1>6
  <2>3. F[i] \in S /\ Cardinality({o \in S : Before(Rank(o, near), Rank(o, worded), Rank(F[i], near), Rank(F[i], worded))}) = i - 1
    BY <1>5, <2>2
  <2>4. QED
    BY <1>4, <2>3
<1>8. F = [i \in 1..Cardinality(S) |-> F[i]]
  BY <1>6
<1>9. /\ Cardinality(S) \in Nat /\ F \in [1..Cardinality(S) -> S]
      /\ \A i, j \in 1..Cardinality(S) : F[i] = F[j] => i = j
      /\ \A i, j \in 1..Cardinality(S) : <<F[i], F[j]>> \in R => i < j
  <2>1. IsLine(S, R, F)
    BY <1>7, <1>8 DEF IsLine
  <2>2. InLine(S, R, F)
    BY <1>2, <1>3, <2>1, LinedUp
  <2>3. QED
    BY <2>2 DEF InLine
<1>10. \A a, b \in S :
          a \in RowsOf(near) \cap RowsOf(worded) /\ b \notin RowsOf(near) \cap RowsOf(worded) => <<a, b>> \in R
  <2>1. SUFFICES ASSUME NEW a \in S, NEW b \in S, a \in RowsOf(near) \cap RowsOf(worded),
                        b \notin RowsOf(near) \cap RowsOf(worded)
                 PROVE  <<a, b>> \in R
    OBVIOUS
  <2>2. PICK r, s, p, q : r = Rank(a, near) /\ s = Rank(a, worded) /\ p = Rank(b, near) /\ q = Rank(b, worded)
    OBVIOUS
  <2>3. r \in 1..TopK /\ s \in 1..TopK
    BY <2>1, <2>2, RankOf, Sizes
  <2>4. (p \in 1..TopK /\ q = 0) \/ (p = 0 /\ q \in 1..TopK)
    <3>1. p \in 0..TopK /\ q \in 0..TopK /\ (p # 0 \/ q # 0)
      BY <1>2, <2>2 DEF Ranked
    <3>2. p = 0 \/ q = 0
      BY <2>1, <2>2, RankOf
    <3>3. QED
      BY <3>1, <3>2, Sizes
  <2>5. Higher(r, s, p, q)
    BY <2>3, <2>4, SharedOutranks
  <2>6. Ranked(r, s) /\ Ranked(p, q)
    BY <1>2, <2>2
  <2>7. Before(r, s, p, q)
    BY <2>5, <2>6, BeforeMeans DEF Higher
  <2>8. QED
    BY <1>2, <2>2, <2>7
<1>11. QED
  BY <1>3, <1>9, <1>10

-----------------------------------------------------------------------------
(* What the reranker leaves *)

LEMMA NumbersInOrder ==
    ASSUME NEW S, S \subseteq Int, NEW R, R = {x \in S \X S : x[1] < x[2]}
    PROVE  StrictOrder(S, R) /\ \A c \in S : AheadOf(S, R, c) = {k \in S : k < c}
<1>1. \A a, b \in S : <<a, b>> \in R <=> a < b
  OBVIOUS
<1>2. QED
  BY <1>1 DEF StrictOrder, AheadOf

\* The candidates that were not chosen, and the one of them at a place.
RestOf(n, chosen) == {i \in 1..n : \A j \in DOMAIN chosen : chosen[j] # i}
NthOf(S, k)       == CHOOSE i \in S : Cardinality({m \in S : m < i}) = k - 1

SmallerIsAhead(S, R) == \A c \in S : AheadOf(S, R, c) = {m \in S : m < c}

LEMMA NthInOrder ==
    ASSUME NEW S, IsFiniteSet(S), NEW R, StrictOrder(S, R), SmallerIsAhead(S, R)
    PROVE  /\ Cardinality(S) \in Nat
           /\ \A k \in 1..Cardinality(S) : NthOf(S, k) \in S
           /\ \A k, l \in 1..Cardinality(S) : NthOf(S, k) = NthOf(S, l) => k = l
<1>1. \A k \in 1..Cardinality(S) : \E c \in S : Cardinality({m \in S : m < c}) = k - 1
  <2>1. TAKE k \in 1..Cardinality(S)
  <2>2. PICK c \in S : Cardinality(AheadOf(S, R, c)) = k - 1
    BY EachPlaceTaken
  <2>3. QED
    BY <2>2 DEF SmallerIsAhead
<1>2. \A k \in 1..Cardinality(S) : NthOf(S, k) \in S /\ Cardinality({m \in S : m < NthOf(S, k)}) = k - 1
  <2>1. TAKE k \in 1..Cardinality(S)
  <2>2. QED
    BY <1>1 DEF NthOf
<1>3. Cardinality(S) \in Nat
  BY FS_CardinalityType
<1>4. \A k, l \in 1..Cardinality(S) : NthOf(S, k) = NthOf(S, l) => k = l
  <2>1. SUFFICES ASSUME NEW k \in 1..Cardinality(S), NEW l \in 1..Cardinality(S), NthOf(S, k) = NthOf(S, l)
                 PROVE  k = l
    OBVIOUS
  <2>2. k - 1 = l - 1
    BY <1>2, <2>1
  <2>3. QED
    BY <1>3, <2>2
<1>5. QED
  BY <1>2, <1>3, <1>4

LEMMA NthIsThere ==
    ASSUME NEW n \in Nat, NEW S, S \subseteq 1..n
    PROVE  /\ Cardinality(S) \in Nat
           /\ \A k \in 1..Cardinality(S) : NthOf(S, k) \in S
           /\ \A k, l \in 1..Cardinality(S) : NthOf(S, k) = NthOf(S, l) => k = l
<1>1. IsFiniteSet(S)
  BY CountedTo, FS_Subset
<1>2. S \subseteq Int
  OBVIOUS
<1>3. PICK R : R = {x \in S \X S : x[1] < x[2]}
  OBVIOUS
<1>4. StrictOrder(S, R) /\ SmallerIsAhead(S, R)
  BY <1>2, <1>3, NumbersInOrder DEF SmallerIsAhead
<1>5. QED
  BY <1>1, <1>4, NthInOrder, Zenon

Chosen(n, size, chosen) ==
    /\ size \in 0..n /\ chosen \in [1..size -> 1..n]
    /\ \A i, j \in 1..size : i # j => chosen[i] # chosen[j]

LEMMA RestCounted ==
    ASSUME NEW n \in Nat, NEW size, NEW chosen, Chosen(n, size, chosen)
    PROVE  Cardinality(RestOf(n, chosen)) = n - size
<1>1. size \in Nat /\ size <= n /\ DOMAIN chosen = 1..size /\ chosen = [i \in 1..size |-> chosen[i]]
  BY DEF Chosen
<1>2. PICK C : C = RowsOf(chosen)
  OBVIOUS
<1>3. IsFiniteSet(C) /\ Cardinality(C) = size
  BY <1>1, <1>2, RowsCounted DEF Chosen
<1>4. C \subseteq 1..n /\ RestOf(n, chosen) = (1..n) \ C
  BY <1>1, <1>2 DEF RowsOf, RestOf, Chosen
<1>5. (1..n) \cap C = C
  BY <1>4
<1>6. Cardinality((1..n) \ C) = Cardinality(1..n) - Cardinality((1..n) \cap C)
  BY CountedTo, FS_Difference
<1>7. Cardinality((1..n) \ C) = n - size
  BY <1>3, <1>5, <1>6, CountedTo
<1>8. QED
  BY <1>4, <1>7

\* The chosen candidates and the others: every candidate, once each.
LEMMA TailFollows ==
    ASSUME NEW n \in Nat, NEW F, Len(F) = n, F \in Seq(RowsOf(F)),
           \A i, j \in 1..n : F[i] = F[j] => i = j,
           NEW size, NEW chosen, Chosen(n, size, chosen),
           NEW O, O = WithTail(F, chosen)
    PROVE  /\ O \in Seq(RowsOf(F)) /\ Len(O) = n
           /\ \A i, j \in 1..n : O[i] = O[j] => i = j
<1>1. size \in Nat /\ size <= n /\ DOMAIN chosen = 1..size /\ DOMAIN F = 1..n
  BY DEF Chosen
<1>2. PICK rest : rest = RestOf(n, chosen)
  OBVIOUS
<1>3. rest \in SUBSET (1..n) /\ Cardinality(rest) = n - size
  BY <1>2, RestCounted DEF RestOf
<1>4. /\ \A k \in 1..(n - size) : NthOf(rest, k) \in rest
      /\ \A k, l \in 1..(n - size) : NthOf(rest, k) = NthOf(rest, l) => k = l
  BY <1>3, NthIsThere
<1>5. PICK head : head = [i \in 1..size |-> F[chosen[i]]]
  OBVIOUS
<1>6. PICK tail : tail = [k \in 1..(n - size) |-> F[NthOf(rest, k)]]
  OBVIOUS
<1>7. O = head \o tail
  <2>1. rest = {i \in DOMAIN F : \A j \in DOMAIN chosen : chosen[j] # i}
    BY <1>1, <1>2 DEF RestOf
  <2>2. O = [i \in DOMAIN chosen |-> F[chosen[i]]] \o
            [k \in 1..Cardinality(rest) |-> F[NthOf(rest, k)]]
    BY <2>1 DEF WithTail, NthOf
  <2>3. QED
    BY <1>1, <1>3, <1>5, <1>6, <2>2
<1>8. \A i \in 1..n : F[i] \in RowsOf(F)
  BY <1>1 DEF RowsOf
<1>9. head \in Seq(RowsOf(F)) /\ Len(head) = size
  BY <1>1, <1>5, <1>8 DEF Chosen
<1>10. tail \in Seq(RowsOf(F)) /\ Len(tail) = n - size
  <2>1. n - size \in Nat
    BY <1>1
  <2>2. \A k \in 1..(n - size) : NthOf(rest, k) \in 1..n
    BY <1>3, <1>4
  <2>3. \A k \in 1..(n - size) : F[NthOf(rest, k)] \in RowsOf(F)
    BY <1>8, <2>2
  <2>4. QED
    BY <1>6, <2>1, <2>3
<1>11. O \in Seq(RowsOf(F)) /\ Len(O) = n
  <2>1. PICK X : X = RowsOf(F)
    OBVIOUS
  <2>2. head \in Seq(X) /\ tail \in Seq(X)
    BY <1>9, <1>10, <2>1
  <2>3. head \o tail \in Seq(X) /\ Len(head \o tail) = Len(head) + Len(tail)
    BY <2>2, ConcatProperties
  <2>4. QED
    BY <1>1, <1>7, <1>9, <1>10, <2>1, <2>3
<1>12. \A i \in 1..n : \/ i <= size /\ O[i] = F[chosen[i]]
                       \/ i > size /\ i - size \in 1..(n - size) /\ O[i] = F[NthOf(rest, i - size)]
  <2>1. TAKE i \in 1..n
  <2>2. CASE i <= size
    <3>1. O[i] = head[i]
      BY <1>1, <1>7, <1>9, <1>10, <2>2
    <3>2. QED
      BY <1>1, <1>5, <2>2, <3>1
  <2>3. CASE i > size
    <3>1. i - size \in 1..(n - size)
      BY <1>1, <2>3
    <3>2. O[i] = tail[i - size]
      BY <1>1, <1>7, <1>9, <1>10, <2>3
    <3>3. QED
      BY <1>6, <2>3, <3>1, <3>2
  <2>4. QED
    BY <1>1, <2>2, <2>3
<1>13. \A i, j \in 1..n : O[i] = O[j] => i = j
  <2>1. SUFFICES ASSUME NEW i \in 1..n, NEW j \in 1..n, O[i] = O[j]
                 PROVE  i = j
    OBVIOUS
  <2>2. CASE i <= size /\ j <= size
    <3>1. chosen[i] \in 1..n /\ chosen[j] \in 1..n
      BY <1>1, <2>2 DEF Chosen
    <3>2. F[chosen[i]] = F[chosen[j]]
      BY <1>1, <1>12, <2>1, <2>2
    <3>3. chosen[i] = chosen[j]
      BY <3>1, <3>2
    <3>4. QED
      BY <1>1, <2>2, <3>3 DEF Chosen
  <2>3. CASE i > size /\ j > size
    <3>1. i - size \in 1..(n - size) /\ j - size \in 1..(n - size)
      BY <1>1, <2>3
    <3>2. NthOf(rest, i - size) \in 1..n /\ NthOf(rest, j - size) \in 1..n
      BY <1>3, <1>4, <3>1
    <3>a. ~(i <= size) /\ ~(j <= size)
      BY <1>1, <2>3
    <3>b. O[i] = F[NthOf(rest, i - size)] /\ O[j] = F[NthOf(rest, j - size)]
      BY <1>12, <3>a
    <3>3. F[NthOf(rest, i - size)] = F[NthOf(rest, j - size)]
      BY <2>1, <3>b
    <3>4. i - size = j - size
      BY <1>4, <3>1, <3>2, <3>3
    <3>5. QED
      BY <1>1, <3>4
  <2>4. ASSUME NEW k \in 1..n, NEW l \in 1..n, k <= size, l > size, O[k] = O[l] PROVE FALSE
    <3>1. l - size \in 1..(n - size) /\ k \in 1..size
      BY <1>1, <2>4
    <3>2. chosen[k] \in 1..n /\ NthOf(rest, l - size) \in rest
      BY <1>4, <3>1 DEF Chosen
    <3>3. F[chosen[k]] = F[NthOf(rest, l - size)]
      BY <1>1, <1>12, <2>4
    <3>4. chosen[k] = NthOf(rest, l - size)
      BY <1>3, <3>2, <3>3
    <3>5. QED
      BY <1>1, <1>2, <3>1, <3>2, <3>4 DEF RestOf
  <2>5. QED
    BY <1>1, <2>1, <2>2, <2>3, <2>4
<1>14. QED
  BY <1>11, <1>13

-----------------------------------------------------------------------------
(* The prices of a question *)

LEMMA Amounts ==
    ASSUME NEW f \in Figures
    PROVE  ToAmount(f) \in Nat \cup {Missing}
<1>1. f.num \in Nat /\ f.unit \in {"", "k", "m"}
  BY DEF Figures
<1>2. \A u : Multiplier(u) \in Nat
  BY SMT DEF Multiplier
<1>3. PICK amount : amount = f.num * Multiplier(f.unit) /\ amount \in Nat
  <2>1. \A m, n \in Nat : m * n \in Nat
    OBVIOUS
  <2>2. QED
    BY <1>1, <1>2, <2>1
<1>4. ToAmount(f) \in {amount, Missing}
  BY <1>3 DEF ToAmount
<1>5. QED
  BY <1>3, <1>4

\* A keyword that is said once, or not at all.
LEMMA SaidOnce ==
    ASSUME NEW figures \in Seq(Figures), Len(figures) <= 1
    PROVE  /\ First(figures) \in Nat \cup {Missing}
           /\ {ToAmount(f) : f \in RowsOf(figures) \ {Missing}} \ {Missing} = {First(figures)} \ {Missing}
           /\ figures = <<>> => First(figures) = Missing
<1>1. CASE figures = <<>>
  <2>1. RowsOf(figures) = {}
    BY <1>1 DEF RowsOf
  <2>2. QED
    BY <1>1, <2>1 DEF First
<1>2. CASE figures # <<>>
  <2>1. Len(figures) = 1 /\ DOMAIN figures = 1..1 /\ figures[1] \in Figures
    BY <1>2
  <2>2. RowsOf(figures) = {figures[1]}
    BY <2>1 DEF RowsOf
  <2>3. First(figures) = ToAmount(figures[1])
    BY <1>2 DEF First
  <2>4. figures[1] # Missing
    BY <2>1, RetrievalAssumption
  <2>5. QED
    BY <1>2, <2>1, <2>2, <2>3, <2>4, Amounts
<1>3. QED
  BY <1>1, <1>2

LEMMA AdmittedAsAsked ==
    ASSUME NEW q \in Queried, NEW facts, facts.price \in Nat, facts.listing, Admits(q, facts),
           Len(q.below) <= 1, Len(q.above) <= 1, q.low = Missing
    PROVE  /\ Uppers(q) # {} => \E p \in Uppers(q) \cup Lowers(q) : facts.price <= p
           /\ Lowers(q) # {} => \E p \in Uppers(q) \cup Lowers(q) : facts.price >= p
<1>1. /\ q.below \in Seq(Figures) /\ q.above \in Seq(Figures) /\ q.budget \in Figures \cup {Missing}
      /\ Missing \notin Figures /\ Missing \notin Nat
  BY RetrievalAssumption
<1>2. PICK min : min = First(q.above)
  OBVIOUS
<1>3. PICK max : max = First(q.below)
  OBVIOUS
<1>4. PICK b : b = ToAmount(q.budget)
  OBVIOUS
<1>5. /\ min \in Nat \cup {Missing} /\ max \in Nat \cup {Missing}
      /\ q.budget # Missing => b \in Nat \cup {Missing}
      /\ q.above = <<>> => min = Missing
  BY <1>1, <1>2, <1>3, <1>4, SaidOnce, Amounts
<1>6. Lowers(q) = {min} \ {Missing}
  BY <1>1, <1>2, SaidOnce DEF Lowers, Stated
<1>7. {ToAmount(f) : f \in RowsOf(q.below) \ {Missing}} \ {Missing} = {max} \ {Missing}
  BY <1>1, <1>3, SaidOnce
<1>8. \A p : p \in Uppers(q) <=> \/ p = max /\ max # Missing
                                 \/ q.above = <<>> /\ q.budget # Missing /\ p = b /\ b # Missing
  <2>1. PICK Z : Z = IF q.above = <<>> THEN {q.budget} ELSE {}
    OBVIOUS
  <2>2. Uppers(q) = {ToAmount(f) : f \in (RowsOf(q.below) \cup Z) \ {Missing}} \ {Missing}
    BY <2>1 DEF Uppers, Stated
  <2>3. \A p : p \in Uppers(q) <=> \/ p \in {ToAmount(f) : f \in RowsOf(q.below) \ {Missing}} \ {Missing}
                                   \/ p \in {ToAmount(f) : f \in Z \ {Missing}} \ {Missing}
    BY <2>2
  <2>4. \A p : p \in {ToAmount(f) : f \in Z \ {Missing}} \ {Missing} <=>
                  q.above = <<>> /\ q.budget # Missing /\ p = b /\ b # Missing
    BY <1>4, <2>1
  <2>5. QED
    BY <1>7, <2>3, <2>4
<1>9. PICK w : w = ParsePriceRange(q)
  OBVIOUS
<1>10. /\ w.max # Missing => facts.price <= w.max
       /\ w.min # Missing => facts.price >= w.min
  BY <1>9 DEF Admits
<1>11. w = IF min = Missing /\ max = Missing /\ q.budget # Missing THEN PriceWindow(Missing, b)
           ELSE PriceWindow(min, max)
  BY <1>2, <1>3, <1>4, <1>9 DEF ParsePriceRange
<1>12. CASE min = Missing /\ max = Missing /\ q.budget # Missing
  <2>1. w.max = b
    BY <1>11, <1>12 DEF PriceWindow
  <2>2. Lowers(q) = {}
    BY <1>6, <1>12
  <2>3. Uppers(q) # {} => b \in Uppers(q) /\ b # Missing
    BY <1>8, <1>12
  <2>4. QED
    BY <1>10, <2>1, <2>2, <2>3
<1>13. CASE ~(min = Missing /\ max = Missing /\ q.budget # Missing)
  <2>1. w = PriceWindow(min, max)
    BY <1>11, <1>13
  <2>2. /\ w.min \in {min, max} /\ w.max \in {min, max}
        /\ max # Missing => w.max # Missing
        /\ min # Missing => w.min # Missing
    BY <2>1 DEF PriceWindow
  <2>3. Uppers(q) # {} => max # Missing
    BY <1>5, <1>8, <1>13
  <2>4. Lowers(q) # {} => min # Missing
    BY <1>6
  <2>5. \A p \in {min, max} : p # Missing => p \in Uppers(q) \cup Lowers(q)
    BY <1>6, <1>8
  <2>6. QED
    BY <1>10, <2>2, <2>3, <2>4, <2>5
<1>14. QED
  BY <1>12, <1>13

-----------------------------------------------------------------------------
(* Why calls fail *)

\* A call fails for a cause, and one whose parameter is still to be refused after it is no
\* longer sent has another call's refusal for its cause.
Caused(c) ==
    /\ calls[c].at = "failed" => calls[c].because # "nothing"
    /\ Refused(c) /\ ~sendDimensions => calls[c].because = "another"

Causes == \A c \in CallNames : Caused(c)

LEMMA CausesInit == RetrievalInit => Causes
BY DEF RetrievalInit, Causes, Caused, Refused, Waiting, IdleCall

\* Steps that leave calls alone, or bring them to where they cannot fail at once.
LEMMA CausesStay ==
    ASSUME Causes, UNCHANGED <<takes, sendDimensions>>,
           \A c \in CallNames : calls'[c] = calls[c] \/ calls'[c].at \in {"idle", "queued", "done"}
    PROVE  Causes'
<1>1. CallNames' = CallNames
  BY DEF CallNames, Batches
<1>2. SUFFICES ASSUME NEW c \in CallNames PROVE Caused(c)'
  BY <1>1 DEF Causes
<1>3. Caused(c)
  BY DEF Causes
<1>4. CASE calls'[c] = calls[c]
  BY <1>3, <1>4 DEF Caused, Refused, Waiting
<1>5. CASE calls'[c].at \in {"idle", "queued", "done"}
  BY <1>5 DEF Caused, Refused, Waiting
<1>6. QED
  BY <1>4, <1>5

LEMMA CausesStep == Following /\ Causes /\ [RetrievalNext]_retrievalVars => Causes'
<1> SUFFICES ASSUME Following, Causes, [RetrievalNext]_retrievalVars PROVE Causes'
  OBVIOUS
<1>a. CallNames' = CallNames
  BY DEF CallNames, Batches
<1>b. calls \in [CallNames -> CallStates] /\ sendDimensions \in BOOLEAN
  BY DEF Following
<1>c. IdleCall.at = "idle" /\ \A texts : NewCall(texts).at = "queued"
  BY DEF IdleCall, NewCall
<1>1. ASSUME NEW c \in CallNames, SendBatch(c) PROVE Causes'
  <2>1. SUFFICES ASSUME NEW o \in CallNames PROVE Caused(o)'
    BY <1>a DEF Causes
  <2>2. Caused(o)
    BY DEF Causes
  <2>3. CASE o = c
    BY <1>1, <1>b, <2>3 DEF SendBatch, Caused, Refused, Waiting, CallStates
  <2>4. CASE o # c
    BY <1>1, <1>b, <2>2, <2>4 DEF SendBatch, Caused, Refused, Waiting
  <2>5. QED
    BY <2>3, <2>4
<1>2. ASSUME NEW c \in CallNames, RefuseDimensions(c) PROVE Causes'
  <2>1. SUFFICES ASSUME NEW o \in CallNames PROVE Caused(o)'
    BY <1>a DEF Causes
  <2>2. Caused(o) /\ Caused(c) /\ Refused(c) /\ sendDimensions' = FALSE /\ takes' = takes
    BY <1>2 DEF Causes, RefuseDimensions
  <2>3. CASE o = c
    <3>1. calls'[c] = IF sendDimensions THEN SentAgain(calls[c]) ELSE [calls[c] EXCEPT !.at = "failed"]
      BY <1>2 DEF RefuseDimensions
    <3>2. CASE sendDimensions
      <4>1. calls'[c].with = FALSE /\ calls'[c].at = "again"
        BY <1>b, <3>1, <3>2 DEF SentAgain, CallStates
      <4>2. QED
        BY <2>3, <4>1 DEF Caused, Refused
    <3>3. CASE ~sendDimensions
      <4>1. calls'[c].because = "another" /\ calls'[c].at = "failed"
        BY <1>b, <2>2, <3>1, <3>3 DEF Caused, CallStates
      <4>2. QED
        BY <2>3, <4>1 DEF Caused, Refused, Waiting
    <3>4. QED
      BY <3>2, <3>3
  <2>4. CASE o # c /\ Refused(o)
    <3>1. calls'[o] = [calls[o] EXCEPT !.because = "another"]
      BY <1>2, <2>4 DEF RefuseDimensions
    <3>2. calls'[o].because = "another" /\ calls'[o].at = calls[o].at
      BY <1>b, <3>1 DEF CallStates
    <3>3. QED
      BY <3>2 DEF Caused
  <2>5. CASE o # c /\ ~Refused(o)
    <3>1. calls'[o] = calls[o]
      BY <1>2, <2>5 DEF RefuseDimensions
    <3>2. ~Refused(o)'
      BY <2>2, <2>5, <3>1 DEF Refused, Waiting
    <3>3. QED
      BY <2>2, <3>1, <3>2 DEF Caused
  <2>6. QED
    BY <2>3, <2>4, <2>5
<1>3. ASSUME NEW c \in CallNames, Embed(c) PROVE Causes'
  <2>1. \A o \in CallNames : calls'[o] = calls[o] \/ calls'[o].at = "done"
    BY <1>3, <1>b DEF Embed, CallStates
  <2>2. QED
    BY <1>3, <2>1, CausesStay DEF Embed
<1>4. ASSUME NEW c \in CallNames, Falter(c) PROVE Causes'
  <2>1. SUFFICES ASSUME NEW o \in CallNames PROVE Caused(o)'
    BY <1>a DEF Causes
  <2>2. Caused(o)
    BY DEF Causes
  <2>3. takes' = takes /\ sendDimensions' = sendDimensions
    BY <1>4 DEF Falter
  <2>4. CASE calls' = [calls EXCEPT ![c].tries = @ + 1]
    <3>1. PICK k : k = calls[c].tries + 1
      OBVIOUS
    <3>2. calls' = [calls EXCEPT ![c] = [@ EXCEPT !.tries = k]]
      BY <2>4, <3>1
    <3>3. /\ calls'[o].at = calls[o].at /\ calls'[o].with = calls[o].with
          /\ calls'[o].because = calls[o].because
      BY <1>b, <3>2 DEF CallStates
    <3>4. QED
      BY <2>2, <2>3, <3>3 DEF Caused, Refused, Waiting
  <2>5. CASE calls' = [calls EXCEPT ![c] = [@ EXCEPT !.at = "failed", !.because = "provider"]]
    <3>1. calls'[o] = calls[o] \/ (calls'[o].at = "failed" /\ calls'[o].because = "provider")
      BY <1>b, <2>5 DEF CallStates
    <3>2. QED
      BY <2>2, <2>3, <3>1 DEF Caused, Refused, Waiting
  <2>6. QED
    BY <1>4, <2>4, <2>5 DEF Falter
<1>5. ASSUME StartFlush PROVE Causes'
  <2>1. \A c \in CallNames : calls'[c] = calls[c] \/ calls'[c].at = "queued"
    BY <1>5, <1>c DEF StartFlush
  <2>2. QED
    BY <1>5, <2>1, CausesStay DEF StartFlush
<1>6. ASSUME NEW b \in Batches, Forget(b) PROVE Causes'
  <2>1. \A c \in CallNames : calls'[c] = calls[c] \/ calls'[c].at = "idle"
    BY <1>6, <1>b, <1>c DEF Forget
  <2>2. QED
    BY <1>6, <2>1, CausesStay DEF Forget
<1>7. ASSUME BeginStoring PROVE Causes'
  <2>1. \A c \in CallNames : calls'[c] = calls[c] \/ calls'[c].at = "idle"
    BY <1>7, <1>c DEF BeginStoring
  <2>2. QED
    BY <1>7, <2>1, CausesStay DEF BeginStoring
<1>8. ASSUME UNCHANGED <<calls, takes, sendDimensions>> PROVE Causes'
  BY <1>8, CausesStay
<1>9. ASSUME AbandonFlush \/ StoreDocument \/ SkipDocument \/ TextSearch \/ LoseTexts \/ Rerank
             \/ \E d \in Docs : Revise(d)
      PROVE  Causes'
  BY <1>8, <1>9 DEF AbandonFlush, StoreDocument, SkipDocument, TextSearch, LoseTexts, Rerank, Revise, SearchStays
<1>10. ASSUME NEW q \in Queried, AskFor(q) PROVE Causes'
  <2>1. \A c \in CallNames : calls'[c] = calls[c] \/ calls'[c].at = "queued"
    BY <1>10, <1>b, <1>c DEF AskFor
  <2>2. QED
    BY <1>10, <2>1, CausesStay DEF AskFor
<1>11. ASSUME VectorSearch \/ LoseVectors PROVE Causes'
  <2>1. calls' = [calls EXCEPT ![Query] = IdleCall] /\ UNCHANGED <<takes, sendDimensions>>
    BY <1>11 DEF VectorSearch, LoseVectors, SearchStays
  <2>2. \A c \in CallNames : calls'[c] = calls[c] \/ calls'[c].at = "idle"
    BY <1>b, <1>c, <2>1
  <2>3. QED
    BY <2>1, <2>2, CausesStay
<1>12. CASE UNCHANGED retrievalVars
  BY <1>8, <1>12 DEF retrievalVars
<1>13. QED
  BY <1>1, <1>2, <1>3, <1>4, <1>5, <1>6, <1>7, <1>9, <1>10, <1>11, <1>12 DEF RetrievalNext

-----------------------------------------------------------------------------
(* Versions *)

\* What is stored and what is about to be are texts that the sources have had.
HadBy(t) == t.doc \in Docs /\ \E v \in 1..upstream[t.doc] : t = Text(t.doc, v)

Current ==
    /\ \A d \in Docs : upstream[d] \in 1..MaxVersions[d]
    /\ \A d \in Docs : corpus[d] = Unstored \/ \E v \in 1..upstream[d] : corpus[d].chunk = Text(d, v)
    /\ \A i \in DOMAIN flush.texts : HadBy(flush.texts[i])

LEMMA Versions == \A d \in Docs : MaxVersions[d] \in Nat \ {0}
BY RetrievalAssumption

LEMMA CurrentInit == RetrievalInit => Current
<1> SUFFICES ASSUME RetrievalInit PROVE Current
  OBVIOUS
<1>1. \A d \in Docs : upstream[d] \in 1..MaxVersions[d] /\ corpus[d] = Unstored
  BY Versions DEF RetrievalInit
<1>2. flush.texts = <<>>
  BY DEF RetrievalInit, NoFlush
<1>3. QED
  BY <1>1, <1>2 DEF Current

LEMMA CurrentStep == Following /\ Current /\ [RetrievalNext]_retrievalVars => Current'
<1> SUFFICES ASSUME Following, Current, [RetrievalNext]_retrievalVars PROVE Current'
  OBVIOUS
<1>a. /\ upstream \in [Docs -> Nat] /\ FlushOK
      /\ corpus \in [Docs -> [chunk : DocTexts \cup {Missing}, vector : DocTexts \cup {Missing}]]
  BY DEF Following, CorpusOK
<1>b. \A t, v : Text(t, v).doc = t
  BY DEF Text
<1>1. ASSUME UNCHANGED <<upstream, corpus>>, flush'.texts \in {flush.texts, <<>>} PROVE Current'
  BY <1>1 DEF Current, HadBy
<1>2. ASSUME NEW d \in Docs, Revise(d) PROVE Current'
  <2>1. /\ upstream[d] < MaxVersions[d] /\ upstream' = [upstream EXCEPT ![d] = @ + 1]
        /\ UNCHANGED <<corpus, flush>>
    BY <1>2 DEF Revise
  <2>2. \A e \in Docs : upstream'[e] \in 1..MaxVersions[e] /\ 1..upstream[e] \subseteq 1..upstream'[e]
    <3>1. SUFFICES ASSUME NEW e \in Docs
                   PROVE  upstream'[e] \in 1..MaxVersions[e] /\ 1..upstream[e] \subseteq 1..upstream'[e]
      OBVIOUS
    <3>2. upstream[e] \in 1..MaxVersions[e] /\ MaxVersions[e] \in Nat
      BY Versions DEF Current
    <3>3. upstream'[e] = IF e = d THEN upstream[e] + 1 ELSE upstream[e]
      BY <1>a, <2>1
    <3>4. QED
      BY <2>1, <3>2, <3>3
  <2>3. QED
    BY <2>1, <2>2 DEF Current, HadBy
<1>3. ASSUME StartFlush PROVE Current'
  <2>1. /\ UNCHANGED <<upstream, corpus>>
        /\ \E n \in 1..Len(Loaded) : \E pick \in [1..n -> DOMAIN Loaded] :
              flush' = [NoFlush EXCEPT !.at = "embed",
                          !.texts = [i \in 1..n |-> Text(Loaded[pick[i]], upstream[Loaded[pick[i]]])]]
    BY <1>3 DEF StartFlush
  <2>2. PICK n \in 1..Len(Loaded) : \E pick \in [1..n -> DOMAIN Loaded] :
           flush' = [NoFlush EXCEPT !.at = "embed",
                       !.texts = [i \in 1..n |-> Text(Loaded[pick[i]], upstream[Loaded[pick[i]]])]]
    BY <2>1
  <2>3. PICK pick \in [1..n -> DOMAIN Loaded] :
           flush' = [NoFlush EXCEPT !.at = "embed",
                       !.texts = [i \in 1..n |-> Text(Loaded[pick[i]], upstream[Loaded[pick[i]]])]]
    BY <2>2
  <2>4. PICK T : T = [i \in 1..n |-> Text(Loaded[pick[i]], upstream[Loaded[pick[i]]])] /\ flush'.texts = T
    BY <2>3 DEF NoFlush
  <2>5. ASSUME NEW i \in 1..n PROVE HadBy(T[i])'
    <3>1. PICK d \in Docs : d = Loaded[pick[i]]
      BY DEF Docs
    <3>2. upstream[d] \in 1..upstream'[d]
      <4>1. upstream[d] \in 1..MaxVersions[d] /\ MaxVersions[d] \in Nat
        BY Versions DEF Current
      <4>2. QED
        BY <2>1, <4>1
    <3>3. PICK u : u = upstream[d]
      OBVIOUS
    <3>4. PICK t : t = Text(d, u)
      OBVIOUS
    <3>5. t.doc = d
      BY <1>b, <3>4
    <3>6. HadBy(t)'
      BY <3>2, <3>3, <3>4, <3>5 DEF HadBy
    <3>7. QED
      BY <2>4, <3>1, <3>3, <3>4, <3>6
  <2>6. \A i \in DOMAIN T : HadBy(T[i])'
    BY <2>4, <2>5
  <2>7. QED
    BY <2>1, <2>4, <2>6 DEF Current, HadBy
<1>4. ASSUME flush.at = "store", AfterDocument PROVE flush'.texts \in {flush.texts, <<>>}
  BY <1>4, <1>a DEF AfterDocument, NoFlush, FlushOK
<1>5. ASSUME StoreDocument PROVE Current'
  <2>1. PICK t : t = flush.texts[flush.next]
    OBVIOUS
  <2>2. PICK w : w = flush.vectors[flush.next]
    OBVIOUS
  <2>3. /\ flush.at = "store" /\ AfterDocument /\ UNCHANGED upstream
        /\ corpus' = [corpus EXCEPT ![t.doc] = [chunk |-> t, vector |-> w]]
    BY <1>5, <2>1, <2>2 DEF StoreDocument
  <2>4. HadBy(t)
    BY <1>a, <2>1, <2>3 DEF FlushOK, Current
  <2>5. flush'.texts \in {flush.texts, <<>>}
    BY <1>4, <2>3
  <2>6. \A d \in Docs : corpus'[d] = Unstored \/ \E v \in 1..upstream'[d] : corpus'[d].chunk = Text(d, v)
    <3>1. TAKE d \in Docs
    <3>2. CASE d = t.doc
      <4>1. corpus'[d].chunk = t
        BY <1>a, <2>3, <3>2
      <4>2. QED
        BY <2>3, <2>4, <3>2, <4>1 DEF HadBy
    <3>3. CASE d # t.doc
      <4>1. corpus'[d] = corpus[d]
        BY <1>a, <2>3, <3>3
      <4>2. QED
        BY <2>3, <4>1 DEF Current
    <3>4. QED
      BY <3>2, <3>3
  <2>7. QED
    BY <2>3, <2>5, <2>6 DEF Current, HadBy
<1>6. ASSUME SkipDocument PROVE Current'
  BY <1>1, <1>4, <1>6 DEF SkipDocument
<1>7. ASSUME AbandonFlush PROVE Current'
  BY <1>1, <1>7 DEF AbandonFlush, NoFlush
<1>8. ASSUME BeginStoring PROVE Current'
  <2>1. flush'.texts = flush.texts /\ UNCHANGED <<upstream, corpus>>
    BY <1>8, <1>a DEF BeginStoring, FlushOK
  <2>2. QED
    BY <1>1, <2>1
<1>9. ASSUME UNCHANGED <<upstream, corpus, flush>> PROVE Current'
  BY <1>1, <1>9
<1>10. ASSUME \E c \in CallNames : SendBatch(c) \/ RefuseDimensions(c) \/ Embed(c) \/ Falter(c)
       PROVE  Current'
  BY <1>9, <1>10 DEF SendBatch, RefuseDimensions, Embed, Falter
<1>11. ASSUME (\E b \in Batches : Forget(b)) \/ \E q \in Queried : AskFor(q) PROVE Current'
  BY <1>9, <1>11 DEF Forget, AskFor
<1>12. ASSUME VectorSearch \/ TextSearch \/ LoseVectors \/ LoseTexts \/ Rerank PROVE Current'
  BY <1>9, <1>12 DEF VectorSearch, TextSearch, LoseVectors, LoseTexts, Rerank, SearchStays
<1>13. CASE UNCHANGED retrievalVars
  BY <1>9, <1>13 DEF retrievalVars
<1>14. QED
  BY <1>2, <1>3, <1>5, <1>6, <1>7, <1>8, <1>10, <1>11, <1>12, <1>13 DEF RetrievalNext

-----------------------------------------------------------------------------
(* A search *)

\* A row that the question's filters admit; the rows of a branch, once it has them; what
\* the branches have found so far.
AsAsked(q, c) ==
    c.doc \in Docs /\ c.version \in 1..MaxVersions[c.doc] /\ Admits(q, Facts(c.doc, c.version))

RowsFit(q, rows) ==
    rows # Missing => /\ \E n \in 0..TopK : IsRanking(rows, n)
                      /\ \A c \in RowsOf(rows) : AsAsked(q, c)

RowsSoFar(rows) == IF rows = Missing THEN {} ELSE RowsOf(rows)
FoundBy(s) == RowsSoFar(s.vector) \cup RowsSoFar(s.text)

\* The answer: of what was found, once each, as many as were asked for.
AnswerFits(s) ==
    \E n \in Nat : /\ n = Least(TopN, Cardinality(FoundBy(s)))
                   /\ s.answer \in [1..n -> FoundBy(s)]
                   /\ \A i, j \in 1..n : i # j => s.answer[i] # s.answer[j]

IsSearch(s) ==
    s = [at |-> s.at, question |-> s.question, vector |-> s.vector, text |-> s.text,
         candidates |-> s.candidates, answer |-> s.answer]

SearchFits(s) ==
    /\ IsSearch(s) /\ s.at \in {"idle", "branches", "rerank", "answered"}
    /\ s.at # "idle" =>
          s.question \in Queried /\ RowsFit(s.question, s.vector) /\ RowsFit(s.question, s.text)
    /\ s.at = "branches" => s.answer = <<>>
    /\ s.at \in {"rerank", "answered"} => Missing \notin {s.vector, s.text}
    /\ s.at = "rerank" => s.candidates = Fuse(s.vector, s.text)
    /\ s.at = "answered" => AnswerFits(s)

\* What was found is still what is stored, or was stored again since.
Fresh == search.at \in {"branches", "rerank"} =>
             \A c \in FoundBy(search) : c.doc \in rewritten \/ corpus[c.doc].chunk = c

OneVersion == search.at = "answered" =>
             \A a, b \in FoundBy(search) : a.doc = b.doc /\ a # b => a.doc \in rewritten

Searching == SearchFits(search) /\ Fresh /\ OneVersion

LEMMA SearchingInit == RetrievalInit => Searching
BY DEF RetrievalInit, Searching, SearchFits, IsSearch, NoSearch, Fresh, OneVersion

-----------------------------------------------------------------------------
(* The branches *)

LEMMA DocsAreFinite == IsFiniteSet(Docs)
<1>1. PICK n \in Nat : n = Len(Loaded) /\ Loaded \in [1..n -> Docs]
  BY RetrievalAssumption
<1>2. \A d \in Docs : \E i \in 1..n : Loaded[i] = d
  BY <1>1 DEF Docs
<1>3. Loaded \in Surjection(1..n, Docs)
  BY <1>1, <1>2 DEF Surjection
<1>4. QED
  BY <1>3, CountedTo, FS_Surjection

\* The chunks that a question admits: as they are stored.
LEMMA AdmittedFit ==
    ASSUME Current, Following, search.question \in Queried
    PROVE  /\ IsFiniteSet(Admitted)
           /\ \A c \in Admitted : AsAsked(search.question, c) /\ corpus[c.doc].chunk = c
<1>1. PICK q \in Queried : q = search.question
  OBVIOUS
<1>2. PICK D : D = {e \in Docs : corpus[e] # Unstored /\ Admits(q, Facts(e, corpus[e].chunk.version))}
  OBVIOUS
<1>3. PICK A : A = Admitted /\ A = {corpus[d].chunk : d \in D}
  BY <1>1, <1>2 DEF Admitted
<1>4. IsFiniteSet(A)
  <2>1. PICK f : f = [d \in D |-> corpus[d].chunk]
    OBVIOUS
  <2>2. f \in [D -> A] /\ \A c \in A : \E d \in D : f[d] = c
    BY <1>3, <2>1
  <2>3. f \in Surjection(D, A)
    BY <2>2 DEF Surjection
  <2>4. IsFiniteSet(D)
    BY <1>2, DocsAreFinite, FS_Subset
  <2>5. QED
    BY <2>3, <2>4, FS_Surjection
<1>5. ASSUME NEW c \in A PROVE AsAsked(q, c) /\ corpus[c.doc].chunk = c
  <2>1. PICK d \in D : c = corpus[d].chunk
    BY <1>3
  <2>2. d \in Docs /\ corpus[d] # Unstored /\ Admits(q, Facts(d, c.version))
    BY <1>2, <2>1
  <2>3. PICK v \in 1..upstream[d] : c = Text(d, v)
    BY <2>1, <2>2 DEF Current
  <2>4. c.doc = d /\ c.version = v
    BY <2>3 DEF Text
  <2>5. v \in 1..MaxVersions[d]
    <3>1. upstream[d] \in 1..MaxVersions[d] /\ MaxVersions[d] \in Nat
      BY <2>2, Versions DEF Current
    <3>2. QED
      BY <3>1
  <2>6. QED
    BY <2>1, <2>2, <2>4, <2>5 DEF AsAsked
<1>6. QED
  BY <1>1, <1>3, <1>4, <1>5

\* The first rows of an order are a ranking of members of the set.
LEMMA FirstRows ==
    ASSUME NEW C, IsFiniteSet(C), NEW rows \in Rankings(C, Least(TopK, Cardinality(C)))
    PROVE  (\E n \in 0..TopK : IsRanking(rows, n)) /\ RowsOf(rows) \subseteq C
<1>1. PICK n : n = Least(TopK, Cardinality(C))
  OBVIOUS
<1>2. Cardinality(C) \in Nat
  BY FS_CardinalityType
<1>3. n \in 0..TopK
  BY <1>1, <1>2, Sizes DEF Least
<1>4. rows \in [1..n -> C] /\ \A i, j \in 1..n : i # j => rows[i] # rows[j]
  BY <1>1 DEF Rankings
<1>5. IsRanking(rows, n)
  BY <1>3, <1>4 DEF IsRanking
<1>6. RowsOf(rows) \subseteq C
  BY <1>4 DEF RowsOf
<1>7. QED
  BY <1>3, <1>5, <1>6

LEMMA NoRows == ASSUME NEW q PROVE RowsFit(q, <<>>) /\ RowsOf(<<>>) = {} /\ RowsSoFar(<<>>) = {}
<1>1. RowsOf(<<>>) = {}
  BY DEF RowsOf
<1>2. <<>> = [i \in 1..0 |-> <<>>[i]] /\ DOMAIN <<>> = 1..0 /\ 0 \in 0..TopK
  BY Sizes
<1>3. IsRanking(<<>>, 0)
  BY <1>2 DEF IsRanking
<1>4. QED
  BY <1>1, <1>2, <1>3 DEF RowsFit, RowsSoFar

\* Nothing found: an answer of nothing.
LEMMA NothingFound ==
    ASSUME NEW s, FoundBy(s) = {}, s.answer = <<>>
    PROVE  AnswerFits(s)
<1>1. Cardinality(FoundBy(s)) = 0
  BY FS_EmptySet
<1>2. Least(TopN, 0) = 0
  BY RetrievalAssumption DEF Least
<1>3. s.answer \in [1..0 -> FoundBy(s)]
  OBVIOUS
<1>4. QED
  BY <1>1, <1>2, <1>3 DEF AnswerFits

\* A branch comes back.
LEMMA BranchBack ==
    ASSUME Searching, search.at = "branches", NEW near, NEW worded, Found(near, worded),
           UNCHANGED <<corpus, rewritten>>,
           RowsFit(search.question, near), RowsFit(search.question, worded),
           \A c \in RowsSoFar(near) \cup RowsSoFar(worded) : c.doc \in rewritten \/ corpus[c.doc].chunk = c
    PROVE  Searching'
<1>1. PICK at : at = IF Missing \in {near, worded} THEN "branches"
                     ELSE IF near = <<>> /\ worded = <<>> THEN "answered" ELSE "rerank"
  OBVIOUS
<1>2. PICK candidates : candidates = IF Missing \in {near, worded} THEN <<>> ELSE Fuse(near, worded)
  OBVIOUS
<1>3. PICK q : q = search.question /\ q \in Queried
  BY DEF Searching, SearchFits
<1>4. PICK s : s = [at |-> at, question |-> q, vector |-> near, text |-> worded,
                    candidates |-> candidates, answer |-> <<>>]
  OBVIOUS
<1>5. search' = s
  <2>1. search' = [search EXCEPT !.vector = near, !.text = worded, !.at = at, !.candidates = candidates]
    BY <1>1, <1>2 DEF Found
  <2>2. PICK v : v = search.vector
    OBVIOUS
  <2>3. PICK t : t = search.text
    OBVIOUS
  <2>4. PICK c : c = search.candidates
    OBVIOUS
  <2>5. search = [at |-> "branches", question |-> q, vector |-> v, text |-> t, candidates |-> c, answer |-> <<>>]
    BY <1>3, <2>2, <2>3, <2>4 DEF Searching, SearchFits, IsSearch
  <2>6. search \in [at : {"branches"}, question : {q}, vector : {v}, text : {t},
                   candidates : {c}, answer : {<<>>}]
    BY <2>5
  <2>7. PICK new : new = [search EXCEPT !.vector = near, !.text = worded, !.at = at, !.candidates = candidates]
    OBVIOUS
  <2>8. new \in [at : {at}, question : {q}, vector : {near}, text : {worded},
                 candidates : {candidates}, answer : {<<>>}]
    BY <2>6, <2>7
  <2>9. new = s
    BY <1>4, <2>8
  <2>10. QED
    BY <2>1, <2>7, <2>9, Zenon
<1>6. /\ s.at = at /\ s.question = q /\ s.vector = near /\ s.text = worded
      /\ s.candidates = candidates /\ s.answer = <<>>
  BY <1>4
<1>7. FoundBy(s) = RowsSoFar(near) \cup RowsSoFar(worded)
  BY <1>6 DEF FoundBy
<1>8. at = "answered" => near = <<>> /\ worded = <<>> /\ Missing \notin {near, worded}
  BY <1>1
<1>9. at = "answered" => FoundBy(s) = {}
  BY <1>7, <1>8, NoRows
<1>10. at = "answered" => AnswerFits(s)
  BY <1>6, <1>9, NothingFound
<1>11. IsSearch(s)
  BY <1>4, <1>6 DEF IsSearch
<1>12. SearchFits(s)
  BY <1>1, <1>2, <1>3, <1>6, <1>10, <1>11 DEF SearchFits
<1>13. QED
  BY <1>5, <1>6, <1>7, <1>9, <1>12 DEF Searching, Fresh, OneVersion

\* An end of the list, counted from the front.
LEMMA FirstOf ==
    ASSUME NEW S, NEW n \in Nat, NEW O \in Seq(S), Len(O) = n, NEW m \in 0..n
    PROVE  SubSeq(O, 1, m) \in [1..m -> S] /\ \A i \in 1..m : SubSeq(O, 1, m)[i] = O[i]
<1>1. \A i \in 1..n : O[i] \in S
  OBVIOUS
<1>2. 1 \in 1..(n + 1) /\ m \in 0..n /\ m - 1 + 1 = m /\ \A i \in 1..m : 1 + i - 1 = i
  OBVIOUS
<1>3. /\ SubSeq(O, 1, m) \in Seq(S) /\ Len(SubSeq(O, 1, m)) = m
      /\ \A i \in 1..m : SubSeq(O, 1, m)[i] = O[i]
  BY <1>2, SubSeqProperties
<1>4. PICK P : P = SubSeq(O, 1, m)
  OBVIOUS
<1>5. P \in Seq(S) /\ Len(P) = m
  BY <1>3, <1>4
<1>6. P \in [1..m -> S]
  BY <1>5
<1>7. QED
  BY <1>3, <1>4, <1>6

\* Reranked.
LEMMA Reranked ==
    ASSUME NEW s, SearchFits(s), s.at = "rerank",
           NEW n, n = Len(s.candidates), NEW size \in 1..Least(TopN, n), NEW chosen \in Rankings(1..n, size),
           NEW O, O = WithTail(s.candidates, chosen),
           NEW A, A = SubSeq(O, 1, Least(TopN, Len(O))),
           NEW u, IsSearch(u), u.at = "answered", u.answer = A, u.question = s.question,
           u.vector = s.vector, u.text = s.text
    PROVE  SearchFits(u) /\ FoundBy(u) = FoundBy(s)
<1>1. PICK S : S = FoundBy(s)
  OBVIOUS
<1>2. S = RowsOf(s.vector) \cup RowsOf(s.text)
  BY <1>1 DEF SearchFits, FoundBy, RowsSoFar
<1>3. (\E l \in 0..TopK : IsRanking(s.vector, l)) /\ \E l \in 0..TopK : IsRanking(s.text, l)
  BY DEF SearchFits, RowsFit
<1>4. PICK F : F = s.candidates /\ F = Fuse(s.vector, s.text)
  BY DEF SearchFits
<1>5. PICK N : N = Cardinality(S)
  OBVIOUS
<1>6. N \in Nat /\ F \in [1..N -> S] /\ \A i, j \in 1..N : F[i] = F[j] => i = j
  <2>1. PICK l : IsRanking(s.vector, l)
    BY <1>3
  <2>2. PICK m : IsRanking(s.text, m)
    BY <1>3
  <2>3. QED
    BY <1>2, <1>4, <1>5, <2>1, <2>2, FusedUp
<1>7. F \in Seq(RowsOf(F)) /\ Len(F) = N /\ RowsOf(F) \subseteq S
  <2>1. F \in [1..N -> RowsOf(F)]
    BY <1>6 DEF RowsOf
  <2>2. RowsOf(F) \subseteq S
    BY <1>6 DEF RowsOf
  <2>3. QED
    BY <1>6, <2>1, <2>2
<1>8. n = N
  BY <1>4, <1>7
<1>9. Chosen(n, size, chosen)
  <2>1. Least(TopN, n) \in 0..n
    BY <1>6, <1>8, RetrievalAssumption DEF Least
  <2>2. size \in 0..n
    BY <1>6, <1>8, <2>1
  <2>3. QED
    BY <2>2 DEF Chosen, Rankings
<1>10. O \in Seq(RowsOf(F)) /\ Len(O) = N /\ \A i, j \in 1..N : O[i] = O[j] => i = j
  BY <1>4, <1>6, <1>7, <1>8, <1>9, TailFollows
<1>11. PICK m : m = Least(TopN, N) /\ m \in 0..N
  BY <1>6, RetrievalAssumption DEF Least
<1>12. A \in [1..m -> S] /\ \A i \in 1..m : A[i] = O[i]
  <2>1. A = SubSeq(O, 1, m)
    BY <1>10, <1>11
  <2>2. A \in [1..m -> RowsOf(F)] /\ \A i \in 1..m : A[i] = O[i]
    BY <1>6, <1>10, <1>11, <2>1, FirstOf
  <2>3. QED
    BY <1>7, <2>2
<1>13. \A i, j \in 1..m : i # j => A[i] # A[j]
  <2>1. \A i \in 1..m : i \in 1..N /\ A[i] = O[i]
    <3>1. \A i \in 1..m : i \in 1..N
      BY <1>6, <1>11
    <3>2. QED
      BY <1>12, <3>1, Zenon
  <2>2. SUFFICES ASSUME NEW i \in 1..m, NEW j \in 1..m, i # j PROVE A[i] # A[j]
    OBVIOUS
  <2>3. i \in 1..N /\ j \in 1..N /\ A[i] = O[i] /\ A[j] = O[j]
    BY <2>1, <2>2, Zenon
  <2>4. O[i] # O[j]
    BY <1>10, <2>2, <2>3, Zenon
  <2>5. QED
    BY <2>3, <2>4, Zenon
<1>14. FoundBy(u) = FoundBy(s)
  BY DEF FoundBy
<1>15. AnswerFits(u)
  <2>1. FoundBy(u) = S
    BY <1>1, <1>14
  <2>2. m \in Nat /\ m = Least(TopN, Cardinality(FoundBy(u))) /\ u.answer \in [1..m -> FoundBy(u)]
    BY <1>5, <1>6, <1>11, <1>12, <2>1
  <2>3. \A i, j \in 1..m : i # j => u.answer[i] # u.answer[j]
    BY <1>13
  <2>4. QED
    BY <2>2, <2>3 DEF AnswerFits
<1>16. QED
  BY <1>14, <1>15 DEF SearchFits

\* The rows of a branch, from what is stored now.
LEMMA RowsAreFresh ==
    ASSUME Current, Following, search.question \in Queried, NEW C, C \subseteq Admitted,
           NEW rows \in Rankings(C, Least(TopK, Cardinality(C)))
    PROVE  /\ RowsFit(search.question, rows)
           /\ \A c \in RowsSoFar(rows) : c.doc \in rewritten \/ corpus[c.doc].chunk = c
<1>1. PICK A : A = Admitted
  OBVIOUS
<1>2. IsFiniteSet(A) /\ \A c \in A : AsAsked(search.question, c) /\ corpus[c.doc].chunk = c
  BY <1>1, AdmittedFit
<1>3. IsFiniteSet(C)
  BY <1>1, <1>2, FS_Subset
<1>4. (\E n \in 0..TopK : IsRanking(rows, n)) /\ RowsOf(rows) \subseteq C
  BY <1>3, FirstRows
<1>5. QED
  BY <1>1, <1>2, <1>4 DEF RowsFit, RowsSoFar

LEMMA SearchingStep ==
    Following /\ Current /\ Searching /\ [RetrievalNext]_retrievalVars => Searching'
<1> SUFFICES ASSUME Following, Current, Searching, [RetrievalNext]_retrievalVars PROVE Searching'
  OBVIOUS
<1>a. ASSUME search.at = "branches"
      PROVE  /\ search.question \in Queried
             /\ RowsFit(search.question, search.vector) /\ RowsFit(search.question, search.text)
             /\ \A c \in RowsSoFar(search.vector) \cup RowsSoFar(search.text) :
                   c.doc \in rewritten \/ corpus[c.doc].chunk = c
  BY <1>a DEF Searching, SearchFits, Fresh, FoundBy
<1>1. ASSUME UNCHANGED <<search, corpus, rewritten>> PROVE Searching'
  BY <1>1 DEF Searching, Fresh, OneVersion
<1>2. ASSUME \/ \E c \in CallNames : SendBatch(c) \/ RefuseDimensions(c) \/ Embed(c) \/ Falter(c)
             \/ \E d \in Docs : Revise(d)
             \/ \E b \in Batches : Forget(b)
             \/ StartFlush \/ AbandonFlush \/ BeginStoring \/ SkipDocument
      PROVE  Searching'
  BY <1>1, <1>2 DEF SendBatch, RefuseDimensions, Embed, Falter, Revise, Forget, StartFlush,
                    AbandonFlush, BeginStoring, SkipDocument
<1>3. ASSUME StoreDocument PROVE Searching'
  <2>1. PICK t : t = flush.texts[flush.next]
    OBVIOUS
  <2>2. PICK w : w = flush.vectors[flush.next]
    OBVIOUS
  <2>3. /\ corpus' = [corpus EXCEPT ![t.doc] = [chunk |-> t, vector |-> w]]
        /\ rewritten' = IF search.at \in {"idle", "answered"} THEN rewritten ELSE rewritten \cup {t.doc}
        /\ UNCHANGED search
    BY <1>3, <2>1, <2>2 DEF StoreDocument
  <2>4. SearchFits(search)'
    BY <2>3 DEF Searching
  <2>5. Fresh'
    <3>1. SUFFICES ASSUME search.at \in {"branches", "rerank"}, NEW c \in FoundBy(search)
                   PROVE  c.doc \in rewritten' \/ corpus'[c.doc].chunk = c
      BY <2>3 DEF Fresh
    <3>2. c.doc \in rewritten \/ corpus[c.doc].chunk = c
      BY <3>1 DEF Searching, Fresh
    <3>3. rewritten' = rewritten \cup {t.doc}
      BY <2>3, <3>1
    <3>4. c.doc # t.doc => corpus'[c.doc] = corpus[c.doc]
      BY <2>3 DEF Following, CorpusOK
    <3>5. QED
      BY <3>2, <3>3, <3>4
  <2>6. OneVersion'
    BY <2>3 DEF Searching, OneVersion
  <2>7. QED
    BY <2>4, <2>5, <2>6 DEF Searching
<1>4. ASSUME NEW q \in Queried, AskFor(q) PROVE Searching'
  <2>1. PICK s : s = [at |-> "branches", question |-> q, vector |-> Missing, text |-> Missing,
                      candidates |-> <<>>, answer |-> <<>>]
    OBVIOUS
  <2>2. search' = s
    <3>1. PICK new : new = [NoSearch EXCEPT !.at = "branches", !.question = q] /\ search' = new
      BY <1>4 DEF AskFor
    <3>2. NoSearch \in [at : {"idle"}, question : {Missing}, vector : {Missing}, text : {Missing},
                        candidates : {<<>>}, answer : {<<>>}]
      BY DEF NoSearch
    <3>3. new \in [at : {"branches"}, question : {q}, vector : {Missing}, text : {Missing},
                   candidates : {<<>>}, answer : {<<>>}]
      BY <3>1, <3>2
    <3>4. new = s
      BY <2>1, <3>3
    <3>5. QED
      BY <3>1, <3>4
  <2>3. SearchFits(s) /\ FoundBy(s) = {} /\ s.at = "branches"
    BY <2>1 DEF SearchFits, IsSearch, RowsFit, FoundBy, RowsSoFar
  <2>4. QED
    BY <2>2, <2>3 DEF Searching, Fresh, OneVersion
<1>5. ASSUME VectorSearch PROVE Searching'
  <2>1. /\ search.at = "branches" /\ UNCHANGED <<corpus, rewritten>>
        /\ \E near \in Rankings(Admitted, Least(TopK, Cardinality(Admitted))) : Found(near, search.text)
    BY <1>5 DEF VectorSearch, SearchStays
  <2>2. PICK C : C = Admitted
    OBVIOUS
  <2>3. PICK near \in Rankings(C, Least(TopK, Cardinality(C))) : Found(near, search.text)
    BY <2>1, <2>2
  <2>4. /\ RowsFit(search.question, near)
        /\ \A c \in RowsSoFar(near) : c.doc \in rewritten \/ corpus[c.doc].chunk = c
    BY <1>a, <2>1, <2>2, RowsAreFresh
  <2>5. PICK worded : worded = search.text
    OBVIOUS
  <2>6. \A c \in RowsSoFar(near) \cup RowsSoFar(worded) : c.doc \in rewritten \/ corpus[c.doc].chunk = c
    BY <1>a, <2>1, <2>4, <2>5
  <2>7. QED
    BY <1>a, <2>1, <2>3, <2>4, <2>5, <2>6, BranchBack
<1>6. ASSUME TextSearch PROVE Searching'
  <2>1. PICK C : C = {c \in Admitted : c.doc \in Words(search.question)}
    OBVIOUS
  <2>2. /\ search.at = "branches" /\ UNCHANGED <<corpus, rewritten>>
        /\ \E worded \in Rankings(C, Least(TopK, Cardinality(C))) : Found(search.vector, worded)
    BY <1>6, <2>1 DEF TextSearch, SearchStays
  <2>3. PICK worded \in Rankings(C, Least(TopK, Cardinality(C))) : Found(search.vector, worded)
    BY <2>2
  <2>4. /\ RowsFit(search.question, worded)
        /\ \A c \in RowsSoFar(worded) : c.doc \in rewritten \/ corpus[c.doc].chunk = c
    <3>1. C \subseteq Admitted
      BY <2>1
    <3>2. QED
      BY <1>a, <2>2, <3>1, RowsAreFresh
  <2>5. PICK near : near = search.vector
    OBVIOUS
  <2>6. \A c \in RowsSoFar(near) \cup RowsSoFar(worded) : c.doc \in rewritten \/ corpus[c.doc].chunk = c
    BY <1>a, <2>2, <2>4, <2>5
  <2>7. QED
    BY <1>a, <2>2, <2>3, <2>4, <2>5, <2>6, BranchBack
<1>7. ASSUME LoseVectors PROVE Searching'
  <2>1. search.at = "branches" /\ UNCHANGED <<corpus, rewritten>> /\ Found(<<>>, search.text)
    BY <1>7 DEF LoseVectors, SearchStays
  <2>2. PICK worded : worded = search.text
    OBVIOUS
  <2>3. PICK near : near = <<>>
    OBVIOUS
  <2>4. RowsFit(search.question, near) /\ RowsSoFar(near) = {}
    BY <2>3, NoRows
  <2>5. \A c \in RowsSoFar(near) \cup RowsSoFar(worded) : c.doc \in rewritten \/ corpus[c.doc].chunk = c
    BY <1>a, <2>1, <2>2, <2>4
  <2>6. QED
    BY <1>a, <2>1, <2>2, <2>3, <2>4, <2>5, BranchBack
<1>8. ASSUME LoseTexts PROVE Searching'
  <2>1. search.at = "branches" /\ UNCHANGED <<corpus, rewritten>> /\ Found(search.vector, <<>>)
    BY <1>8 DEF LoseTexts, SearchStays
  <2>2. PICK near : near = search.vector
    OBVIOUS
  <2>3. PICK worded : worded = <<>>
    OBVIOUS
  <2>4. RowsFit(search.question, worded) /\ RowsSoFar(worded) = {}
    BY <2>3, NoRows
  <2>5. \A c \in RowsSoFar(near) \cup RowsSoFar(worded) : c.doc \in rewritten \/ corpus[c.doc].chunk = c
    BY <1>a, <2>1, <2>2, <2>4
  <2>6. QED
    BY <1>a, <2>1, <2>2, <2>3, <2>4, <2>5, BranchBack
<1>9. ASSUME Rerank PROVE Searching'
  <2>1. PICK s : s = search
    OBVIOUS
  <2>2. PICK n : n = Len(s.candidates)
    OBVIOUS
  <2>3. /\ s.at = "rerank" /\ UNCHANGED <<corpus, rewritten>>
        /\ \E size \in 1..Least(TopN, n) : \E chosen \in Rankings(1..n, size) :
              search' = [s EXCEPT !.at = "answered",
                           !.answer = SubSeq(WithTail(s.candidates, chosen), 1,
                                             Least(TopN, Len(WithTail(s.candidates, chosen))))]
    BY <1>9, <2>1, <2>2 DEF Rerank, SearchStays
  <2>4. PICK size \in 1..Least(TopN, n) : \E chosen \in Rankings(1..n, size) :
              search' = [s EXCEPT !.at = "answered",
                           !.answer = SubSeq(WithTail(s.candidates, chosen), 1,
                                             Least(TopN, Len(WithTail(s.candidates, chosen))))]
    BY <2>3
  <2>5. PICK chosen \in Rankings(1..n, size) :
              search' = [s EXCEPT !.at = "answered",
                           !.answer = SubSeq(WithTail(s.candidates, chosen), 1,
                                             Least(TopN, Len(WithTail(s.candidates, chosen))))]
    BY <2>4
  <2>6. PICK O : O = WithTail(s.candidates, chosen)
    OBVIOUS
  <2>7. PICK A : A = SubSeq(O, 1, Least(TopN, Len(O)))
    OBVIOUS
  <2>8. PICK u : u = [s EXCEPT !.at = "answered", !.answer = A] /\ search' = u
    BY <2>5, <2>6, <2>7
  <2>9. SearchFits(s)
    BY <2>1 DEF Searching
  <2>a. u = [at |-> "answered", question |-> s.question, vector |-> s.vector, text |-> s.text,
             candidates |-> s.candidates, answer |-> A]
    BY <2>8, <2>9 DEF SearchFits, IsSearch
  <2>11. /\ IsSearch(u) /\ u.at = "answered" /\ u.question = s.question /\ u.vector = s.vector
         /\ u.text = s.text /\ u.answer = A
    BY <2>a DEF IsSearch
  <2>10. SearchFits(u) /\ FoundBy(u) = FoundBy(s)
    BY <2>2, <2>3, <2>6, <2>7, <2>9, <2>11, Reranked
  <2>12. Fresh' /\ OneVersion'
    <3>1. \A c \in FoundBy(s) : c.doc \in rewritten \/ corpus[c.doc].chunk = c
      BY <2>1, <2>3 DEF Searching, Fresh
    <3>2. QED
      BY <2>3, <2>8, <2>10, <2>11, <3>1 DEF Fresh, OneVersion
  <2>13. QED
    BY <2>8, <2>10, <2>12 DEF Searching
<1>10. CASE UNCHANGED retrievalVars
  BY <1>1, <1>10 DEF retrievalVars
<1>11. QED
  BY <1>2, <1>3, <1>4, <1>5, <1>6, <1>7, <1>8, <1>9, <1>10 DEF RetrievalNext

-----------------------------------------------------------------------------
(* What retrieval promises *)

\* An answer that fits is of the chunks that were found.
LEMMA AnswerCounted ==
    ASSUME SearchFits(search), Answered
    PROVE  /\ Len(search.answer) = Least(TopN, Cardinality(FoundBy(search)))
           /\ Cardinality(Answer) = Len(search.answer)
           /\ Answer \subseteq FoundBy(search)
<1>1. AnswerFits(search)
  BY DEF SearchFits, Answered
<1>2. PICK n \in Nat : /\ n = Least(TopN, Cardinality(FoundBy(search)))
                       /\ search.answer \in [1..n -> FoundBy(search)]
                       /\ \A i, j \in 1..n : i # j => search.answer[i] # search.answer[j]
  BY <1>1 DEF AnswerFits
<1>3. PICK rows : rows = search.answer
  OBVIOUS
<1>4. DOMAIN rows = 1..n /\ rows = [i \in 1..n |-> rows[i]] /\ \A i, j \in 1..n : i # j => rows[i] # rows[j]
  BY <1>2, <1>3
<1>5. Cardinality(RowsOf(rows)) = n
  BY <1>4, RowsCounted
<1>6. Len(rows) = n
  BY <1>4
<1>7. RowsOf(rows) \subseteq FoundBy(search)
  BY <1>2, <1>3 DEF RowsOf
<1>8. QED
  BY <1>2, <1>3, <1>5, <1>6, <1>7 DEF Answer

LEMMA SharedComeFirst == Searching => SharedFirst
<1> SUFFICES ASSUME Searching, search.at = "rerank",
                    NEW i \in DOMAIN search.candidates, NEW j \in DOMAIN search.candidates,
                    search.candidates[i] \in InBoth, search.candidates[j] \notin InBoth
             PROVE  i < j
  BY DEF SharedFirst
<1>1. PICK near : near = search.vector
  OBVIOUS
<1>2. PICK worded : worded = search.text
  OBVIOUS
<1>3. PICK F : F = search.candidates /\ F = Fuse(near, worded)
  BY <1>1, <1>2 DEF Searching, SearchFits
<1>4. (\E n \in 0..TopK : IsRanking(near, n)) /\ \E n \in 0..TopK : IsRanking(worded, n)
  BY <1>1, <1>2 DEF Searching, SearchFits, RowsFit
<1>5. PICK m : IsRanking(near, m)
  BY <1>4
<1>6. PICK n : IsRanking(worded, n)
  BY <1>4
<1>7. PICK S : S = RowsOf(near) \cup RowsOf(worded)
  OBVIOUS
<1>8. /\ F \in [1..Cardinality(S) -> S]
      /\ \A k, l \in 1..Cardinality(S) :
            F[k] \in RowsOf(near) \cap RowsOf(worded) /\ F[l] \notin RowsOf(near) \cap RowsOf(worded)
            => k < l
  BY <1>3, <1>5, <1>6, <1>7, FusedUp
<1>9. QED
  BY <1>1, <1>2, <1>3, <1>8 DEF InBoth

LEMMA AnswersFill == Searching => NeverStarved
<1> SUFFICES ASSUME Searching, Answered
             PROVE  /\ Len(search.answer) =
                          Least(TopN, Cardinality(RowsOf(search.vector) \cup RowsOf(search.text)))
                    /\ Cardinality(Answer) = Len(search.answer)
                    /\ \A a, b \in Answer : a.doc = b.doc /\ a # b => a.doc \in rewritten
  BY DEF NeverStarved
<1>1. SearchFits(search) /\ FoundBy(search) = RowsOf(search.vector) \cup RowsOf(search.text)
  BY DEF Searching, SearchFits, Answered, FoundBy, RowsSoFar
<1>2. /\ Len(search.answer) = Least(TopN, Cardinality(FoundBy(search)))
      /\ Cardinality(Answer) = Len(search.answer)
      /\ Answer \subseteq FoundBy(search)
  BY <1>1, AnswerCounted
<1>3. \A a, b \in FoundBy(search) : a.doc = b.doc /\ a # b => a.doc \in rewritten
  BY DEF Searching, OneVersion, Answered
<1>4. QED
  BY <1>1, <1>2, <1>3

LEMMA PricesHold == Searching => PricesAsAsked
<1> SUFFICES ASSUME Searching, Answered, NEW c \in Answer,
                    NEW facts, facts = Facts(c.doc, c.version), NEW q, q = search.question,
                    facts.listing, Len(q.below) <= 1, Len(q.above) <= 1, q.low = Missing
             PROVE  /\ Uppers(q) # {} => \E p \in Uppers(q) \cup Lowers(q) : facts.price <= p
                    /\ Lowers(q) # {} => \E p \in Uppers(q) \cup Lowers(q) : facts.price >= p
  BY DEF PricesAsAsked
<1>1. SearchFits(search) /\ q \in Queried
  BY DEF Searching, SearchFits, Answered
<1>2. c \in FoundBy(search)
  BY <1>1, AnswerCounted
<1>3. AsAsked(q, c)
  BY <1>1, <1>2 DEF SearchFits, Answered, FoundBy, RowsSoFar, RowsFit
<1>4. Admits(q, facts) /\ facts.price \in Nat
  BY <1>3, RetrievalAssumption DEF AsAsked
<1>5. QED
  BY <1>1, <1>4, AdmittedAsAsked

\* What is left of the types.
Ranges == takes \in BOOLEAN /\ searches \in 0..MaxSearches /\ rewritten \subseteq Docs

LEMMA RangesStep == Following /\ Current /\ Ranges /\ [RetrievalNext]_retrievalVars => Ranges'
<1> SUFFICES ASSUME Following, Current, Ranges, [RetrievalNext]_retrievalVars PROVE Ranges'
  OBVIOUS
<1>1. ASSUME UNCHANGED <<takes, searches, rewritten>> PROVE Ranges'
  BY <1>1 DEF Ranges
<1>2. ASSUME \/ \E c \in CallNames : SendBatch(c) \/ RefuseDimensions(c) \/ Embed(c) \/ Falter(c)
             \/ \E d \in Docs : Revise(d)
             \/ \E b \in Batches : Forget(b)
             \/ StartFlush \/ AbandonFlush \/ BeginStoring \/ SkipDocument
      PROVE  Ranges'
  BY <1>1, <1>2 DEF SendBatch, RefuseDimensions, Embed, Falter, Revise, Forget, StartFlush,
                    AbandonFlush, BeginStoring, SkipDocument
<1>3. ASSUME VectorSearch \/ TextSearch \/ LoseVectors \/ LoseTexts \/ Rerank PROVE Ranges'
  BY <1>1, <1>3 DEF VectorSearch, TextSearch, LoseVectors, LoseTexts, Rerank, SearchStays
<1>4. ASSUME StoreDocument PROVE Ranges'
  <2>1. PICK t : t = flush.texts[flush.next]
    OBVIOUS
  <2>2. /\ UNCHANGED <<takes, searches>> /\ flush.at = "store"
        /\ rewritten' = IF search.at \in {"idle", "answered"} THEN rewritten ELSE rewritten \cup {t.doc}
    BY <1>4, <2>1 DEF StoreDocument
  <2>3. t.doc \in Docs
    BY <2>1, <2>2 DEF Following, FlushOK, Current, HadBy
  <2>4. QED
    BY <2>2, <2>3 DEF Ranges
<1>5. ASSUME NEW q \in Queried, AskFor(q) PROVE Ranges'
  <2>1. searches < MaxSearches /\ searches' = searches + 1 /\ rewritten' = {} /\ takes' = takes
    BY <1>5 DEF AskFor
  <2>2. MaxSearches \in Nat
    BY RetrievalAssumption
  <2>3. QED
    BY <2>1, <2>2 DEF Ranges
<1>6. CASE UNCHANGED retrievalVars
  BY <1>1, <1>6 DEF retrievalVars
<1>7. QED
  BY <1>2, <1>3, <1>4, <1>5, <1>6 DEF RetrievalNext

\* What retrieval keeps: the corpus and its sources, why calls fail, and a search.
Retrieving == Following /\ Causes /\ Current /\ Searching /\ Ranges

LEMMA RetrievingStays == RetrievalSpec => []Retrieving
<1>1. RetrievalInit => Ranges
  BY RetrievalAssumption DEF RetrievalInit, Ranges
<1>2. RetrievalInit => Retrieving
  BY <1>1, FollowingInit, CausesInit, CurrentInit, SearchingInit DEF Retrieving
<1>3. Retrieving /\ [RetrievalNext]_retrievalVars => Retrieving'
  BY FollowingStep, CausesStep, CurrentStep, SearchingStep, RangesStep DEF Retrieving
<1>4. QED
  BY <1>2, <1>3, PTL DEF RetrievalSpec

\* Every variable keeps its type, and what is stored is a text that its source has had.
THEOREM RetrievalTypes == RetrievalSpec => []RetrievalTypeOK
<1>1. ASSUME Retrieving PROVE RetrievalTypeOK
  <2>1. ASSUME NEW d \in Docs
        PROVE  /\ upstream[d] \in 1..MaxVersions[d]
               /\ corpus[d] = Unstored \/ corpus[d].chunk \in {Text(d, v) : v \in 1..upstream[d]}
    BY <1>1 DEF Retrieving, Current
  <2>2. search.at \in {"idle", "branches", "rerank", "answered"}
    BY <1>1 DEF Retrieving, Searching, SearchFits
  <2>3. {takes, sendDimensions} \subseteq BOOLEAN
    BY <1>1 DEF Retrieving, Following, Ranges
  <2>4. QED
    BY <1>1, <2>1, <2>2, <2>3 DEF Retrieving, Following, Ranges, RetrievalTypeOK
<1>2. QED
  BY <1>1, RetrievingStays, PTL

\* A call fails for a cause; what both branches found comes first; an answer has as many
\* chunks as there are and no listing beyond the prices that were asked for, whichever
\* branch fails and whatever is ingested meanwhile.
THEOREM AnswersHold == RetrievalSpec => []RetrievalHolds
<1>1. Retrieving => FailsForCause
  BY DEF Retrieving, Causes, Caused, FailsForCause
<1>2. Retrieving => SharedFirst /\ NeverStarved /\ PricesAsAsked
  BY SharedComeFirst, AnswersFill, PricesHold DEF Retrieving
<1>3. Retrieving => RetrievalHolds
  BY <1>1, <1>2 DEF RetrievalHolds
<1>4. QED
  BY <1>3, RetrievingStays, PTL
=============================================================================
