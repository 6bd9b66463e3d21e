----------------------------- MODULE RateLimits -----------------------------
(***************************************************************************)
(* The three rate limiters, for one caller of one scope.  reports-svc      *)
(* counts a window with INCR and sets its expiry on the first count;       *)
(* rag-svc does the same but sets the expiry whenever it finds none, and   *)
(* counts in its own memory while Redis is away; search-svc keeps the      *)
(* stamps of the hits in a sorted set, and takes back a hit it refused.    *)
(* Each call to Redis is a step, and a pipeline is one call.               *)
(*                                                                         *)
(* The clock ticks between steps.  The breaker and the client's retries    *)
(* are left out: they only decide how long Redis is away.                  *)
(***************************************************************************)
EXTENDS Integers, FiniteSets

CONSTANTS
    MaxHits,           \* bounds the requests of a behaviour
    Limit,
    Window,
    MaxTime,           \* bounds the clock
    MaxDelay,          \* bounds the time between the calls of a request
    RedisMayFail

ASSUME RateAssumption ==
    /\ MaxHits \in Nat /\ Limit \in Nat \ {0} /\ Window \in Nat \ {0} /\ MaxTime \in Nat /\ MaxDelay \in 0..Window - 1
    /\ RedisMayFail \in BOOLEAN

Hits       == 1..MaxHits             \* in the order in which they arrive
Algorithms == {"fixed", "healing", "sliding"}
Times  == 0..MaxTime
Never  == MaxTime + Window + 1
Expiry == Times \cup 0..(MaxTime + Window) \cup {Never}

VARIABLES
    algorithm,
    now,
    counter,           \* the counter in Redis, and when its key expires
    members,           \* the hits in the sorted set
    memory,            \* rag-svc's own window
    hit,               \* the requests
    lost               \* history: a counter has been left without its expiry

rateVars == <<algorithm, now, counter, members, memory, hit, lost>>

Hit == [at      : {"new", "read", "expire", "takeback", "over"},
        stamp   : Times,                    \* the clock as it read it
        counted : Times \cup {-1},          \* when it was counted
        end     : Times \cup {-1},          \* when it was done with
        by      : {"none", "redis", "memory"},
        allowed : BOOLEAN]
NewHit == [at |-> "new", stamp |-> 0, counted |-> -1, end |-> -1, by |-> "none", allowed |-> FALSE]

RateTypeOK ==
    /\ algorithm \in Algorithms /\ now \in Times
    /\ counter \in [n : 0..Cardinality(Hits), expires : Expiry]
    /\ members \subseteq Hits
    /\ memory \in [n : 0..Cardinality(Hits), start : Times]
    /\ hit \in [Hits -> Hit] /\ lost \in BOOLEAN
    /\ \A r \in Hits : hit[r].at = "takeback" => r \in members
    /\ counter.n = 0 => counter.expires = Never

RateInit ==
    /\ algorithm \in Algorithms /\ now = 0
    /\ counter = [n |-> 0, expires |-> Never]
    /\ members = {} /\ memory = [n |-> 0, start |-> 0]
    /\ hit = [r \in Hits |-> NewHit] /\ lost = FALSE

-----------------------------------------------------------------------------
InProgress(r) == hit[r].at \notin {"new", "over"}

Tick ==
    /\ now < MaxTime
    /\ \A r \in Hits : InProgress(r) => now - hit[r].stamp < MaxDelay
    /\ now' = now + 1
    \* Redis drops the counter when its time is up.
    /\ counter' = IF counter.expires = now + 1 THEN [n |-> 0, expires |-> Never] ELSE counter
    /\ UNCHANGED <<algorithm, members, memory, hit, lost>>

CallComes(r) ==
    /\ hit[r].at = "new" /\ \A q \in 1..r - 1 : hit[q].at # "new"
    /\ hit' = [hit EXCEPT ![r].at = "read", ![r].stamp = now]
    /\ UNCHANGED <<algorithm, now, counter, members, memory, lost>>

\* What a request was told, and by what count.
Told(r, label, by, n) ==
    hit' = [hit EXCEPT ![r].at = label, ![r].by = by, ![r].allowed = n <= Limit,
                       ![r].counted = now, ![r].end = IF label = "over" THEN now ELSE -1]

\* Which count sets the expiry: reports-svc's first, rag-svc's any that finds none.
SetsExpiry(n) == IF algorithm = "fixed" THEN n = 1 ELSE counter.expires = Never

CountHit(r) ==
    /\ hit[r].at = "read" /\ algorithm # "sliding"
    /\ LET n == counter.n + 1
       IN  /\ counter' = [counter EXCEPT !.n = n]
           /\ Told(r, IF SetsExpiry(n) THEN "expire" ELSE "over", "redis", n)
    /\ UNCHANGED <<algorithm, now, members, memory, lost>>

\* An expiry that is set on a key that is gone does nothing.
SetExpiry(r) ==
    /\ hit[r].at = "expire"
    /\ counter' = IF counter.n > 0 THEN [counter EXCEPT !.expires = now + Window] ELSE counter
    /\ hit' = [hit EXCEPT ![r].at = "over", ![r].end = now]
    /\ UNCHANGED <<algorithm, now, members, memory, lost>>

\* Mutant: a window that is one tick short.
KeptShort(r) == {m \in members : hit[m].stamp > hit[r].stamp - Window + 1}
\* The stamps that the pipeline keeps, and none if the set expired.
Kept(r) == {m \in members : hit[m].stamp > hit[r].stamp - Window}

\* The pipeline of sliding_window_hit: trim, add, count, expire.
SlideHit(r) ==
    /\ hit[r].at = "read" /\ algorithm = "sliding"
    /\ members' = Kept(r) \cup {r}
    /\ LET n == Cardinality(members')
       IN  Told(r, IF n > Limit THEN "takeback" ELSE "over", "redis", n)
    /\ UNCHANGED <<algorithm, now, counter, memory, lost>>

TakeBack(r) ==
    /\ hit[r].at = "takeback"
    /\ members' = members \ {r}
    /\ hit' = [hit EXCEPT ![r].at = "over", ![r].end = now]
    /\ UNCHANGED <<algorithm, now, counter, memory, lost>>

-----------------------------------------------------------------------------
(* Redis is away, or does not answer in time *)

\* rag-svc's _local_hit
MemoryWindow == IF now - memory.start >= Window THEN [n |-> 1, start |-> now]
                ELSE [memory EXCEPT !.n = @ + 1]
FallBack(r) ==
    IF algorithm = "healing"
    THEN memory' = MemoryWindow /\ Told(r, "over", "memory", memory'.n)
    ELSE hit' = [hit EXCEPT ![r].at = "over", ![r].allowed = TRUE, ![r].end = now] /\ UNCHANGED memory

\* The first call fails; the count may have been made nevertheless.
FailFirst(r) ==
    /\ RedisMayFail /\ hit[r].at = "read"
    /\ FallBack(r)
    /\ \/ UNCHANGED <<counter, members, lost>>
       \/ algorithm = "sliding" /\ members' = Kept(r) \cup {r} /\ UNCHANGED <<counter, lost>>
       \/ /\ algorithm # "sliding"
          /\ counter' = [counter EXCEPT !.n = @ + 1]
          /\ lost' = (lost \/ SetsExpiry(counter.n + 1))
          /\ UNCHANGED members
    /\ UNCHANGED <<algorithm, now>>

\* So does the second: reports-svc has its count by then, rag-svc forgets it.
FailSecond(r) ==
    /\ RedisMayFail
    /\ \/ /\ hit[r].at = "expire" /\ lost' = TRUE
          /\ IF algorithm = "healing" THEN FallBack(r)
             ELSE hit' = [hit EXCEPT ![r].at = "over", ![r].end = now] /\ UNCHANGED memory
       \/ /\ hit[r].at = "takeback"
          /\ hit' = [hit EXCEPT ![r].at = "over", ![r].end = now]
          /\ UNCHANGED <<memory, lost>>
    /\ UNCHANGED <<algorithm, now, counter, members>>

-----------------------------------------------------------------------------
RateNext ==
    \/ Tick
    \/ \E r \in Hits :
          \/ CallComes(r) \/ CountHit(r) \/ SetExpiry(r) \/ SlideHit(r) \/ TakeBack(r)
          \/ FailFirst(r) \/ FailSecond(r)

RateSpec == RateInit /\ [][RateNext]_rateVars
-----------------------------------------------------------------------------
(* What a limiter promises *)

LetThrough(by, from, span) ==
    {r \in Hits : hit[r].by = by /\ hit[r].allowed /\ hit[r].counted \in from..(from + span - 1)}

\* Of the requests that a count decided, within any time as long as a window, a caller
\* is let through at most as often as the limit says by the sliding window (shorter by
\* the time a request may take to reach Redis), and by a fixed window twice as often,
\* across its edge, whether Redis or rag-svc's memory counts.  What reports-svc and
\* search-svc let through uncounted, when Redis does not answer, is beside this.
NeverOverLimit ==
    \A from \in Times :
       IF algorithm = "sliding"
       THEN Cardinality(LetThrough("redis", from, Window - MaxDelay)) <= Limit
       ELSE \A by \in {"redis", "memory"} : Cardinality(LetThrough(by, from, Window)) <= 2 * Limit

\* A request uses the limit if it was let through.  So does, in search-svc, one that is
\* itself being refused and not yet taken back; and if Redis fails, one whose taking back
\* was lost, or that rag-svc's memory answered for though Redis had counted it.
UsesLimit(o) ==
    \/ hit[o].allowed
    \/ hit[o].at = "takeback"
    \/ RedisMayFail /\ (o \in members \/ hit[o].by = "memory")

\* It was not done with a window ago.  A counter that has been left without its expiry
\* counts for longer: reports-svc's for ever, rag-svc's until the next window is over.
Recently(o) ==
    /\ hit[o].at \notin {"new", "read"}
    /\ lost \/ hit[o].end = -1 \/ hit[o].end > now - Window - MaxDelay

Refuses(r) == hit'[r].by # hit[r].by /\ ~hit'[r].allowed

\* Whoever is refused meets a limit that as many others have used as it allows.  While
\* Redis answers that means let through, but for requests that search-svc refuses at the
\* same time: these refuse one another although nobody was let through.
RefusedForAReason ==
    \A r \in Hits : Refuses(r) =>
       Cardinality({o \in Hits \ {r} : UsesLimit(o) /\ Recently(o)}) >= Limit

\* The limit of a caller is neither stretched by what is counted, though Redis fails or
\* answers late, nor held against who has not met a limit in use: no step does either.
LimitHolds == [][NeverOverLimit' /\ RefusedForAReason]_rateVars
=============================================================================
