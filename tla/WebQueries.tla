----------------------------- MODULE WebQueries -----------------------------
(***************************************************************************)
(* The queries the web client caches, and the changes that make it ask     *)
(* again.  A key space of the cache is one entry here: what was read, by   *)
(* whom, and whether it still counts as fresh.  Key spaces share only the  *)
(* changes and the session, so that a behaviour follows one of them.       *)
(*                                                                         *)
(* An answer is the set of the changes it shows.  A component that comes   *)
(* asks when what is there is not fresh, one that goes takes its call back *)
(* (every query passes on its signal), and a change invalidates the key    *)
(* spaces its hook names.  The cache itself is a library: what it does     *)
(* with an entry is as the hooks rely on it.  Parameters of a key, pages   *)
(* and placeholder data are left out.                                      *)
(***************************************************************************)
EXTENDS Integers, FiniteSets

CONSTANTS
    Watched,           \* the key spaces to follow
    Visitors, Stranger,
    MaxChanges,        \* bounds the changes
    AnswersBreak       \* a call, or its answer, may be lost

\* queryKeys, but for users, which no hook reads.
Spaces == {"properties", "compounds", "developers", "areas", "amenities", "favorites",
           "saved-searches", "leads", "search", "auth", "admin", "reports"}
\* Read only when somebody is signed in, and what shows their own.
Gated    == {"favorites", "saved-searches", "auth"}
Personal == Gated \cup {"leads", "admin"}
MaxRetries == 2

ASSUME QueriesAssumption ==
    /\ Watched \subseteq Spaces /\ Stranger \notin Visitors
    /\ MaxChanges \in Nat /\ AnswersBreak \in BOOLEAN

\* The hooks that change something.
Hook(ops, on) == [op : ops, on : {on}]
Hooks == Hook({"create", "update", "delete"}, "properties")
         \cup Hook({"create", "update", "delete"}, "compounds")
         \cup Hook({"create", "update", "delete"}, "developers")
         \cup Hook({"create", "update", "delete"}, "areas")
         \cup Hook({"toggle"}, "favorites") \cup Hook({"create", "delete"}, "saved-searches")
         \cup Hook({"create", "update"}, "leads") \cup Hook({"update"}, "auth")
Login == [op |-> "login", on |-> "auth"]

\* Mutant: a hook invalidates its own key space only.
InvalidatesOwn(m) == {m.on}

Invalidates(m) ==
    {m.on}
    \cup {s \in Spaces :
             \/ m.on = "properties" /\ (s = "admin" \/ (s = "search" /\ m.op # "create"))
             \/ m.op = "update" /\ \/ m.on = "compounds" /\ s = "properties"
                                   \/ m.on \in {"developers", "areas"} /\ s = "compounds"}

VARIABLES
    space,             \* the one that is followed
    entry,             \* what the cache has of it
    user,              \* who is signed in
    hook,              \* the changes made here
    applied            \* those the server has made

queriesVars == <<space, entry, user, hook, applied>>

Known    == DOMAIN hook
Entry    == [has   : BOOLEAN, shows : SUBSET Hooks, by : Visitors \cup {Stranger},
             fresh : BOOLEAN,
             open  : BOOLEAN,                   \* a component uses it
             fetch : {"none", "asked", "read"},
             got   : SUBSET Hooks, for : Visitors \cup {Stranger}, tries : 0..MaxRetries,
             \* history: what came while it was asked, and did not make it ask again
             late  : SUBSET (Hooks \cup {Login}),
             stale : SUBSET (Hooks \cup {Login})]   \* the same, of the answer it has
NoEntry  == [has |-> FALSE, shows |-> {}, by |-> Stranger, fresh |-> FALSE, open |-> FALSE,
             fetch |-> "none", got |-> {}, for |-> Stranger, tries |-> 0, late |-> {},
             stale |-> {}]

QueriesTypeOK ==
    /\ space \in Watched /\ user \in Visitors \cup {Stranger}
    /\ DOMAIN entry = DOMAIN NoEntry
    /\ {entry.has, entry.fresh, entry.open} \subseteq BOOLEAN
    /\ {entry.by, entry.for} \subseteq Visitors \cup {Stranger}
    /\ entry.fetch \in {"none", "asked", "read"} /\ entry.tries \in 0..MaxRetries
    /\ entry.shows \cup entry.got \subseteq applied
    /\ entry.late \cup entry.stale \subseteq Known \cup {Login}
    /\ Known \subseteq Hooks
    /\ hook \in [Known -> {"sent", "served", "refused", "done", "lost"}]
    /\ applied \subseteq Known
    \* Nothing is asked for that nobody uses, and nothing is fresh that is not there.
    /\ entry.fetch # "none" => entry.open
    /\ entry.fresh => entry.has

QueriesInit ==
    /\ space \in Watched /\ entry = NoEntry /\ user \in Visitors \cup {Stranger}
    /\ hook = [m \in {} |-> "sent"] /\ applied = {}

-----------------------------------------------------------------------------
(* The cache *)

Enabled(who) == space \in Gated => who # Stranger
Asks(e, who) == [e EXCEPT !.fetch = "asked", !.got = {}, !.for = who, !.tries = 0, !.late = {}]
Silent(e)    == [e EXCEPT !.fetch = "none", !.got = {}, !.for = Stranger, !.tries = 0, !.late = {}]
Entered(e)    == entry' = e /\ UNCHANGED <<space, user, hook, applied>>

\* invalidateQueries: an entry in use is asked for again, and a call under way is taken
\* back for that, unless it is the first or the query is disabled.
Invalidated(e, why, enabled, who) ==
    LET old == [e EXCEPT !.fresh = FALSE]
    IN  IF e.open /\ enabled /\ (e.has \/ e.fetch = "none") THEN Asks(old, who)
        ELSE IF e.fetch # "none" THEN [old EXCEPT !.late = @ \cup {why}]
        ELSE old

Open ==
    /\ ~entry.open
    /\ LET e == [entry EXCEPT !.open = TRUE]
       IN  Entered(IF ~entry.fresh /\ Enabled(user) THEN Asks(e, user) ELSE e)

Close == entry.open /\ Entered([Silent(entry) EXCEPT !.open = FALSE])

Reconnect ==
    /\ entry.open /\ ~entry.fresh /\ Enabled(user) /\ entry.fetch = "none"
    /\ Entered(Asks(entry, user))

ReadServer ==
    /\ entry.fetch = "asked"
    /\ space \in Personal => entry.for # Stranger
    /\ Entered([entry EXCEPT !.fetch = "read", !.got = applied])

Receive ==
    /\ entry.fetch = "read"
    /\ Entered([Silent(entry) EXCEPT !.has = TRUE, !.fresh = TRUE, !.shows = entry.got,
                                    !.by = entry.for, !.stale = entry.late])

\* shouldRetry: what the server refuses is not asked for again, the rest twice.
FailFetch ==
    /\ entry.fetch # "none"
    /\ \/ /\ AnswersBreak \/ (space \in Personal /\ entry.for = Stranger)
          /\ Entered(Silent(entry))
       \/ /\ AnswersBreak /\ entry.tries < MaxRetries
          /\ Entered([entry EXCEPT !.fetch = "asked", !.got = {}, !.for = user, !.tries = @ + 1])

\* staleTime, and gcTime.
Age     == entry.fresh /\ Entered([entry EXCEPT !.fresh = FALSE])
Collect == entry.has /\ ~entry.open /\ Entered(NoEntry)

-----------------------------------------------------------------------------
(* The hooks *)

\* What the server makes an answer of: the records it lists or counts ...
MadeOf(s) ==
    {s} \cup (CASE s = "properties"                -> {"favorites"}
                [] s \in {"search", "reports"}     -> {"properties"}
                [] s = "compounds"                 -> {"properties"}
                [] s \in {"developers", "areas"}   -> {"compounds", "properties"}
                [] s = "admin"                     -> {"properties", "favorites", "leads"}
                [] OTHER                           -> {})
\* ... and those it shows within others.
Carried(s) ==
    CASE s = "compounds" -> {"developers", "areas"}
      [] s = "favorites" -> {"properties"}
      [] s = "leads"     -> {"properties", "compounds", "areas", "auth"}
      [] OTHER           -> {}

\* The change makes another answer of it.  A listing counts its enquiries, also where it
\* is shown as a favourite; what a compound names is never deleted.
Concerns(m) ==
    \/ m.on \in MadeOf(space)
    \/ m.on \in Carried(space) /\ (m.op = "update" \/ (m.op = "delete" /\ space # "compounds"))
    \/ m = [op |-> "create", on |-> "leads"] /\ space \in {"properties", "favorites"}

\* The answers a change makes another of, though its hook does not think of them: what
\* listings are counted and shown in, and the dashboard's and a listing's own counts.
Overlooked(m) ==
    space \in CASE m.on = "properties" -> {"compounds", "developers", "areas", "favorites", "leads", "reports"}
                                          \cup (IF m.op = "create" THEN {"search"} ELSE {})
                [] m.on = "compounds"  -> {"developers", "areas", "leads"}
                [] m.on = "areas"      -> {"leads"}
                [] m.on = "auth"       -> {"leads"}
                [] m.on = "favorites"  -> {"properties", "admin"}
                [] m.on = "leads"      -> {"properties", "favorites", "admin"}
                [] OTHER               -> {}

Marks(m, how) ==
    hook' = [n \in Known \cup {m} |-> IF n = m THEN how ELSE hook[n]]

Send(m) ==
    /\ m \notin Known /\ (Concerns(m) \/ space \in Invalidates(m)) /\ Cardinality(Known) < MaxChanges
    /\ user # Stranger \/ m = [op |-> "create", on |-> "leads"]
    /\ Marks(m, "sent")
    /\ UNCHANGED <<space, entry, user, applied>>

ServeChange(m) ==
    /\ hook[m] = "sent"
    /\ \/ Marks(m, "served") /\ applied' = applied \cup {m}
       \/ Marks(m, "refused") /\ UNCHANGED applied
    /\ UNCHANGED <<space, entry, user>>

\* onSuccess, for favourites onSettled.
Tell(m, told) ==
    entry' = IF space \in Invalidates(m) /\ (told \/ m.op = "toggle")
             THEN Invalidated(entry, m, Enabled(user), user) ELSE entry

SettleChange(m) ==
    /\ hook[m] \in {"served", "refused"}
    /\ Marks(m, "done")
    /\ Tell(m, hook[m] = "served")
    /\ UNCHANGED <<space, user, applied>>

\* Changes are not sent again: the server may have made it, or make it yet.
LoseChange(m) ==
    /\ AnswersBreak /\ hook[m] \in {"sent", "served"}
    /\ Marks(m, "lost")
    /\ Tell(m, FALSE)
    /\ UNCHANGED <<space, user, applied>>
ServeLost(m) ==
    /\ hook[m] = "lost" /\ m \notin applied
    /\ applied' = applied \cup {m}
    /\ UNCHANGED <<space, entry, user, hook>>

\* useLogin and useRegister invalidate everything; what was disabled until now is asked
\* for when it next renders.
LogsIn(who) ==
    LET e == Invalidated(entry, Login, Enabled(user), who)
    IN  /\ user' = who
        /\ entry' = IF e.open /\ e.fetch = "none" THEN Asks(e, who) ELSE e
        /\ UNCHANGED <<space, hook, applied>>

\* useLogout clears the cache whatever the answer; a component asks when it next renders.
LogsOut ==
    /\ user # Stranger
    /\ user' = Stranger /\ entry' = NoEntry
    /\ UNCHANGED <<space, hook, applied>>

\* A refresh that is refused signs out, and clears nothing.
SessionEnds ==
    /\ user # Stranger
    /\ user' = Stranger
    /\ UNCHANGED <<space, entry, hook, applied>>

QueriesNext ==
    \/ Open \/ Close \/ Reconnect \/ ReadServer \/ Receive \/ FailFetch \/ Age \/ Collect
    \/ \E m \in Hooks : Send(m)
    \/ \E m \in Known : ServeChange(m) \/ SettleChange(m) \/ LoseChange(m) \/ ServeLost(m)
    \/ \E who \in Visitors : LogsIn(who)
    \/ LogsOut \/ SessionEnds

QueriesSpec == QueriesInit /\ [][QueriesNext]_queriesVars
-----------------------------------------------------------------------------
(* What the cache promises *)

\* "Reconciling that by hand is how a stale row ends up on screen": what counts as fresh
\* shows every change of the tab that makes another answer of it, under any order of
\* calls, answers, failures, components and logins; and to whoever is signed in only what
\* they may read.  It may be untrue after a change whose hook overlooks it, and after none
\* but those.  Changes whose answer is under way or lost are not told, and what comes
\* while a key space is first loaded does not make it ask again.
FreshIsTrue ==
    entry.fresh =>
        /\ \A m \in applied \ (entry.shows \cup entry.stale) : Concerns(m) =>
              \/ hook[m] \in {"served", "lost"}
              \/ Overlooked(m)
        /\ space \in Personal =>
              \/ entry.by = user \/ user = Stranger
              \/ Login \in entry.stale
=============================================================================
