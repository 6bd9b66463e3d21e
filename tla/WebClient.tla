----------------------------- MODULE WebClient -----------------------------
(***************************************************************************)
(* One browser tab of the web client: who is signed in, the favourites it  *)
(* shows, and its calls to api-core.  A change of a favourite is shown at  *)
(* once and taken back if the call fails; a login, and a page load, bring  *)
(* the list and the account's favourites together; a call refused for its  *)
(* token waits for a refresh that all such calls share, and is sent again  *)
(* once.  Every answer comes back later, and anything may happen before.   *)
(*                                                                         *)
(* A token is the person it was issued to, and whether it is still         *)
(* accepted.  The user's record, the toasts, and what is cached by queries *)
(* are left out, and so are other tabs.                                    *)
(***************************************************************************)
EXTENDS Integers, FiniteSets

CONSTANTS
    Props,
    People,
    NoOne,
    Calls,             \* bounds the calls under way
    MaxActions,        \* bounds what the user, other devices and the clock do
    CallsBreak         \* a call, or its answer, may be lost

ASSUME WebAssumption == NoOne \notin People /\ MaxActions \in Nat /\ CallsBreak \in BOOLEAN

VARIABLES
    saved,             \* the favourites of each account
    cookie,            \* whom the refresh cookie is for
    me, good,          \* who is signed in, and whether their token is accepted
    ids,               \* the favourites shown
    call,              \* the calls under way
    refresh,           \* refreshInFlight
    actions,
    stirred,           \* history: the list shown may differ from the account's
    astray             \* history: a change of the cookie and one of the session went apart

webVars == <<saved, cookie, me, good, ids, call, refresh, actions, stirred, astray>>

WebCall == [at      : {"idle", "sent", "pushing", "denied", "served", "failed"},
            kind    : {"none", "add", "remove", "sync", "login", "logout"},
            p       : Props \cup {"none"},
            who     : People \cup {NoOne},  \* of its token; for a login, who logs in
            good    : BOOLEAN,
            retried : BOOLEAN,
            old     : SUBSET Props,         \* the list when it began
            found   : SUBSET Props,         \* what the account had
            todo    : SUBSET Props,         \* what a sync has still to push
            alone   : BOOLEAN]              \* history: nothing else has happened since it began
NoCall    == [at |-> "idle", kind |-> "none", p |-> "none", who |-> NoOne, good |-> FALSE,
              retried |-> FALSE, old |-> {}, found |-> {}, todo |-> {}, alone |-> FALSE]
NoRefresh == [at |-> "none", who |-> NoOne, crossed |-> FALSE]

WebTypeOK ==
    /\ saved \in [People -> SUBSET Props]
    /\ cookie \in People \cup {NoOne} /\ me \in People \cup {NoOne} /\ good \in BOOLEAN
    /\ ids \subseteq Props
    /\ call \in [Calls -> WebCall]
    /\ refresh \in [at : {"none", "sent", "answered"}, who : People \cup {NoOne}, crossed : BOOLEAN]
    /\ actions \in 0..MaxActions /\ stirred \in BOOLEAN /\ astray \in BOOLEAN
    /\ me = NoOne => ~good
    \* Whoever waits for a refresh has one to wait for.
    /\ (\E s \in Calls : call[s].at = "denied") <=> refresh.at # "none"

WebInit ==
    /\ saved \in [People -> SUBSET Props]
    /\ cookie = NoOne /\ me = NoOne /\ good = FALSE
    /\ ids = {}
    /\ call = [s \in Calls |-> NoCall]
    /\ refresh = NoRefresh /\ actions = 0 /\ stirred = FALSE
    /\ astray = FALSE

-----------------------------------------------------------------------------
Pending      == {s \in Calls : call[s].at # "idle"}
Acts         == actions < MaxActions /\ actions' = actions + 1
Crossed(cs)  == [s \in Calls |-> [cs[s] EXCEPT !.alone = FALSE]]
FavCall(c)   == c.kind \in {"add", "remove"}
AuthCall(c)  == c.kind \in {"login", "logout"}

\* Two changes of one favourite, or a change and a sync, get into each other's way.
InTheWay(c) == \E s \in Pending : ~(FavCall(c) /\ FavCall(call[s])) \/ call[s].p = c.p

Start(s, c) ==
    /\ call[s].at = "idle"
    /\ call' = [Crossed(call) EXCEPT ![s] = [c EXCEPT !.at = "sent", !.alone = Pending = {}]]
    /\ stirred' = (stirred \/ InTheWay(c))

Bearer(c) == [c EXCEPT !.who = me, !.good = good, !.old = ids]
Change(p, kind) == Bearer([NoCall EXCEPT !.kind = kind, !.p = p])
Sync == Bearer([NoCall EXCEPT !.kind = "sync"])

\* add and remove: shown at once, and no more than that for a guest.
Toggle(p) ==
    /\ Acts
    /\ ids' = IF p \in ids THEN ids \ {p} ELSE ids \cup {p}
    /\ \/ /\ me = NoOne
          /\ call' = Crossed(call)
          /\ stirred' = (stirred \/ Pending # {})
       \/ /\ me # NoOne
          /\ \E s \in Calls : Start(s, Change(p, IF p \in ids THEN "remove" ELSE "add"))
    /\ UNCHANGED <<saved, cookie, me, good, refresh, astray>>

\* The forms and the menu wait for the answer before they ask again.
NoAuthCall == \A s \in Pending : ~AuthCall(call[s])

LogIn(who) ==
    /\ Acts /\ NoAuthCall
    /\ \E s \in Calls : Start(s, [Bearer(NoCall) EXCEPT !.kind = "login", !.who = who])
    /\ UNCHANGED <<saved, cookie, me, good, ids, refresh, astray>>

LogOut ==
    /\ Acts /\ me # NoOne /\ NoAuthCall
    /\ \E s \in Calls : Start(s, [Bearer(NoCall) EXCEPT !.kind = "logout"])
    /\ UNCHANGED <<saved, cookie, me, good, ids, refresh, astray>>

\* The page is loaded again: the stores come back from localStorage, the calls do not.
Reload ==
    /\ Acts
    /\ \E s \in Calls :
          call' = [x \in Calls |-> IF x = s /\ me # NoOne
                                         THEN [Sync EXCEPT !.at = "sent", !.alone = TRUE] ELSE NoCall]
    /\ refresh' = NoRefresh
    /\ stirred' = TRUE
    /\ astray' = (astray \/ \E s \in Pending : AuthCall(call[s]))
    /\ UNCHANGED <<saved, cookie, me, good, ids>>

\* The account's favourites change on another device.
Elsewhere(who, p) ==
    /\ Acts
    /\ saved' = [saved EXCEPT ![who] = IF p \in @ THEN @ \ {p} ELSE @ \cup {p}]
    /\ call' = Crossed(call)
    /\ stirred' = TRUE
    /\ UNCHANGED <<cookie, me, good, ids, refresh, astray>>

ExpireTokens ==
    /\ Acts /\ good' = FALSE
    /\ call' = [s \in Calls |-> [call[s] EXCEPT !.good = FALSE]]
    /\ UNCHANGED <<saved, cookie, me, ids, refresh, stirred, astray>>

-----------------------------------------------------------------------------
(* api-core *)

Reply(s, c) == call' = [call EXCEPT ![s] = c]

\* Mutant: a logout leaves the cookie in the browser.
CookieKept(c) == IF c.kind = "login" THEN c.who ELSE cookie

CookieAfter(c) == CASE c.kind = "login"  -> c.who
                    [] c.kind = "logout" -> NoOne
                    [] OTHER             -> cookie

\* An add of what is there, and a removal of what is not, count as done.
Serve(s) ==
    /\ call[s].at = "sent"
    /\ call[s].good \/ call[s].kind = "login"
    /\ LET c == call[s]
           missing == c.old \ saved[c.who]
       IN  /\ saved' = CASE c.kind = "add"    -> [saved EXCEPT ![c.who] = @ \cup {c.p}]
                         [] c.kind = "remove" -> [saved EXCEPT ![c.who] = @ \ {c.p}]
                         [] OTHER             -> saved
           /\ cookie' = CookieAfter(c)
           /\ \/ c.kind # "sync" /\ Reply(s, [c EXCEPT !.at = "served"])
              \/ /\ c.kind = "sync"
                 /\ Reply(s, [c EXCEPT !.at = IF missing = {} THEN "served" ELSE "pushing",
                                       !.found = saved[c.who], !.todo = missing, !.retried = FALSE])
    /\ UNCHANGED <<me, good, ids, refresh, actions, stirred, astray>>

\* One of the posts of a sync, of which each may fail by itself.
Push(s) ==
    /\ call[s].at = "pushing"
    /\ \E p \in call[s].todo :
          /\ LET rest == call[s].todo \ {p}
                 next == [call[s] EXCEPT !.todo = rest,
                                         !.at = IF rest = {} THEN "served" ELSE "pushing"]
             IN  \/ /\ call[s].good
                    /\ saved' = [saved EXCEPT ![call[s].who] = @ \cup {p}]
                    /\ Reply(s, next)
                 \/ CallsBreak /\ Reply(s, [next EXCEPT !.alone = FALSE]) /\ UNCHANGED saved
    /\ UNCHANGED <<cookie, me, good, ids, refresh, actions, stirred, astray>>

\* A token that is not accepted, or a password that is wrong: the first such answer
\* asks for a refresh, the second is final.
Deny(s) ==
    /\ call[s].at \in {"sent", "pushing"}
    /\ call[s].kind = "login" \/ ~call[s].good
    /\ \/ /\ ~call[s].retried
          /\ Reply(s, [call[s] EXCEPT !.at = "denied"])
          /\ refresh' = IF refresh.at = "none" THEN [NoRefresh EXCEPT !.at = "sent"] ELSE refresh
       \/ /\ call[s].retried
          /\ Reply(s, [call[s] EXCEPT !.at = "failed"])
          /\ UNCHANGED refresh
    /\ UNCHANGED <<saved, cookie, me, good, ids, actions, stirred, astray>>

\* A call does not get through, or its answer does not.
Break(s) ==
    /\ CallsBreak
    /\ \/ call[s].at = "sent" /\ UNCHANGED stirred
       \/ call[s].at = "served" /\ stirred' = TRUE
    /\ Reply(s, [call[s] EXCEPT !.at = "failed"])
    /\ UNCHANGED <<saved, cookie, me, good, ids, refresh, actions, astray>>

-----------------------------------------------------------------------------
(* The answers *)

EndCall(s) == call' = [call EXCEPT ![s] = NoCall]
\* Mutant: a change that failed is not taken back.
RollBackNothing(c) == ids

\* A failed add takes its listing out; a failed removal puts back the list as it was.
RollBack(c) == IF c.kind = "add" THEN ids \ {c.p} ELSE c.old

ReceiveChange(s) ==
    /\ FavCall(call[s])
    /\ \/ call[s].at = "served" /\ UNCHANGED <<ids, stirred>>
       \/ /\ call[s].at = "failed"
          /\ ids' = RollBack(call[s])
          /\ stirred' = \/ stirred \/ me # call[s].who
                        \/ call[s].kind = "remove" /\ ids # call[s].old \ {call[s].p}
    /\ EndCall(s)
    /\ UNCHANGED <<saved, cookie, me, good, refresh, actions, astray>>

\* What was pushed counts as saved, whether it was or not.
ReceiveSync(s) ==
    /\ call[s].kind = "sync"
    /\ \/ /\ call[s].at = "served"
          /\ ids' = call[s].found \cup call[s].old
          /\ stirred' = ~(call[s].alone /\ me = call[s].who)
       \/ call[s].at = "failed" /\ stirred' = TRUE /\ UNCHANGED ids
    /\ EndCall(s)
    /\ UNCHANGED <<saved, cookie, me, good, refresh, actions, astray>>

Cross == refresh' = [refresh EXCEPT !.crossed = @ \/ refresh.at # "none"]

\* useLogin: the session, then the favourites.
ReceiveLogIn(s) ==
    /\ call[s].kind = "login"
    /\ \/ /\ call[s].at = "served"
          /\ me' = call[s].who /\ good' = TRUE
          /\ call' = [Crossed(call) EXCEPT ![s] =
                [NoCall EXCEPT !.kind = "sync", !.at = "sent", !.who = me', !.good = TRUE,
                               !.old = ids, !.alone = Pending = {s}]]
          /\ stirred' = TRUE /\ astray' = FALSE
          /\ Cross
       \/ /\ call[s].at = "failed" /\ astray' = TRUE
          /\ EndCall(s)
          /\ UNCHANGED <<me, good, refresh, stirred>>
    /\ UNCHANGED <<saved, cookie, ids, actions>>

\* useLogout: whatever the answer, and the favourites stay on the page.
ReceiveLogOut(s) ==
    /\ call[s].kind = "logout" /\ call[s].at \in {"served", "failed"}
    /\ me' = NoOne /\ good' = FALSE
    /\ EndCall(s) /\ Cross
    /\ stirred' = TRUE
    /\ astray' = (call[s].at = "failed")
    /\ UNCHANGED <<saved, cookie, ids, actions>>

\* performRefresh: the cookie is exchanged, refused and dropped, or not reached.
ServeRefresh ==
    /\ refresh.at = "sent"
    /\ \/ /\ cookie # NoOne
          /\ refresh' = [refresh EXCEPT !.at = "answered", !.who = cookie]
          /\ UNCHANGED cookie
       \/ /\ cookie = NoOne \/ CallsBreak
          /\ refresh' = [refresh EXCEPT !.at = "answered", !.who = NoOne]
          /\ cookie' \in {cookie, NoOne}
    /\ UNCHANGED <<saved, me, good, ids, call, actions, stirred, astray>>

\* A call is sent again with the new token, whosever that is.
Resumed(c, who) ==
    [c EXCEPT !.at = IF who = NoOne THEN "failed" ELSE IF c.todo = {} THEN "sent" ELSE "pushing",
              !.who = IF who = NoOne \/ c.kind = "login" THEN @ ELSE who,
              !.good = who # NoOne, !.retried = TRUE,
              !.alone = @ /\ (c.kind = "login" \/ who = c.who)]

ApplyRefresh ==
    /\ refresh.at = "answered"
    /\ me' = refresh.who /\ good' = (refresh.who # NoOne)
    /\ call' = [s \in Calls |-> IF call[s].at = "denied" THEN Resumed(call[s], refresh.who)
                                     ELSE call[s]]
    /\ refresh' = NoRefresh
    /\ stirred' = (stirred \/ me' # me)
    /\ astray' = (astray \/ refresh.crossed \/ (refresh.who = NoOne /\ cookie # NoOne))
    /\ UNCHANGED <<saved, cookie, ids, actions>>

-----------------------------------------------------------------------------
WebNext ==
    \/ \E p \in Props : Toggle(p) \/ \E who \in People : Elsewhere(who, p)
    \/ \E who \in People : LogIn(who)
    \/ LogOut \/ Reload \/ ExpireTokens \/ ServeRefresh \/ ApplyRefresh
    \/ \E s \in Calls :
          \/ Serve(s) \/ Push(s) \/ Deny(s) \/ Break(s)
          \/ ReceiveChange(s) \/ ReceiveSync(s) \/ ReceiveLogIn(s) \/ ReceiveLogOut(s)

WebSpec == WebInit /\ [][WebNext]_webVars
-----------------------------------------------------------------------------
(* What the tab promises *)

\* Every mutation is optimistic and rolls back if the server rejects it: when all
\* calls are answered, the list shown is the account's, though changes of different
\* listings overlapped and some failed, a call met an expired token, or the page was
\* loaded again.  Only a removal rolled back over another change, a sync that did
\* not run by itself, a lost answer or another device leaves them apart, and the
\* next sync that does run by itself brings them together.
FavouritesSettle ==
    Pending = {} /\ me # NoOne /\ ~stirred => ids = saved[me]

\* A refresh renews the session of whoever is signed in or ends it: it makes nobody
\* else of them, unless a login or a logout crosses it, or earlier one of the three
\* crossed another or ended without its answer: the cookie may then be someone's who
\* seemed to have gone.
RefreshKeepsPerson ==
    [][ApplyRefresh /\ me' \notin {me, NoOne} =>
          \/ refresh.crossed \/ astray
          \/ ~NoAuthCall]_webVars
=============================================================================
