------------------------------ MODULE Sessions ------------------------------
(***************************************************************************)
(* Login sessions of api-core: how a pair of tokens (one access JWT, one   *)
(* refresh JWT) is issued, rotated, revoked and refused.                   *)
(*                                                                         *)
(* A pair is minted once, so one model value of Pairs stands for the two   *)
(* random jti of a pair and for the client that may hold them.  A refresh  *)
(* jti lives in three places: the Redis marker auth:refresh:{user}:{jti},  *)
(* the Redis denylist auth:denylist:{jti} and the Postgres row of          *)
(* refresh_tokens.  A handler is one HTTP request of any api-core replica; *)
(* every `await` on a store is a step of its own, because other handlers   *)
(* run there.  A failing store call does not stop a handler: CacheService  *)
(* swallows every Redis error and TokenService most Postgres errors.       *)
(***************************************************************************)
EXTENDS Naturals, FiniteSets

CONSTANTS
    Users,
    Pairs,            \* bounds the number of pairs a run mints
    Handlers,         \* bounds the number of requests in flight
    None,
    Ops,              \* the operations a run exercises
    RedisMayFail,
    PostgresMayFail,
    MayCrash          \* an api-core process may die under a handler

AllOps == {"login", "refresh", "logout", "password", "deactivate", "activate", "expire"}

ASSUME SessionsAssumption ==
    /\ None \notin Users \cup Pairs
    /\ Ops \subseteq AllOps
    /\ RedisMayFail \in BOOLEAN
    /\ PostgresMayFail \in BOOLEAN
    /\ MayCrash \in BOOLEAN

VARIABLES
    (* Redis *)
    marker,           \* pairs with an auth:refresh key
    denied,           \* pairs whose refresh jti is denylisted
    accessDenied,     \* pairs whose access jti is denylisted
    floored,          \* pairs last denied for whole seconds: the entry may lapse too early
    (* Postgres *)
    row,              \* refresh_tokens: no row, a live one, a revoked one
    replacedBy,       \* refresh_tokens.replaced_by_jti
    isActive,         \* users.is_active
    (* the JWTs themselves *)
    owner,            \* the sub claim of a minted pair
    expired,          \* pairs whose refresh token is past its exp
    accessExpired,    \* pairs whose access token is past its exp
    delivered,        \* pairs some client has received
    (* handlers *)
    pc,               \* the await a handler is about to make
    req,              \* its request, and the jti it will mint
    live,             \* revokeAllSessions: rows found live, still to denylist
    (* history, read by properties only *)
    parent,           \* the pair whose refresh minted this one
    doomed,           \* pairs the user had when revokeAllSessions swept the markers
    condemned         \* pairs some finished revokeAllSessions had to end

redis    == <<marker, denied, accessDenied, floored>>
postgres == <<row, replacedBy, isActive>>
jwts     == <<owner, expired, accessExpired, delivered>>
history  == <<parent, doomed, condemned>>
vars     == <<redis, postgres, jwts, pc, req, live, history>>

Request   == [op : AllOps \cup {"none"}, usr : Users \cup {None}, tok : Pairs \cup {None},
              new : Pairs \cup {None}, acc : Pairs \cup {None}]
NoRequest == [op |-> "none", usr |-> None, tok |-> None, new |-> None, acc |-> None]

Labels == {"idle", "checkDenied", "checkActive", "checkKnown", "checkUser",
           "remember", "persist", "deny", "unmark", "retireRow", "respond",
           "denyAccess", "writeUser", "scan", "findLive", "denyLive"}

TypeOK ==
    /\ marker \subseteq Pairs
    /\ denied \subseteq Pairs
    /\ accessDenied \subseteq Pairs
    /\ floored \subseteq Pairs
    /\ row \in [Pairs -> {"none", "live", "revoked"}]
    /\ replacedBy \in [Pairs -> Pairs \cup {None}]
    /\ isActive \in [Users -> BOOLEAN]
    /\ owner \in [Pairs -> Users \cup {None}]
    /\ expired \subseteq Pairs
    /\ accessExpired \subseteq Pairs
    /\ delivered \subseteq Pairs
    /\ pc \in [Handlers -> Labels]
    /\ req \in [Handlers -> Request]
    /\ live \in [Handlers -> SUBSET Pairs]
    /\ parent \in [Pairs -> Pairs \cup {None}]
    /\ doomed \in [Handlers -> SUBSET Pairs]
    /\ condemned \subseteq Pairs

Init ==
    /\ marker = {} /\ denied = {} /\ accessDenied = {} /\ floored = {}
    /\ row = [j \in Pairs |-> "none"]
    /\ replacedBy = [j \in Pairs |-> None]
    /\ isActive = [u \in Users |-> TRUE]
    /\ owner = [j \in Pairs |-> None]
    /\ expired = {} /\ accessExpired = {} /\ delivered = {}
    /\ pc = [p \in Handlers |-> "idle"]
    /\ req = [p \in Handlers |-> NoRequest]
    /\ live = [p \in Handlers |-> {}]
    /\ parent = [j \in Pairs |-> None]
    /\ doomed = [p \in Handlers |-> {}]
    /\ condemned = {}

-----------------------------------------------------------------------------
(* Store calls, tokens and control *)

\* The outcomes of a call to a store: TRUE, it answered; FALSE, it threw.
RedisCall    == IF RedisMayFail THEN BOOLEAN ELSE {TRUE}
PostgresCall == IF PostgresMayFail THEN BOOLEAN ELSE {TRUE}

\* The pairs of a user, and those that no row or request has used yet.
PairsOf(u)  == {j \in Pairs : owner[j] = u}
FreshPairs  == {j \in Pairs : /\ owner[j] = None
                              /\ \A p \in Handlers : req[p].new # j}

\* Its row is still to be inserted by the handler that minted it.
Persisting(j) == \E p \in Handlers : pc[p] = "persist" /\ req[p].new = j

\* What the stores say of a refresh token: verifyRefreshToken would accept it.
Usable(j) == /\ j \notin expired
             /\ j \notin denied
             /\ j \in marker \/ row[j] = "live"

\* The denylist entry a revocation of all sessions left has ended before its token.
Lapsed(j) == j \in floored \ denied

\* JwtStrategy.validate would accept the access token of the pair.
AccessAccepted(j) == j \in delivered /\ j \notin accessExpired /\ j \notin accessDenied

Goto(p, label) == pc' = [pc EXCEPT ![p] = label]

\* The handler answers and is gone.
Finish(p) == /\ Goto(p, "idle")
             /\ req' = [req EXCEPT ![p] = NoRequest]

Continue(p, label) == Goto(p, label) /\ UNCHANGED req

Begin(p, o, u, j, k, a, label) ==
    /\ o \in Ops
    /\ pc[p] = "idle"
    /\ req' = [req EXCEPT ![p] = [op |-> o, usr |-> u, tok |-> j, new |-> k, acc |-> a]]
    /\ Goto(p, label)
    /\ UNCHANGED <<redis, postgres, jwts, live, history>>

-----------------------------------------------------------------------------
(* Requests *)

\* login, register, google: the account was read and is active.
Login(p, u) ==
    \E k \in FreshPairs : isActive[u] /\ Begin(p, "login", u, None, k, None, "remember")

\* POST /auth/refresh with a cookie that still decodes.  A request that arrives
\* when all of Pairs are minted is followed up to the point of minting.
Refresh(p, j) ==
    /\ j \in delivered \ expired
    /\ \E k \in IF FreshPairs = {} THEN {None} ELSE FreshPairs :
          Begin(p, "refresh", owner[j], j, k, None, "checkDenied")

\* POST /auth/logout: the bearer token a passed JwtAuthGuard; the cookie may be
\* absent, or so old that it no longer decodes.
Logout(p, j, a) ==
    /\ AccessAccepted(a)
    /\ j \in (delivered \cap PairsOf(owner[a])) \cup {None}
    /\ Begin(p, "logout", owner[a], j, None, a,
             IF j = None \/ j \in expired THEN "denyAccess" ELSE "checkDenied")

\* changePassword, resetPassword and an adminUpdate of the role, past their checks.
ChangePassword(p, u) == Begin(p, "password", u, None, None, None, "writeUser")

\* adminUpdate with isActive: false, and remove.
Deactivate(p, u) == Begin(p, "deactivate", u, None, None, None, "writeUser")

\* adminUpdate that sets isActive back: one update, no revocation.
Activate(u) ==
    /\ "activate" \in Ops
    /\ ~isActive[u]
    /\ isActive' = [isActive EXCEPT ![u] = TRUE]
    /\ UNCHANGED <<redis, row, replacedBy, jwts, pc, req, live, history>>

-----------------------------------------------------------------------------
(* verifyRefreshToken *)

Verified(p) == Continue(p, IF req[p].op = "refresh" THEN "checkUser" ELSE "deny")

\* refresh throws; logout turns the rejection into null and goes on.
Rejected(p) == IF req[p].op = "logout" THEN Continue(p, "denyAccess") ELSE Finish(p)

CheckDenied(p) ==
    /\ pc[p] = "checkDenied"
    /\ \E up \in RedisCall :
          Continue(p, IF up /\ req[p].tok \in denied THEN "scan" ELSE "checkActive")
    /\ UNCHANGED <<redis, postgres, jwts, live, history>>

CheckActive(p) ==
    /\ pc[p] = "checkActive"
    /\ \E up \in RedisCall :
          IF up /\ req[p].tok \in marker THEN Verified(p) ELSE Continue(p, "checkKnown")
    /\ UNCHANGED <<redis, postgres, jwts, live, history>>

CheckKnown(p) ==
    /\ pc[p] = "checkKnown"
    /\ \E up \in PostgresCall :
          IF up /\ row[req[p].tok] = "live" /\ req[p].tok \notin expired
          THEN Verified(p)
          ELSE Rejected(p)
    /\ UNCHANGED <<redis, postgres, jwts, live, history>>

\* AuthService.refresh reads the account again before it rotates.
CheckUser(p) ==
    /\ pc[p] = "checkUser"
    /\ \E up \in PostgresCall :
          IF up /\ isActive[req[p].usr] /\ req[p].new # None
          THEN Continue(p, "remember")
          ELSE Finish(p)
    /\ UNCHANGED <<redis, postgres, jwts, live, history>>

-----------------------------------------------------------------------------
(* issueTokens: sign, then remember in Redis, then in Postgres *)

Remember(p) ==
    /\ pc[p] = "remember"
    /\ owner' = [owner EXCEPT ![req[p].new] = req[p].usr]
    /\ parent' = [parent EXCEPT ![req[p].new] = req[p].tok]
    /\ \E up \in RedisCall : marker' = IF up THEN marker \cup {req[p].new} ELSE marker
    /\ Continue(p, "persist")
    /\ UNCHANGED <<denied, accessDenied, floored, postgres, expired, accessExpired, delivered,
                   live, doomed, condemned>>

\* Mutant: rotate forgets to revoke the token it was paid with.
PersistUnrotated(p) ==
    /\ pc[p] = "persist"
    /\ row' = [row EXCEPT ![req[p].new] = "live"]
    /\ Continue(p, "respond")
    /\ UNCHANGED <<redis, replacedBy, isActive, jwts, live, history>>

Persist(p) ==
    /\ pc[p] = "persist"
    /\ \E up \in PostgresCall :
          row' = IF up THEN [row EXCEPT ![req[p].new] = "live"] ELSE row
    /\ Continue(p, IF req[p].op = "login" THEN "respond" ELSE "deny")
    /\ UNCHANGED <<redis, replacedBy, isActive, jwts, live, history>>

\* Mutant: the cookie is set to the token of the request.
RespondOld(p) ==
    /\ pc[p] = "respond"
    /\ delivered' = delivered \cup {req[p].tok}
    /\ Finish(p)
    /\ UNCHANGED <<redis, postgres, owner, expired, accessExpired, live, history>>

\* The client stores the new pair.
Respond(p) ==
    /\ pc[p] = "respond"
    /\ delivered' = delivered \cup {req[p].new}
    /\ Finish(p)
    /\ UNCHANGED <<redis, postgres, owner, expired, accessExpired, live, history>>

-----------------------------------------------------------------------------
(* revokeRefreshJti, for rotate and logout *)

\* Mutant: the old jti is not denylisted; its marker and row still go.
DenyNothing(p) ==
    /\ pc[p] = "deny"
    /\ Continue(p, "unmark")
    /\ UNCHANGED <<redis, postgres, jwts, live, history>>

\* The entry gets what is left of exp, so that it lasts as long as the token; it
\* takes the place of one that was there.
Deny(p) ==
    /\ pc[p] = "deny"
    /\ \E up \in RedisCall :
          IF up /\ req[p].tok \notin expired
          THEN denied' = denied \cup {req[p].tok} /\ floored' = floored \ {req[p].tok}
          ELSE UNCHANGED <<denied, floored>>
    /\ Continue(p, "unmark")
    /\ UNCHANGED <<marker, accessDenied, postgres, jwts, live, history>>

\* Mutant: the markers of the user are swept instead of one being deleted.
UnmarkAll(p) ==
    /\ pc[p] = "unmark"
    /\ marker' = marker \ PairsOf(req[p].usr)
    /\ Continue(p, "retireRow")
    /\ UNCHANGED <<denied, accessDenied, floored, postgres, jwts, live, history>>

Unmark(p) ==
    /\ pc[p] = "unmark"
    /\ \E up \in RedisCall : marker' = IF up THEN marker \ {req[p].tok} ELSE marker
    /\ Continue(p, "retireRow")
    /\ UNCHANGED <<denied, accessDenied, floored, postgres, jwts, live, history>>

RetireRow(p) ==
    /\ pc[p] = "retireRow"
    /\ \E up \in PostgresCall :
          IF up /\ row[req[p].tok] = "live"
          THEN /\ row' = [row EXCEPT ![req[p].tok] = "revoked"]
               /\ replacedBy' = [replacedBy EXCEPT ![req[p].tok] = req[p].new]
          ELSE UNCHANGED <<row, replacedBy>>
    /\ Continue(p, IF req[p].op = "refresh" THEN "respond" ELSE "denyAccess")
    /\ UNCHANGED <<redis, isActive, jwts, live, history>>

\* logout ends with revokeAccessJti of the bearer token.
DenyAccess(p) ==
    /\ pc[p] = "denyAccess"
    /\ \E up \in RedisCall :
          accessDenied' = IF up /\ req[p].acc \notin accessExpired
                          THEN accessDenied \cup {req[p].acc} ELSE accessDenied
    /\ Finish(p)
    /\ UNCHANGED <<marker, denied, floored, postgres, jwts, live, history>>

-----------------------------------------------------------------------------
(* Writes to the account, and revokeAllSessions *)

\* The update of the account, after which `remove` also unlinks the Google
\* account: if either call throws, so does the handler, and revokes nothing.
WriteUser(p) ==
    /\ pc[p] = "writeUser"
    /\ LET written == IF req[p].op = "deactivate"
                      THEN [isActive EXCEPT ![req[p].usr] = FALSE] ELSE isActive
       IN  \/ Continue(p, "scan") /\ isActive' = written
           \/ PostgresMayFail /\ Finish(p) /\ isActive' \in {isActive, written}
    /\ UNCHANGED <<redis, row, replacedBy, jwts, live, history>>

\* Mutant: revokeAllSessions deletes the Redis markers and leaves Postgres alone.
ScanOnly(p) ==
    /\ pc[p] = "scan"
    /\ marker' = marker \ PairsOf(req[p].usr)
    /\ Rejected(p)
    /\ UNCHANGED <<denied, accessDenied, floored, postgres, jwts, live, history>>

\* delByPattern auth:refresh:{user}:*; a Redis error stops the SCAN part-way.
Scan(p) ==
    /\ pc[p] = "scan"
    /\ \E hit \in SUBSET (marker \cap PairsOf(req[p].usr)) :
          /\ RedisMayFail \/ hit = marker \cap PairsOf(req[p].usr)
          /\ marker' = marker \ hit
    /\ doomed' = [doomed EXCEPT ![p] = PairsOf(req[p].usr)]
    /\ Continue(p, "findLive")
    /\ UNCHANGED <<denied, accessDenied, floored, postgres, jwts, live, parent, condemned>>

FindLive(p) ==
    /\ pc[p] = "findLive"
    /\ \E up \in PostgresCall :
          live' = [live EXCEPT ![p] =
                     IF up THEN {j \in PairsOf(req[p].usr) \ expired : row[j] = "live"} ELSE {}]
    /\ Continue(p, "denyLive")
    /\ UNCHANGED <<redis, postgres, jwts, history>>

\* Promise.all: one denylist entry per row found, in any order.  The entry gets the
\* whole seconds left of the row's expiresAt, which may end a second before exp.
DenyLive(p, j) ==
    /\ pc[p] = "denyLive"
    /\ j \in live[p]
    /\ \E up \in RedisCall :
          IF up /\ j \notin expired
          THEN denied' = denied \cup {j} /\ floored' = floored \cup {j}
          ELSE UNCHANGED <<denied, floored>>
    /\ live' = [live EXCEPT ![p] = @ \ {j}]
    /\ UNCHANGED <<marker, accessDenied, postgres, jwts, pc, req, history>>

\* Mutant: only the rows that were found and denylisted are marked revoked.
RetireFound(p) ==
    /\ pc[p] = "denyLive"
    /\ live[p] = {}
    /\ row' = [j \in Pairs |-> IF j \in denied /\ owner[j] = req[p].usr /\ row[j] = "live"
                              THEN "revoked" ELSE row[j]]
    /\ condemned' = condemned \cup {j \in doomed[p] : ~Persisting(j)}
    /\ doomed' = [doomed EXCEPT ![p] = {}]
    /\ Rejected(p)
    /\ UNCHANGED <<redis, replacedBy, isActive, jwts, live, parent>>

RetireAll(p) ==
    /\ pc[p] = "denyLive"
    /\ live[p] = {}
    /\ \E up \in PostgresCall :
          row' = [j \in Pairs |-> IF up /\ owner[j] = req[p].usr /\ row[j] = "live"
                                  THEN "revoked" ELSE row[j]]
    /\ condemned' = condemned \cup {j \in doomed[p] : ~Persisting(j)}
    /\ doomed' = [doomed EXCEPT ![p] = {}]
    /\ Rejected(p)
    /\ UNCHANGED <<redis, replacedBy, isActive, jwts, live, parent>>

-----------------------------------------------------------------------------
(* Time, the nightly purge, and crashes *)

\* A refresh token reaches its exp, and its Redis keys lapse, if they have not before.
\* Access tokens are shorter-lived, so the access token is gone by then.
Expire(j) ==
    /\ "expire" \in Ops
    /\ owner[j] # None
    /\ j \notin expired
    /\ \A p \in Handlers : req[p].new # j
    /\ expired' = expired \cup {j}
    /\ accessExpired' = accessExpired \cup {j}
    /\ marker' = marker \ {j}
    /\ denied' = denied \ {j}
    /\ floored' = floored \ {j}
    /\ accessDenied' = accessDenied \ {j}
    /\ UNCHANGED <<postgres, owner, delivered, pc, req, live, history>>

\* Mutant: every denylist entry is given whole seconds, those of rotate and logout too.
LapseAny(j) ==
    /\ "expire" \in Ops
    /\ j \in denied \ expired
    /\ denied' = denied \ {j}
    /\ UNCHANGED <<marker, accessDenied, floored, postgres, jwts, pc, req, live, history>>

\* In the last second of its token, an entry of revokeAllSessions lapses before it.
LapseDenial(j) ==
    /\ "expire" \in Ops
    /\ j \in (denied \cap floored) \ expired
    /\ denied' = denied \ {j}
    /\ UNCHANGED <<marker, accessDenied, floored, postgres, jwts, pc, req, live, history>>

ExpireAccess(j) ==
    /\ "expire" \in Ops
    /\ j \in delivered \ accessExpired
    /\ accessExpired' = accessExpired \cup {j}
    /\ accessDenied' = accessDenied \ {j}
    /\ UNCHANGED <<marker, denied, floored, postgres, owner, expired, delivered, pc, req, live,
                   history>>

\* purgeExpiredRefreshTokens, every night at three.
Purge ==
    /\ \E j \in expired : row[j] # "none"
    /\ row' = [j \in Pairs |-> IF j \in expired THEN "none" ELSE row[j]]
    /\ replacedBy' = [j \in Pairs |-> IF j \in expired THEN None ELSE replacedBy[j]]
    /\ UNCHANGED <<redis, isActive, jwts, pc, req, live, history>>

\* The process dies, or the connection drops before the answer is read.
Crash(p) ==
    /\ MayCrash
    /\ pc[p] # "idle"
    /\ Finish(p)
    /\ live' = [live EXCEPT ![p] = {}]
    /\ doomed' = [doomed EXCEPT ![p] = {}]
    /\ UNCHANGED <<redis, postgres, jwts, parent, condemned>>

-----------------------------------------------------------------------------
Arrive(p) ==
    \/ \E u \in Users : Login(p, u) \/ ChangePassword(p, u) \/ Deactivate(p, u)
    \/ \E j \in Pairs : Refresh(p, j)
    \/ \E a \in Pairs, j \in Pairs \cup {None} : Logout(p, j, a)

Step(p) ==
    \/ CheckDenied(p) \/ CheckActive(p) \/ CheckKnown(p) \/ CheckUser(p)
    \/ Remember(p) \/ Persist(p) \/ Respond(p)
    \/ Deny(p) \/ Unmark(p) \/ RetireRow(p) \/ DenyAccess(p)
    \/ WriteUser(p) \/ Scan(p) \/ FindLive(p) \/ RetireAll(p)
    \/ \E j \in Pairs : DenyLive(p, j)

Environment ==
    \/ \E u \in Users : Activate(u)
    \/ \E j \in Pairs : Expire(j) \/ ExpireAccess(j) \/ LapseDenial(j)
    \/ Purge

Next == (\E p \in Handlers : Arrive(p) \/ Step(p) \/ Crash(p)) \/ Environment

Spec == Init /\ [][Next]_vars

\* Node runs every continuation whose awaited call has settled.
FairSpec == Spec /\ \A p \in Handlers : WF_vars(Step(p))
-----------------------------------------------------------------------------
(* What sessions promise *)

\* Once a client holds the pair a refresh minted, the refresh token it paid with is
\* refused: rotate denies the old jti before the answer leaves, whatever other handlers,
\* Postgres errors and crashes do meanwhile.  A revocation of all sessions may put its own
\* entry over that one, which can lapse in the token's last second.
HeirReplacesParent ==
    \A k \in delivered : parent[k] # None => ~Usable(parent[k]) \/ Lapsed(parent[k])

\* Every pair of the user that was in Redis when revokeAllSessions swept the markers, and
\* that is not still to be inserted in Postgres when it has retired the rows, is refused
\* from then on, whether or not a client had it by then.  That is all the code gives: a
\* login or a refresh that was past its checks and remembers its pair after the sweep, or
\* inserts its row after the update, hands out a session that outlives the password change.
RevocationIsFinal == \A j \in condemned : ~Usable(j)

\* No write of any handler brings a refused token back: neither a late row insert, nor a
\* marker, nor a denylist entry put over another, nor the nightly purge.  The one thing
\* that may is a denylist entry of revokeAllSessions that lapses in the last second of its
\* token, while the row, whose update is still to come or was refused, is live.
DeadStaysDead ==
    [][\A j \in delivered :
          /\ ~Usable(j) /\ Usable(j)' => j \in denied /\ Lapsed(j)'
          /\ ~AccessAccepted(j) => ~AccessAccepted(j)']_vars

\* A session ends because its own token was rotated or logged out, because its
\* user's sessions are being revoked, or because it expired; never as a side
\* effect of the rotation or the logout of another session.
EndedForCause ==
    [][\A j \in delivered :
          Usable(j) /\ ~Usable(j)' =>
             \/ j \in expired'
             \/ \E p \in Handlers :
                   \/ pc[p] \in {"deny", "unmark", "retireRow"} /\ req[p].tok = j
                   \/ pc[p] \in {"scan", "denyLive"} /\ req[p].usr = owner[j]]_vars

\* A revocation that has begun does end every session it found, though logins and
\* refreshes of the same user keep arriving.
RevocationEndsSessions ==
    \A p \in Handlers, j \in Pairs :
        (pc[p] = "scan" /\ j \in delivered /\ req[p].usr = owner[j]) ~> ~Usable(j)

\* One request at a time, refresh tokens are what SingleUseSessions says: a token
\* in force is exchanged for at most one other, and no token returns.  A token is
\* alive once a client has it, and due from its denial to the answer.
Abstract == INSTANCE SingleUseSessions WITH
    alive <- {j \in delivered : Usable(j)},
    ended <- {j \in delivered : ~Usable(j)},
    due   <- {j \in Pairs : \E p \in Handlers :
                 /\ pc[p] \in {"unmark", "retireRow", "respond"}
                 /\ req[p].op = "refresh" /\ req[p].tok = j}

ImplementsSingleUse == Abstract!Spec

\* token.service.ts:43, "Refresh tokens are rotating and single use".
SingleUse == \A j \in Pairs : Cardinality({k \in delivered : parent[k] = j}) <= 1
=============================================================================
