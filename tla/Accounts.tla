------------------------------ MODULE Accounts ------------------------------
(***************************************************************************)
(* The accounts of api-core: registration, login by password or Google,    *)
(* refresh, reset links, password changes, administration and removal.     *)
(* Each handler reads a row, decides, writes it, and may then revoke the   *)
(* account's sessions; handlers of one account interleave at every query.  *)
(*                                                                         *)
(* There is one address, and one Google identity that has it: an account   *)
(* that is removed leaves both to the next.  A password and a reset link   *)
(* are the number of the request that made them.  A session is what its    *)
(* tokens say; module Sessions has the stores behind it.  Names, phones,   *)
(* isVerified and the expiry of a link are left out.                       *)
(***************************************************************************)
EXTENDS Integers, FiniteSets

CONSTANTS
    MaxUsers,          \* bounds the accounts
    Handlers,          \* bounds the requests in progress
    Roles,
    MaxRequests,       \* bounds the requests of a behaviour
    QueriesMayFail     \* the last queries of a handler may raise

ASSUME AccountsAssumption ==
    /\ MaxUsers \in Nat \ {0}
    /\ "user" \in Roles /\ "none" \notin Roles
    /\ MaxRequests \in Nat \ {0}
    /\ QueriesMayFail \in BOOLEAN

Ids      == 1..MaxUsers                     \* in the order in which they are created
NoId     == 0
Requests == 0..MaxRequests                  \* 0: no password, no link

VARIABLES
    user,              \* the rows of users
    google,            \* the account the Google identity is linked to
    sessions,          \* the sessions in force
    handler,           \* what each request in progress has read
    requests,          \* the requests so far
    spent,             \* history: reset links that have set a password
    slipped,           \* history: accounts whose change of role or removal revoked nothing
    overtaken          \* history: removed accounts written to by a request that read them before

accountVars == <<user, google, sessions, handler, requests, spent, slipped,
                 overtaken>>

Row     == [held : BOOLEAN,                 \* has the address
            pw : Requests, role : Roles, active : BOOLEAN, reset : Requests]
Absent  == [held |-> FALSE, pw |-> 0, role |-> "none", active |-> FALSE, reset |-> 0]
Session == [id : Ids, pw : Requests, role : Roles,
            late : BOOLEAN]                 \* history: given by a request the row had changed under
Handler == [at    : {"idle", "create", "link", "linked", "grant", "rotate", "issue", "set",
                     "change", "administer", "anonymise", "unlink", "revoke"},
            n     : Requests,
            id    : Ids \cup {NoId},
            seen  : Row \cup {Absent},      \* the row as it was read
            with  : SUBSET Session,         \* the session that asks, if it does
            link  : Requests,
            role  : Roles \cup {"none"},    \* what an administrator sets
            active: {"yes", "no", "none"},
            super : BOOLEAN,
            late  : BOOLEAN]                \* history: the row has changed since it was read
Idle == [at |-> "idle", n |-> 0, id |-> NoId, seen |-> Absent, with |-> {}, link |-> 0,
         role |-> "none", active |-> "none", super |-> FALSE, late |-> FALSE]

AccountsTypeOK ==
    /\ user \in [Ids -> Row \cup {Absent}]
    /\ google \in Ids \cup {NoId}
    /\ sessions \subseteq Session
    /\ handler \in [Handlers -> Handler]
    /\ requests \in Requests /\ spent \subseteq Requests /\ slipped \subseteq Ids
    /\ overtaken \subseteq Ids
    /\ Cardinality({i \in Ids : user[i].held}) <= 1
    /\ google # NoId => user[google] # Absent

\* One account is there, registered with a password.
AccountsInit ==
    /\ user = [i \in Ids |-> IF i = 1 THEN [held |-> TRUE, pw |-> 1, role |-> "user",
                                            active |-> TRUE, reset |-> 0] ELSE Absent]
    /\ google = NoId /\ sessions = {} /\ requests = 1
    /\ handler = [h \in Handlers |-> Idle]
    /\ spent = {} /\ slipped = {} /\ overtaken = {}

-----------------------------------------------------------------------------
Registered(i) == user[i] # Absent
Removed(i)    == Registered(i) /\ ~user[i].held
NextId(i)     == ~Registered(i) /\ \A j \in 1..i - 1 : Registered(j)
Holders       == {i \in Ids : user[i].held}
Fresh(h)      == handler[h].n

Receive(h, fields) ==
    /\ handler[h] = Idle /\ requests < MaxRequests
    /\ requests' = requests + 1
    /\ handler' = [handler EXCEPT ![h] = [fields EXCEPT !.n = requests + 1]]

At(h, label)      == handler[h].at = label
Advance(h, label) == handler' = [handler EXCEPT ![h].at = label]
Close(h)          == handler' = [handler EXCEPT ![h] = Idle]

\* A change passes under the others that have read the account.
Passes(h, i, label) ==
    handler' = [g \in Handlers |->
       IF g = h THEN IF label = "idle" THEN Idle ELSE [handler[h] EXCEPT !.at = label]
       ELSE IF handler[g].id = i THEN [handler[g] EXCEPT !.late = TRUE] ELSE handler[g]]
Write(h, i, r, label) == user' = [user EXCEPT ![i] = r] /\ Passes(h, i, label)

Overtakes(h)  == overtaken' = IF handler[h].late /\ ~user[handler[h].id].held
                             THEN overtaken \cup {handler[h].id} ELSE overtaken
OfRow(i) == [Idle EXCEPT !.id = i, !.seen = user[i]]
-----------------------------------------------------------------------------
(* Registration and login *)

Register(h) ==
    /\ Holders = {}
    /\ Receive(h, [Idle EXCEPT !.at = "create"])
    /\ UNCHANGED <<user, google, sessions, spent, slipped, overtaken>>

NewRow(pw) == [held |-> TRUE, pw |-> pw, role |-> "user", active |-> TRUE, reset |-> 0]

\* The row is inserted, or the address was taken meanwhile.
CreateUser(h) ==
    /\ At(h, "create")
    /\ \/ Holders # {} /\ Close(h) /\ UNCHANGED user
       \/ \E i \in Ids :
             /\ Holders = {} /\ NextId(i)
             /\ user' = [user EXCEPT ![i] = NewRow(Fresh(h))]
             /\ handler' = [handler EXCEPT ![h].at = "grant", ![h].id = i,
                                           ![h].seen = NewRow(Fresh(h))]
    /\ UNCHANGED <<google, sessions, requests, spent, slipped, overtaken>>

\* validateCredentials: the row, and its password and isActive as they were read.
Login(h) ==
    /\ \E i \in Holders : /\ user[i].pw # 0 /\ user[i].active
                          /\ Receive(h, [OfRow(i) EXCEPT !.at = "grant"])
    /\ UNCHANGED <<user, google, sessions, spent, slipped, overtaken>>

LoginWithGoogle(h) ==
    /\ \/ google # NoId /\ user[google].active
          /\ Receive(h, [OfRow(google) EXCEPT !.at = "grant"])
       \/ google = NoId /\ Receive(h, [Idle EXCEPT !.at = "link"])
    /\ UNCHANGED <<user, google, sessions, spent, slipped, overtaken>>

\* The transaction's read of the address, and then its writes.
FindByAddress(h) ==
    /\ At(h, "link")
    /\ handler' = [handler EXCEPT ![h].at = "linked",
                      ![h].id = IF Holders = {} THEN NoId ELSE CHOOSE i \in Holders : TRUE,
                      ![h].seen = IF Holders = {} THEN Absent ELSE user[CHOOSE i \in Holders : TRUE]]
    /\ UNCHANGED <<user, google, sessions, requests, spent, slipped, overtaken>>

\* The link stays when the account turns out to be disabled.  An account that was not
\* verified is marked so and read again.
LinkGoogle(h) ==
    /\ At(h, "linked")
    /\ \/ /\ google # NoId \/ (handler[h].id = NoId /\ Holders # {})
          /\ Close(h)
          /\ UNCHANGED <<user, google>>
       \/ /\ google = NoId /\ handler[h].id # NoId
          /\ google' = handler[h].id
          /\ \/ IF handler[h].seen.active THEN Advance(h, "grant") ELSE Close(h)
             \/ IF user[google'].active
                THEN handler' = [handler EXCEPT ![h].at = "grant", ![h].seen = user[google'],
                                                ![h].late = FALSE]
                ELSE Close(h)
          /\ UNCHANGED user
       \/ \E i \in Ids :
             /\ google = NoId /\ handler[h].id = NoId /\ Holders = {} /\ NextId(i)
             /\ google' = i
             /\ user' = [user EXCEPT ![i] = NewRow(0)]
             /\ handler' = [handler EXCEPT ![h].at = "grant", ![h].id = i, ![h].seen = NewRow(0)]
    /\ UNCHANGED <<sessions, requests, spent, slipped>>
    /\ Overtakes(h)

SessionOf(h) == [id |-> handler[h].id, pw |-> handler[h].seen.pw, role |-> handler[h].seen.role,
                 late |-> handler[h].late]
\* completeLogin
Grant(h) ==
    /\ At(h, "grant")
    /\ sessions' = sessions \cup {SessionOf(h)}
    /\ Close(h)
    /\ UNCHANGED <<user, google, requests, spent, slipped>>
    /\ Overtakes(h)

\* A refresh reads the row again, then exchanges the session, if it is still there.
Refresh(h) ==
    /\ \E s \in sessions : /\ user[s.id].active
                           /\ Receive(h, [OfRow(s.id) EXCEPT !.at = "rotate", !.with = {s}])
    /\ UNCHANGED <<user, google, sessions, spent, slipped, overtaken>>
Rotate(h) ==
    /\ At(h, "rotate")
    /\ sessions' = IF handler[h].with \subseteq sessions
                   THEN (sessions \ handler[h].with) \cup {SessionOf(h)} ELSE sessions
    /\ Close(h)
    /\ UNCHANGED <<user, google, requests, spent, slipped>>
    /\ Overtakes(h)
-----------------------------------------------------------------------------
(* Passwords *)

ForgotPassword(h) ==
    /\ \E i \in Holders : user[i].active /\ Receive(h, [OfRow(i) EXCEPT !.at = "issue"])
    /\ UNCHANGED <<user, google, sessions, spent, slipped, overtaken>>
IssueLink(h) ==
    /\ At(h, "issue")
    /\ user' = [user EXCEPT ![handler[h].id].reset = Fresh(h)]
    /\ Close(h)
    /\ UNCHANGED <<google, sessions, requests, spent, slipped>>
    /\ Overtakes(h)

ResetPassword(h) ==
    /\ \E i \in Ids : /\ user[i].reset # 0
                      /\ Receive(h, [OfRow(i) EXCEPT !.at = "set", !.link = user[i].reset])
    /\ UNCHANGED <<user, google, sessions, spent, slipped, overtaken>>

\* Mutant: the link is left in place.
SetPasswordOnly(h) ==
    /\ At(h, "set")
    /\ LET i == handler[h].id
       IN  Write(h, i, [user[i] EXCEPT !.pw = Fresh(h)], "revoke")
    /\ spent' = spent \cup {handler[h].link}
    /\ UNCHANGED <<google, sessions, requests, slipped>>
    /\ Overtakes(h)

\* Whatever link the row has by now is cleared.
SetPassword(h) ==
    /\ At(h, "set")
    /\ LET i == handler[h].id
       IN  Write(h, i, [user[i] EXCEPT !.pw = Fresh(h), !.reset = 0], "revoke")
    /\ spent' = spent \cup {handler[h].link}
    /\ UNCHANGED <<google, sessions, requests, slipped>>
    /\ Overtakes(h)

\* Asked for with an access token; the current password is the one that was read.
ChangePassword(h) ==
    /\ \E s \in sessions : user[s.id].pw # 0 /\ Receive(h, [OfRow(s.id) EXCEPT !.at = "change"])
    /\ UNCHANGED <<user, google, sessions, spent, slipped, overtaken>>
WritePassword(h) ==
    /\ At(h, "change")
    /\ LET i == handler[h].id
       IN  Write(h, i, [user[i] EXCEPT !.pw = Fresh(h)], "revoke")
    /\ UNCHANGED <<google, sessions, requests, spent, slipped>>
    /\ Overtakes(h)
-----------------------------------------------------------------------------
(* Administration *)

\* A role other than the one read is for a superadmin to set.
AdminUpdate(h, i, role, active, super) ==
    /\ Registered(i)
    /\ role \in {"none", user[i].role} \/ super
    /\ Receive(h, [OfRow(i) EXCEPT !.at = "administer", !.role = role, !.active = active,
                                   !.super = super])
    /\ UNCHANGED <<user, google, sessions, spent, slipped, overtaken>>

NewRole(h, i) == IF handler[h].role = "none" THEN user[i].role ELSE handler[h].role
Edited(h, i)  == [user[i] EXCEPT !.role = NewRole(h, i),
                                 !.active = IF handler[h].active = "none" THEN @
                                            ELSE handler[h].active = "yes"]

\* Mutant: only a deactivation revokes.
RevokesIfDisabled(h) == handler[h].active = "no"

\* Whether to revoke is decided by the role that was read.
Revokes(h) == handler[h].role \notin {"none", handler[h].seen.role} \/ handler[h].active = "no"

WriteAccount(h) ==
    /\ At(h, "administer")
    /\ LET i == handler[h].id
       IN  /\ Write(h, i, Edited(h, i), IF Revokes(h) THEN "revoke" ELSE "idle")
           /\ slipped' = IF handler[h].late /\ ~Revokes(h) /\ NewRole(h, i) # user[i].role
                         THEN slipped \cup {i} ELSE slipped
    /\ UNCHANGED <<google, sessions, requests, spent, overtaken>>

Remove(h, i) ==
    /\ Registered(i)
    /\ Receive(h, [OfRow(i) EXCEPT !.at = "anonymise"])
    /\ UNCHANGED <<user, google, sessions, spent, slipped, overtaken>>

\* Mutant: an outstanding reset link is kept.
AnonymiseKeepingLink(h) ==
    /\ At(h, "anonymise")
    /\ LET i == handler[h].id
       IN  Write(h, i, [user[i] EXCEPT !.held = FALSE, !.pw = 0, !.active = FALSE], "unlink")
    /\ UNCHANGED <<google, sessions, requests, spent, slipped, overtaken>>

Anonymise(h) ==
    /\ At(h, "anonymise")
    /\ LET i == handler[h].id
       IN  Write(h, i, [user[i] EXCEPT !.held = FALSE, !.pw = 0, !.active = FALSE, !.reset = 0],
                 "unlink")
    /\ UNCHANGED <<google, sessions, requests, spent, slipped, overtaken>>

\* When the links cannot be deleted the sessions are not revoked either.
Unlink(h) ==
    /\ At(h, "unlink")
    /\ \/ /\ google' = IF google = handler[h].id THEN NoId ELSE google
          /\ Passes(h, handler[h].id, "revoke")
          /\ UNCHANGED slipped
       \/ /\ QueriesMayFail
          /\ slipped' = slipped \cup {handler[h].id}
          /\ Close(h)
          /\ UNCHANGED google
    /\ UNCHANGED <<user, sessions, requests, spent, overtaken>>

\* revokeAllSessions, the end of every change that signs an account out.
RevokeAll(h) ==
    /\ At(h, "revoke")
    /\ \/ /\ sessions' = {s \in sessions : s.id # handler[h].id}
          /\ UNCHANGED slipped
       \/ /\ QueriesMayFail
          /\ slipped' = slipped \cup {handler[h].id}
          /\ UNCHANGED sessions
    /\ Close(h)
    /\ UNCHANGED <<user, google, requests, spent, overtaken>>

-----------------------------------------------------------------------------
Proceeds(h) ==
    \/ CreateUser(h) \/ FindByAddress(h) \/ LinkGoogle(h) \/ Grant(h) \/ Rotate(h)
    \/ IssueLink(h) \/ SetPassword(h) \/ WritePassword(h)
    \/ WriteAccount(h) \/ Anonymise(h) \/ Unlink(h) \/ RevokeAll(h)

AccountsNext ==
    \E h \in Handlers :
       \/ Register(h) \/ Login(h) \/ LoginWithGoogle(h) \/ Refresh(h)
       \/ ForgotPassword(h) \/ ResetPassword(h) \/ ChangePassword(h)
       \/ \E i \in Ids :
             \/ \E role \in Roles \cup {"none"}, active \in {"yes", "no", "none"},
                   super \in BOOLEAN : AdminUpdate(h, i, role, active, super)
             \/ Remove(h, i)
       \/ Proceeds(h)

AccountsSpec == AccountsInit /\ [][AccountsNext]_accountVars
-----------------------------------------------------------------------------
(* What the accounts promise *)

SigningOut(i) == \E h \in Handlers : handler[h].id = i /\ handler[h].at \in {"unlink", "revoke"}

\* Whoever is signed in is so under the password and the role their account has,
\* and the account is not disabled: only a request that had read the account
\* before it changed may sign in after the sessions were revoked, and only a role
\* that slipped in under an administrator, or a revocation that failed, leaves
\* sessions behind.
SignedInAsStored ==
    \A s \in sessions :
        \/ s.late \/ s.id \in slipped \/ SigningOut(s.id)
        \/ user[s.id].active /\ user[s.id].pw = s.pw /\ user[s.id].role = s.role

\* Once an account's removal is complete, it is given a password, a link or a
\* session only by a request that had read it before, and what removal cleared
\* stays cleared, even if an administrator enables the account again.
RemovedStaysRemoved ==
    [][\A i \in Ids : Removed(i) =>
          \/ /\ user'[i].pw = user[i].pw /\ user'[i].reset = user[i].reset /\ ~user'[i].held
             /\ google' = i => google = i
             /\ \A s \in sessions' \ sessions : s.id # i
          \/ i \in slipped \cup overtaken \/ SigningOut(i)
          \/ \E h \in Handlers : handler[h].late /\ handler[h].id = i /\ handler'[h] # handler[h]
      ]_accountVars

\* auth.dto.ts:80, "Single-use token": a link that has set a password sets one
\* again only in a request that had looked it up before.
LinksWorkOnce ==
    [][\A h \in Handlers : SetPassword(h) /\ handler[h].link \in spent => handler[h].late]_accountVars
=============================================================================
