--------------------------- MODULE PlatformProofs ---------------------------
(***************************************************************************)
(* Of Accounts: that sessions match accounts and what was removed stays    *)
(* removed.  Of Catalogue: that its counts and its references hold         *)
(* together.                                                               *)
(***************************************************************************)
EXTENDS Accounts, Catalogue, FiniteSetTheorems, TLAPS

-----------------------------------------------------------------------------
\* Accounts: the sessions, the removals and the reset links.

USE AccountsAssumption

-----------------------------------------------------------------------------
(* Types, and what a handler has in hand at each of its queries *)

AccountsTyped ==
    /\ user \in [Ids -> Row \cup {Absent}]
    /\ google \in Ids \cup {NoId}
    /\ sessions \subseteq Session
    /\ handler \in [Handlers -> Handler]
    /\ requests \in Requests /\ spent \subseteq Requests /\ slipped \subseteq Ids
    /\ overtaken \subseteq Ids

\* As the row was read, its reset link aside.
SameRow(r, s) == r.held = s.held /\ r.pw = s.pw /\ r.role = s.role /\ r.active = s.active

\* Its own write is done.
Revoking == {"unlink", "revoke"}

\* What a handler has read is what the row still says, unless it is marked late.
InStep(j) ==
    /\ j.at = "idle" => j = Idle
    /\ j.at \in {"create", "link"} => j.id = NoId
    /\ j.at \notin {"idle", "create", "link", "linked"} => j.id # NoId
    /\ j.id = NoId => ~j.late
    /\ j.id # NoId => user[j.id] \in Row /\ j.seen \in Row
    /\ j.id # NoId /\ ~j.late /\ j.at \notin Revoking => SameRow(j.seen, user[j.id])
    /\ j.at \in {"grant", "rotate"} => j.seen.active

Related ==
    /\ google # NoId => user[google] \in Row
    /\ \A s \in sessions : user[s.id] \in Row
    /\ \A i, j \in Ids : user[i].held /\ user[j].held => i = j
    /\ \A h \in Handlers : InStep(handler[h])

Grounded == AccountsTyped /\ Related

LEMMA Numbers == NoId \notin Ids /\ 0 \in Requests /\ NoId = 0 /\ Ids \subseteq Nat /\ Requests \subseteq Nat
  BY DEF NoId, Ids, Requests

LEMMA Rows ==
  /\ Absent \notin Row
  /\ ~Absent.held
  /\ \A pw \in Requests : NewRow(pw) \in Row /\ NewRow(pw).active /\ NewRow(pw).held
                          /\ NewRow(pw).reset = 0 /\ NewRow(pw).pw = pw
  BY Numbers DEF Absent, Row, NewRow

LEMMA IdleTyped ==
  /\ Idle \in Handler /\ Idle.at = "idle" /\ Idle.id = NoId /\ ~Idle.late
  BY Numbers DEF Idle, Handler

LEMMA InitGrounded == AccountsInit => Grounded
<1> SUFFICES ASSUME AccountsInit PROVE Grounded
  OBVIOUS
<1>1. [held |-> TRUE, pw |-> 1, role |-> "user", active |-> TRUE, reset |-> 0] \in Row
  BY DEF Row, Requests
<1>2. AccountsTyped
  BY <1>1, IdleTyped, Numbers DEF AccountsInit, AccountsTyped, Requests
<1>3. \A i \in Ids : user[i].held => i = 1
  BY Rows DEF AccountsInit
<1>4. Related
  BY <1>3, IdleTyped, Numbers DEF AccountsInit, Related, InStep
<1>5. QED BY <1>2, <1>4 DEF Grounded


\* The others keep what they have; or the row they have read is written and they are late.
OthersKeep(h) ==
    \A g \in Handlers \ {h} :
       \/ /\ handler'[g] = handler[g]
          /\ handler[g].id # NoId => SameRow(user[handler[g].id], user'[handler[g].id])
       \/ handler[g].id # NoId /\ handler'[g] = [handler[g] EXCEPT !.late = TRUE]

\* A handler moves to j.
MovesTo(h, j) ==
    /\ j \in Handler /\ handler'[h] = j
    /\ \E f \in [Handlers -> Handler] : handler' = f
    /\ OthersKeep(h)

\* Rows stay, and one at most has the address.
RowsKept ==
    /\ user' \in [Ids -> Row \cup {Absent}]
    /\ \A i \in Ids : user[i] \in Row => user'[i] \in Row
    /\ \A i, k \in Ids : user'[i].held /\ user'[k].held => i = k

LEMMA RowsUnchanged == Grounded /\ user' = user => RowsKept
  BY DEF Grounded, AccountsTyped, Related, RowsKept

LEMMA StepGrounded ==
  ASSUME Grounded, NEW h \in Handlers, NEW j, MovesTo(h, j), RowsKept, InStep(j)',
         google' \in Ids \cup {NoId}, google' # NoId => user'[google'] \in Row,
         sessions' \subseteq Session, \A s \in sessions' : user'[s.id] \in Row,
         requests' \in Requests, spent' \subseteq Requests, slipped' \subseteq Ids,
         overtaken' \subseteq Ids
  PROVE  Grounded'
<1>1. AccountsTyped'
  BY DEF AccountsTyped, MovesTo, RowsKept
<1>2. ASSUME NEW g \in Handlers \ {h} PROVE InStep(handler[g])'
  <2>1. InStep(handler[g]) /\ handler[g] \in Handler
    BY DEF Grounded, Related, AccountsTyped
  <2>2. handler[g].id # NoId => user[handler[g].id] \in Row /\ user'[handler[g].id] \in Row
    BY <2>1, Numbers DEF InStep, RowsKept, Handler
  <2>3. CASE /\ handler'[g] = handler[g]
             /\ handler[g].id # NoId => SameRow(user[handler[g].id], user'[handler[g].id])
    BY <2>1, <2>2, <2>3 DEF InStep, SameRow
  <2>4. CASE handler[g].id # NoId /\ handler'[g] = [handler[g] EXCEPT !.late = TRUE]
    BY <2>1, <2>2, <2>4, IdleTyped DEF InStep, Handler
  <2>5. QED BY <2>3, <2>4 DEF MovesTo, OthersKeep
<1>3. InStep(handler[h])'
  BY DEF MovesTo
<1>4. QED BY <1>1, <1>2, <1>3 DEF Grounded, Related, RowsKept

\* The four ways a handler moves.
LEMMA Advances ==
  ASSUME Grounded, NEW h \in Handlers, NEW j \in Handler, user' = user,
         handler' = [handler EXCEPT ![h] = j]
  PROVE  MovesTo(h, j)
  BY DEF Grounded, AccountsTyped, MovesTo, OthersKeep, SameRow

LEMMA Writes ==
  ASSUME Grounded, NEW h \in Handlers, NEW i \in Ids, NEW r, NEW label, Write(h, i, r, label)
  PROVE  /\ user' = [user EXCEPT ![i] = r]
         /\ label = "idle" => MovesTo(h, Idle)
         /\ label \in Revoking => MovesTo(h, [handler[h] EXCEPT !.at = label])
<1> DEFINE j == IF label = "idle" THEN Idle ELSE [handler[h] EXCEPT !.at = label]
<1>1. handler \in [Handlers -> Handler] /\ user \in [Ids -> Row \cup {Absent}]
  BY DEF Grounded, AccountsTyped
<1>2. label = "idle" \/ label \in Revoking => j \in Handler
  BY <1>1, IdleTyped DEF Handler, Revoking
<1>3. \A g \in Handlers : [handler[g] EXCEPT !.late = TRUE] \in Handler
  <2>1. ASSUME NEW k \in Handler PROVE [k EXCEPT !.late = TRUE] \in Handler
    BY DEF Handler
  <2>2. QED BY <1>1, <2>1
<1> HIDE DEF j
<1>4. /\ user' = [user EXCEPT ![i] = r]
      /\ handler' = [g \in Handlers |->
            IF g = h THEN j ELSE IF handler[g].id = i THEN [handler[g] EXCEPT !.late = TRUE] ELSE handler[g]]
  BY DEF Write, Passes, j
<1>5. \A g \in Handlers \ {h} : handler[g].id # i /\ handler[g].id # NoId =>
         SameRow(user[handler[g].id], user'[handler[g].id])
  BY <1>1, <1>4 DEF SameRow, Handler
<1>6. i # NoId
  BY Numbers
<1>7. OthersKeep(h)
  BY <1>4, <1>5, <1>6 DEF OthersKeep
<1>8. label = "idle" \/ label \in Revoking => MovesTo(h, j)
  <2> SUFFICES ASSUME label = "idle" \/ label \in Revoking PROVE MovesTo(h, j)
    OBVIOUS
  <2>1. handler' \in [Handlers -> Handler]
    BY <1>1, <1>2, <1>3, <1>4
  <2>2. QED BY <1>2, <1>4, <1>7, <2>1 DEF MovesTo
<1>9. QED BY <1>4, <1>8 DEF j, Revoking

\* A request: the row of an account is read, or nothing is.
LEMMA Receives ==
  ASSUME Grounded, NEW h \in Handlers, NEW j \in Handler, Receive(h, j),
         UNCHANGED <<user, google, sessions, spent, slipped, overtaken>>,
         InStep(j), j.at # "idle"
  PROVE  Grounded'
<1>1. requests + 1 \in Requests /\ requests' = requests + 1
  BY Numbers DEF Receive, Grounded, AccountsTyped, Requests
<1>a. PICK k : k = [j EXCEPT !.n = requests + 1]
  OBVIOUS
<1>2. k \in Handler /\ InStep(k)
  BY <1>1, <1>a DEF InStep, Handler
<1>3. handler' = [handler EXCEPT ![h] = k]
  BY <1>a DEF Receive
<1>4. MovesTo(h, k)
  BY <1>2, <1>3, Advances
<1>5. InStep(k)'
  BY <1>2 DEF InStep
<1>6. QED BY <1>1, <1>4, <1>5, RowsUnchanged, StepGrounded DEF Grounded, AccountsTyped, Related

LEMMA OfRowTyped ==
  ASSUME Grounded, NEW i \in Ids, user[i] \in Row,
         NEW label \in {"grant", "rotate", "issue", "set", "change", "administer", "anonymise"},
         label \in {"grant", "rotate"} => user[i].active
  PROVE  /\ [OfRow(i) EXCEPT !.at = label] \in Handler
         /\ InStep([OfRow(i) EXCEPT !.at = label])
         /\ OfRow(i) \in Handler
  BY Numbers DEF OfRow, Idle, Handler, InStep, SameRow, Revoking

LEMMA ArrivalGrounded ==
  ASSUME Grounded, NEW h \in Handlers,
         \/ Register(h) \/ Login(h) \/ LoginWithGoogle(h) \/ Refresh(h)
         \/ ForgotPassword(h) \/ ResetPassword(h) \/ ChangePassword(h)
         \/ \E i \in Ids :
               \/ \E role \in Roles \cup {"none"}, active \in {"yes", "no", "none"},
                     super \in BOOLEAN : AdminUpdate(h, i, role, active, super)
               \/ Remove(h, i)
  PROVE  Grounded'
<1>0. /\ user \in [Ids -> Row \cup {Absent}] /\ google \in Ids \cup {NoId} /\ sessions \subseteq Session
      /\ google # NoId => user[google] \in Row
      /\ \A s \in sessions : s.id \in Ids /\ user[s.id] \in Row
      /\ \A i \in Ids : user[i] \in Row <=> Registered(i)
      /\ \A i \in Ids : user[i].held \/ user[i].reset # 0 => user[i] \in Row
  <2>1. \A i \in Ids : user[i] \in Row \cup {Absent}
    BY DEF Grounded, AccountsTyped
  <2>2. \A s \in sessions : s.id \in Ids
    BY DEF Grounded, AccountsTyped, Session
  <2>3. \A i \in Ids : user[i].held \/ user[i].reset # 0 => user[i] \in Row
    BY <2>1 DEF Absent
  <2>4. \A i \in Ids : user[i] \in Row <=> Registered(i)
    BY <2>1, Rows DEF Registered
  <2>5. QED BY <2>2, <2>3, <2>4 DEF Grounded, AccountsTyped, Related
<1>1. CASE Register(h)
  <2>1. [Idle EXCEPT !.at = "create"] \in Handler /\ InStep([Idle EXCEPT !.at = "create"])
    BY Numbers DEF Idle, Handler, InStep, Revoking
  <2>2. QED BY <1>1, <2>1, Receives DEF Register, Idle
<1>2. CASE Login(h)
  <2>1. PICK i \in Holders : user[i].active /\ Receive(h, [OfRow(i) EXCEPT !.at = "grant"])
    BY <1>2 DEF Login
  <2>2. i \in Ids /\ user[i] \in Row
    BY <1>0 DEF Holders
  <2>3. QED BY <1>2, <2>1, <2>2, OfRowTyped, Receives DEF Login, OfRow, Idle
<1>3. CASE LoginWithGoogle(h)
  <2>1. [Idle EXCEPT !.at = "link"] \in Handler /\ InStep([Idle EXCEPT !.at = "link"])
    BY Numbers DEF Idle, Handler, InStep, Revoking
  <2>2. CASE Receive(h, [Idle EXCEPT !.at = "link"])
    BY <1>3, <2>1, <2>2, Receives DEF LoginWithGoogle, Idle
  <2>3. CASE google # NoId /\ user[google].active /\ Receive(h, [OfRow(google) EXCEPT !.at = "grant"])
    <3>1. google \in Ids /\ user[google] \in Row
      BY <1>0, <2>3
    <3>2. QED BY <1>3, <2>3, <3>1, OfRowTyped, Receives DEF LoginWithGoogle, OfRow, Idle
  <2>4. QED BY <1>3, <2>2, <2>3 DEF LoginWithGoogle
<1>4. CASE Refresh(h)
  <2>1. PICK s \in sessions : user[s.id].active /\ Receive(h, [OfRow(s.id) EXCEPT !.at = "rotate", !.with = {s}])
    BY <1>4 DEF Refresh
  <2> DEFINE j == [OfRow(s.id) EXCEPT !.at = "rotate", !.with = {s}]
  <2>2. s.id \in Ids /\ user[s.id] \in Row /\ {s} \in SUBSET Session
    BY <1>0
  <2>3. j \in Handler /\ InStep(j) /\ j.at # "idle"
    BY <2>1, <2>2, Numbers DEF OfRow, Idle, Handler, InStep, SameRow, Revoking
  <2> HIDE DEF j
  <2>4. Receive(h, j)
    BY <2>1 DEF j
  <2>5. QED BY <1>4, <2>3, <2>4, Receives DEF Refresh
<1>5. CASE ForgotPassword(h)
  <2>1. PICK i \in Holders : Receive(h, [OfRow(i) EXCEPT !.at = "issue"])
    BY <1>5 DEF ForgotPassword
  <2>2. i \in Ids /\ user[i] \in Row
    BY <1>0 DEF Holders
  <2>3. QED BY <1>5, <2>1, <2>2, OfRowTyped, Receives DEF ForgotPassword, OfRow, Idle
<1>6. CASE ResetPassword(h)
  <2>1. PICK i \in Ids : /\ user[i].reset # 0
                         /\ Receive(h, [OfRow(i) EXCEPT !.at = "set", !.link = user[i].reset])
    BY <1>6 DEF ResetPassword
  <2> DEFINE j == [OfRow(i) EXCEPT !.at = "set", !.link = user[i].reset]
  <2>2. i \in Ids /\ user[i] \in Row /\ user[i].reset \in Requests
    BY <1>0, <2>1 DEF Row
  <2>3. j \in Handler /\ InStep(j) /\ j.at # "idle"
    BY <2>1, <2>2, Numbers DEF OfRow, Idle, Handler, InStep, SameRow, Revoking
  <2> HIDE DEF j
  <2>4. Receive(h, j)
    BY <2>1 DEF j
  <2>5. QED BY <1>6, <2>3, <2>4, Receives DEF ResetPassword
<1>7. CASE ChangePassword(h)
  <2>1. PICK s \in sessions : Receive(h, [OfRow(s.id) EXCEPT !.at = "change"])
    BY <1>7 DEF ChangePassword
  <2>2. QED BY <1>0, <1>7, <2>1, OfRowTyped, Receives DEF ChangePassword, OfRow, Idle
<1>8. ASSUME NEW i \in Ids, NEW role \in Roles \cup {"none"}, NEW active \in {"yes", "no", "none"},
             NEW super \in BOOLEAN, AdminUpdate(h, i, role, active, super)
      PROVE  Grounded'
  <2> DEFINE j == [OfRow(i) EXCEPT !.at = "administer", !.role = role, !.active = active, !.super = super]
  <2>1. user[i] \in Row
    BY <1>0, <1>8 DEF AdminUpdate
  <2>2. j \in Handler /\ InStep(j) /\ j.at # "idle"
    BY <2>1, Numbers DEF OfRow, Idle, Handler, InStep, SameRow, Revoking
  <2>3. Receive(h, j) /\ UNCHANGED <<user, google, sessions, spent, slipped, overtaken>>
    BY <1>8 DEF AdminUpdate
  <2> HIDE DEF j
  <2>4. QED BY <2>2, <2>3, Receives
<1>9. ASSUME NEW i \in Ids, Remove(h, i) PROVE Grounded'
  BY <1>0, <1>9, OfRowTyped, Receives DEF Remove, OfRow, Idle
<1>10. QED BY <1>1, <1>2, <1>3, <1>4, <1>5, <1>6, <1>7, <1>8, <1>9

\* A row that is written stays a row, and takes no address.
LEMMA RowWritten ==
  ASSUME Grounded, NEW i \in Ids, NEW r \in Row, user' = [user EXCEPT ![i] = r],
         r.held => user[i].held \/ Holders = {}
  PROVE  RowsKept
  BY Numbers, Rows DEF Grounded, AccountsTyped, Related, RowsKept, Holders

LEMMA Edits ==
  ASSUME NEW r \in Row
  PROVE  /\ \A n \in Requests : LET e == [r EXCEPT !.reset = n]
                                IN  e \in Row /\ e.held = r.held /\ e.reset = n /\ SameRow(r, e)
         /\ \A n \in Requests : LET e == [r EXCEPT !.pw = n, !.reset = 0]
                                IN  e \in Row /\ e.held = r.held /\ e.pw = n /\ e.reset = 0
         /\ \A n \in Requests : LET e == [r EXCEPT !.pw = n]
                                IN  e \in Row /\ e.held = r.held /\ e.reset = r.reset
         /\ LET e == [r EXCEPT !.held = FALSE, !.pw = 0, !.active = FALSE, !.reset = 0]
            IN  e \in Row /\ ~e.held /\ e.pw = 0 /\ e.reset = 0
<1> USE DEF Row, Requests
<1>1. ASSUME NEW n \in Requests
      PROVE  LET e == [r EXCEPT !.reset = n]
             IN  e \in Row /\ e.held = r.held /\ e.reset = n /\ SameRow(r, e)
  BY DEF SameRow
<1>2. ASSUME NEW n \in Requests
      PROVE  LET e == [r EXCEPT !.pw = n, !.reset = 0]
             IN  e \in Row /\ e.held = r.held /\ e.pw = n /\ e.reset = 0
  <2>1. PICK a : a = [r EXCEPT !.pw = n]
    OBVIOUS
  <2>2. a \in Row /\ a.held = r.held /\ a.pw = n
    BY <2>1
  <2>3. PICK e : e = [a EXCEPT !.reset = 0]
    OBVIOUS
  <2>4. e \in Row /\ e.held = r.held /\ e.pw = n /\ e.reset = 0
    BY <2>2, <2>3
  <2>5. QED BY <2>1, <2>3, <2>4
<1>3. ASSUME NEW n \in Requests
      PROVE  LET e == [r EXCEPT !.pw = n] IN e \in Row /\ e.held = r.held /\ e.reset = r.reset
  OBVIOUS
<1>4. LET e == [r EXCEPT !.held = FALSE, !.pw = 0, !.active = FALSE, !.reset = 0]
      IN  e \in Row /\ ~e.held /\ e.pw = 0 /\ e.reset = 0
  <2>1. PICK a : a = [r EXCEPT !.held = FALSE]
    OBVIOUS
  <2>2. a \in Row /\ ~a.held
    BY <2>1
  <2>3. PICK b : b = [a EXCEPT !.pw = 0]
    OBVIOUS
  <2>4. b \in Row /\ ~b.held /\ b.pw = 0
    BY <2>2, <2>3
  <2>5. PICK c : c = [b EXCEPT !.active = FALSE]
    OBVIOUS
  <2>6. c \in Row /\ ~c.held /\ c.pw = 0
    BY <2>4, <2>5
  <2>7. PICK e : e = [c EXCEPT !.reset = 0]
    OBVIOUS
  <2>8. e \in Row /\ ~e.held /\ e.pw = 0 /\ e.reset = 0
    BY <2>6, <2>7
  <2>9. QED BY <2>1, <2>3, <2>5, <2>7, <2>8
<1>5. QED BY <1>1, <1>2, <1>3, <1>4

LEMMA EditedRow ==
  ASSUME Grounded, NEW h \in Handlers, NEW i \in Ids, user[i] \in Row
  PROVE  /\ Edited(h, i) \in Row /\ Edited(h, i).held = user[i].held /\ Edited(h, i).pw = user[i].pw
         /\ Edited(h, i).reset = user[i].reset /\ Edited(h, i).role = NewRole(h, i)
         /\ Edited(h, i).active = IF handler[h].active = "none" THEN user[i].active
                                  ELSE handler[h].active = "yes"
<1> DEFINE a == IF handler[h].active = "none" THEN user[i].active ELSE handler[h].active = "yes"
<1>1. handler[h].role \in Roles \cup {"none"} /\ user[i].role \in Roles /\ a \in BOOLEAN
  BY DEF Grounded, AccountsTyped, Handler, Row
<1>2. NewRole(h, i) \in Roles
  BY <1>1 DEF NewRole
<1>3. Edited(h, i) = [user[i] EXCEPT !.role = NewRole(h, i), !.active = a]
  BY DEF Edited
<1> HIDE DEF a
<1>4. QED BY <1>1, <1>2, <1>3 DEF Row, a

\* A handler that is past its first read, as its record says.
LEMMA InHand ==
  ASSUME Grounded, NEW h \in Handlers, handler[h].at \notin {"idle", "create", "link", "linked"}
  PROVE  handler[h] \in Handler /\ handler[h].id \in Ids /\ user[handler[h].id] \in Row
         /\ handler[h].seen \in Row /\ InStep(handler[h])
  BY Numbers DEF Grounded, AccountsTyped, Related, InStep, Handler

LEMMA Closing ==
  ASSUME Grounded, NEW h \in Handlers, Close(h), user' = user,
         google' \in Ids \cup {NoId}, google' # NoId => user[google'] \in Row,
         sessions' \subseteq Session, \A s \in sessions' : user[s.id] \in Row,
         requests' = requests, spent' \subseteq Requests, slipped' \subseteq Ids,
         overtaken' \subseteq Ids
  PROVE  Grounded'
<1>1. PICK j \in Handler : j = Idle
  BY IdleTyped
<1>2. MovesTo(h, j)
  BY <1>1, Advances DEF Close
<1>3. InStep(j)'
  BY <1>1, IdleTyped DEF InStep
<1>4. QED BY <1>2, <1>3, RowsUnchanged, StepGrounded DEF Grounded, AccountsTyped

\* A write after which the handler goes on to revoke, or is gone.
LEMMA Writing ==
  ASSUME Grounded, NEW h \in Handlers, handler[h].at \notin {"idle", "create", "link", "linked"},
         NEW r \in Row, NEW label \in Revoking \cup {"idle"}, Write(h, handler[h].id, r, label),
         r.held => user[handler[h].id].held,
         google' \in Ids \cup {NoId}, google' # NoId => user[google'] \in Row,
         sessions' = sessions, requests' = requests, spent' \subseteq Requests, slipped' \subseteq Ids,
         overtaken' \subseteq Ids
  PROVE  Grounded'
<1>1. PICK i \in Ids : i = handler[h].id /\ user[i] \in Row
  BY InHand
<1>2. PICK j : j = IF label = "idle" THEN Idle ELSE [handler[h] EXCEPT !.at = label]
  OBVIOUS
<1>3. user' = [user EXCEPT ![i] = r] /\ MovesTo(h, j)
  BY <1>1, <1>2, Writes DEF Revoking
<1>4. RowsKept
  BY <1>1, <1>3, RowWritten
<1>5. InStep(j)'
  <2>1. handler[h] \in Handler /\ InStep(handler[h]) /\ handler[h].seen \in Row /\ handler[h].id = i
    BY <1>1, InHand
  <2>2. user'[i] \in Row
    BY <1>1, <1>3 DEF Grounded, AccountsTyped
  <2>3. QED BY <1>1, <1>2, <2>1, <2>2, IdleTyped, Numbers DEF InStep, Revoking, Handler
<1>6. google' # NoId => user'[google'] \in Row
  BY <1>4 DEF RowsKept
<1>7. \A s \in sessions' : user'[s.id] \in Row
  BY <1>4 DEF RowsKept, Grounded, AccountsTyped, Related, Session
<1>8. QED BY <1>3, <1>4, <1>5, <1>6, <1>7, StepGrounded DEF Grounded, AccountsTyped

\* A handler that changes its own record only.
LEMMA OwnRecordOnly ==
  ASSUME Grounded, NEW h \in Handlers, NEW j \in Handler, handler' = [handler EXCEPT ![h] = j],
         user' = user, InStep(j)',
         google' \in Ids \cup {NoId}, google' # NoId => user[google'] \in Row,
         UNCHANGED <<sessions, requests, spent, slipped>>, overtaken' \subseteq Ids
  PROVE  Grounded'
  BY Advances, RowsUnchanged, StepGrounded DEF Grounded, AccountsTyped, Related

LEMMA OvertakesTyped ==
  ASSUME Grounded, NEW h \in Handlers, Overtakes(h)
  PROVE  overtaken' \subseteq Ids /\ (handler[h].late => handler[h].id \in Ids)
  BY DEF Overtakes, Grounded, AccountsTyped, Related, InStep, Handler

LEMMA NewAccount ==
  ASSUME Grounded, NEW h \in Handlers, handler[h].at \in {"create", "linked"}, handler[h].id = NoId,
         NEW i \in Ids, Holders = {}, NextId(i), NEW pw \in Requests,
         user' = [user EXCEPT ![i] = NewRow(pw)],
         handler' = [handler EXCEPT ![h].at = "grant", ![h].id = i, ![h].seen = NewRow(pw)],
         google' \in {google, i}, UNCHANGED <<sessions, requests, spent, slipped>>, overtaken' \subseteq Ids
  PROVE  /\ Grounded'
         /\ handler'[h].at = "grant" /\ handler'[h].id = i /\ handler'[h].seen = NewRow(pw)
         /\ ~handler'[h].late
         /\ user[i] = Absent /\ \A g \in Handlers \ {h} : handler'[g] = handler[g] /\ handler[g].id # i
<1>1. PICK j : j = [handler[h] EXCEPT !.at = "grant", !.id = i, !.seen = NewRow(pw)]
  OBVIOUS
<1>2. handler[h] \in Handler /\ ~handler[h].late
  BY DEF Grounded, AccountsTyped, Related, InStep
<1>3. j \in Handler /\ j.at = "grant" /\ j.id = i /\ j.seen = NewRow(pw) /\ ~j.late
  BY <1>1, <1>2, Rows DEF Handler
<1>4. handler' = [handler EXCEPT ![h] = j]
  BY <1>1
<1>5. user[i] = Absent
  BY DEF NextId, Registered
<1>6. \A g \in Handlers \ {h} : handler'[g] = handler[g] /\ handler[g].id # i
  <2>1. \A g \in Handlers : handler[g].id # i
    BY <1>5, Rows, Numbers DEF Grounded, Related, InStep
  <2>2. QED BY <1>4, <2>1 DEF Grounded, AccountsTyped
<1>7. OthersKeep(h)
  <2> SUFFICES ASSUME NEW g \in Handlers \ {h}, handler[g].id # NoId
               PROVE  SameRow(user[handler[g].id], user'[handler[g].id])
    BY <1>6 DEF OthersKeep
  <2>1. handler[g].id # i /\ user'[handler[g].id] = user[handler[g].id]
    BY <1>6 DEF Grounded, AccountsTyped, Handler
  <2>2. QED BY <2>1 DEF SameRow
<1>8. MovesTo(h, j)
  BY <1>3, <1>4, <1>7 DEF MovesTo, Grounded, AccountsTyped
<1>9. RowsKept /\ user'[i] = NewRow(pw)
  BY Rows, RowWritten DEF Grounded, AccountsTyped
<1>10. InStep(j)'
  BY <1>3, <1>9, Rows, Numbers DEF InStep, SameRow
<1>11. google' # NoId => user'[google'] \in Row
  BY <1>9, Rows DEF RowsKept, Grounded, AccountsTyped, Related
<1>12. \A s \in sessions' : user'[s.id] \in Row
  BY <1>9 DEF RowsKept, Grounded, AccountsTyped, Related, Session
<1>13. Grounded'
  BY <1>8, <1>9, <1>10, <1>11, <1>12, StepGrounded DEF Grounded, AccountsTyped
<1>14. handler'[h] = j
  BY <1>8 DEF MovesTo
<1>15. QED BY <1>3, <1>5, <1>6, <1>13, <1>14

LEMMA LinkingGrounded ==
  ASSUME Grounded, NEW h \in Handlers, CreateUser(h) \/ FindByAddress(h) \/ LinkGoogle(h)
  PROVE  Grounded'
<1>0. /\ handler[h] \in Handler /\ InStep(handler[h]) /\ google \in Ids \cup {NoId}
      /\ google # NoId => user[google] \in Row
      /\ sessions \subseteq Session /\ \A s \in sessions : user[s.id] \in Row
      /\ spent \subseteq Requests /\ slipped \subseteq Ids /\ overtaken \subseteq Ids
      /\ Fresh(h) \in Requests
  BY DEF Grounded, AccountsTyped, Related, Fresh, Handler
<1>1. CASE CreateUser(h)
  <2>1. handler[h].at = "create" /\ handler[h].id = NoId
    BY <1>0, <1>1 DEF CreateUser, At, InStep
  <2>2. CASE Close(h) /\ user' = user
    BY <1>0, <1>1, <2>2, Closing DEF CreateUser
  <2>3. CASE \E i \in Ids :
             /\ Holders = {} /\ NextId(i)
             /\ user' = [user EXCEPT ![i] = NewRow(Fresh(h))]
             /\ handler' = [handler EXCEPT ![h].at = "grant", ![h].id = i, ![h].seen = NewRow(Fresh(h))]
    <3>1. PICK i \in Ids :
             /\ Holders = {} /\ NextId(i)
             /\ user' = [user EXCEPT ![i] = NewRow(Fresh(h))]
             /\ handler' = [handler EXCEPT ![h].at = "grant", ![h].id = i, ![h].seen = NewRow(Fresh(h))]
      BY <2>3
    <3>2. PICK pw \in Requests : pw = Fresh(h)
      BY <1>0
    <3>3. google' = google /\ UNCHANGED <<sessions, requests, spent, slipped>> /\ overtaken' \subseteq Ids
      BY <1>0, <1>1 DEF CreateUser
    <3>4. QED BY <2>1, <3>1, <3>2, <3>3, NewAccount
  <2>4. QED BY <1>1, <2>2, <2>3 DEF CreateUser
<1>2. CASE FindByAddress(h)
  <2>1. PICK i : i = IF Holders = {} THEN NoId ELSE CHOOSE k \in Holders : TRUE
    OBVIOUS
  <2>2. IF Holders = {} THEN i = NoId ELSE i \in Ids /\ user[i].held
    BY <2>1 DEF Holders
  <2>3. PICK j : j = [handler[h] EXCEPT !.at = "linked", !.id = i,
                                        !.seen = IF Holders = {} THEN Absent ELSE user[i]]
    OBVIOUS
  <2>4. handler' = [handler EXCEPT ![h] = j]
    BY <1>2, <2>1, <2>3 DEF FindByAddress
  <2>5. ~handler[h].late
    BY <1>0, <1>2 DEF FindByAddress, At, InStep
  <2>6. Holders # {} => user[i] \in Row
    BY <2>2 DEF Grounded, AccountsTyped, Absent
  <2>7. j \in Handler
    BY <1>0, <2>2, <2>3, <2>6 DEF Handler
  <2>8. j.at = "linked" /\ j.id = i /\ j.seen = (IF Holders = {} THEN Absent ELSE user[i]) /\ ~j.late
    BY <1>0, <2>3, <2>5 DEF Handler
  <2>9. InStep(j)'
    BY <1>2, <2>2, <2>6, <2>8, Numbers DEF InStep, SameRow, FindByAddress
  <2>10. QED BY <1>0, <1>2, <2>4, <2>7, <2>9, OwnRecordOnly DEF FindByAddress
<1>3. CASE LinkGoogle(h)
  <2>1. handler[h].at = "linked" /\ overtaken' \subseteq Ids
        /\ UNCHANGED <<sessions, requests, spent, slipped>>
    BY <1>3, OvertakesTyped DEF LinkGoogle, At
  <2>2. CASE Close(h) /\ UNCHANGED <<user, google>>
    BY <1>0, <2>1, <2>2, Closing
  <2>3. ASSUME google = NoId, handler[h].id # NoId, google' = handler[h].id, user' = user
        PROVE  google' \in Ids /\ user[google'] \in Row /\ handler[h].seen \in Row
    BY <1>0, <2>3, Numbers DEF InStep, Handler
  <2>4. CASE /\ google = NoId /\ handler[h].id # NoId /\ google' = handler[h].id /\ user' = user
             /\ Close(h)
    BY <1>0, <2>1, <2>3, <2>4, Closing
  <2>5. CASE /\ google = NoId /\ handler[h].id # NoId /\ google' = handler[h].id /\ user' = user
             /\ handler[h].seen.active /\ Advance(h, "grant")
    <3>1. PICK j : j = [handler[h] EXCEPT !.at = "grant"]
      OBVIOUS
    <3>2. j \in Handler /\ InStep(j)
      BY <1>0, <2>1, <2>3, <2>5, <3>1 DEF InStep, Handler, Revoking
    <3>3. InStep(j)'
      BY <2>5, <3>2 DEF InStep
    <3>4. handler' = [handler EXCEPT ![h] = j]
      BY <2>5, <3>1 DEF Advance
    <3>5. QED BY <2>1, <2>3, <2>5, <3>2, <3>3, <3>4, OwnRecordOnly
  <2>6. CASE /\ google = NoId /\ handler[h].id # NoId /\ google' = handler[h].id /\ user' = user
             /\ user[google'].active
             /\ handler' = [handler EXCEPT ![h].at = "grant", ![h].seen = user[google'], ![h].late = FALSE]
    <3>1. PICK i \in Ids : i = google'
      BY <2>3, <2>6
    <3>2. PICK j : j = [handler[h] EXCEPT !.at = "grant", !.seen = user[i], !.late = FALSE]
      OBVIOUS
    <3>3. j \in Handler /\ j.at = "grant" /\ j.seen = user[i] /\ ~j.late /\ j.id = i
      BY <1>0, <2>3, <2>6, <3>1, <3>2 DEF Handler
    <3>4. InStep(j)'
      BY <2>3, <2>6, <3>1, <3>3, Numbers DEF InStep, SameRow
    <3>5. handler' = [handler EXCEPT ![h] = j]
      BY <2>6, <3>1, <3>2
    <3>6. QED BY <2>1, <2>3, <2>6, <3>3, <3>4, <3>5, OwnRecordOnly
  <2>7. CASE \E i \in Ids :
             /\ google = NoId /\ handler[h].id = NoId /\ Holders = {} /\ NextId(i)
             /\ google' = i
             /\ user' = [user EXCEPT ![i] = NewRow(0)]
             /\ handler' = [handler EXCEPT ![h].at = "grant", ![h].id = i, ![h].seen = NewRow(0)]
    BY <2>1, <2>7, Numbers, NewAccount
  <2>8. QED BY <1>3, <2>2, <2>4, <2>5, <2>6, <2>7 DEF LinkGoogle
<1>4. QED BY <1>1, <1>2, <1>3

LEMMA SessionOfTyped ==
  ASSUME Grounded, NEW h \in Handlers, handler[h].at \in {"grant", "rotate"}
  PROVE  /\ SessionOf(h) \in Session /\ SessionOf(h).id = handler[h].id
         /\ SessionOf(h).pw = handler[h].seen.pw /\ SessionOf(h).role = handler[h].seen.role
         /\ SessionOf(h).late = handler[h].late
  BY InHand DEF SessionOf, Session, Handler, Row

LEMMA StepsGrounded ==
  ASSUME Grounded, NEW h \in Handlers,
         \/ Grant(h) \/ Rotate(h) \/ IssueLink(h) \/ SetPassword(h) \/ WritePassword(h)
         \/ WriteAccount(h) \/ Anonymise(h) \/ Unlink(h) \/ RevokeAll(h)
  PROVE  Grounded'
<1>0. /\ handler[h].at \notin {"idle", "create", "link", "linked"}
      /\ handler[h] \in Handler /\ handler[h].id \in Ids /\ user[handler[h].id] \in Row
      /\ google \in Ids \cup {NoId}
      /\ google # NoId => user[google] \in Row
      /\ sessions \subseteq Session /\ \A s \in sessions : user[s.id] \in Row
      /\ spent \subseteq Requests /\ slipped \subseteq Ids /\ overtaken \subseteq Ids
      /\ Fresh(h) \in Requests /\ handler[h].link \in Requests
  <2>1. handler[h].at \notin {"idle", "create", "link", "linked"}
    BY DEF Grant, Rotate, IssueLink, SetPassword, WritePassword, WriteAccount, Anonymise, Unlink,
           RevokeAll, At
  <2>2. QED BY <2>1, InHand DEF Grounded, AccountsTyped, Related, Fresh, Handler
<1>1. CASE Grant(h)
  <2>1. sessions' = sessions \cup {SessionOf(h)} /\ handler[h].at = "grant" /\ Close(h)
        /\ UNCHANGED <<user, google, requests, spent, slipped>> /\ overtaken' \subseteq Ids
    BY <1>1, OvertakesTyped DEF Grant, At
  <2>2. SessionOf(h) \in Session /\ user[SessionOf(h).id] \in Row
    BY <1>0, <2>1, SessionOfTyped
  <2>3. QED BY <1>0, <2>1, <2>2, Closing
<1>2. CASE Rotate(h)
  <2>1. sessions' \subseteq sessions \cup {SessionOf(h)} /\ handler[h].at = "rotate" /\ Close(h)
        /\ UNCHANGED <<user, google, requests, spent, slipped>> /\ overtaken' \subseteq Ids
    BY <1>2, OvertakesTyped DEF Rotate, At
  <2>2. SessionOf(h) \in Session /\ user[SessionOf(h).id] \in Row
    BY <1>0, <2>1, SessionOfTyped
  <2>3. QED BY <1>0, <2>1, <2>2, Closing
<1>3. CASE IssueLink(h)
  <2>0. PICK i \in Ids : i = handler[h].id
    BY <1>0
  <2>1. PICK r : r = [user[i] EXCEPT !.reset = Fresh(h)]
    OBVIOUS
  <2>2. r \in Row /\ r.held = user[i].held /\ SameRow(user[i], r)
    BY <1>0, <2>0, <2>1, Edits
  <2>3. user' = [user EXCEPT ![i] = r] /\ Close(h)
        /\ UNCHANGED <<google, sessions, requests, spent, slipped>> /\ overtaken' \subseteq Ids
    BY <1>3, <2>0, <2>1, OvertakesTyped DEF IssueLink
  <2>4. RowsKept
    BY <2>0, <2>2, <2>3, RowWritten
  <2>5. PICK j \in Handler : j = Idle
    BY IdleTyped
  <2>6. MovesTo(h, j)
    <3>1. \A g \in Handlers : handler'[g] = IF g = h THEN j ELSE handler[g]
      BY <2>3, <2>5 DEF Close, Grounded, AccountsTyped
    <3>2. \A g \in Handlers : handler[g].id # NoId => SameRow(user[handler[g].id], user'[handler[g].id])
      BY <2>2, <2>3 DEF SameRow, Grounded, AccountsTyped, Handler
    <3>3. handler' \in [Handlers -> Handler]
      BY <2>3, IdleTyped DEF Close, Grounded, AccountsTyped
    <3>4. QED BY <3>1, <3>2, <3>3 DEF MovesTo, OthersKeep
  <2>7. InStep(j)'
    BY <2>5, IdleTyped DEF InStep
  <2>8. \A s \in sessions' : user'[s.id] \in Row
    BY <1>0, <2>3, <2>4 DEF RowsKept, Session
  <2>9. google' # NoId => user'[google'] \in Row
    BY <1>0, <2>3, <2>4 DEF RowsKept
  <2>10. QED BY <1>0, <2>3, <2>4, <2>6, <2>7, <2>8, <2>9, StepGrounded DEF Grounded, AccountsTyped
<1>4. CASE SetPassword(h)
  <2>1. PICK r : r = [user[handler[h].id] EXCEPT !.pw = Fresh(h), !.reset = 0]
    OBVIOUS
  <2>2. r \in Row /\ r.held = user[handler[h].id].held
    BY <1>0, <2>1, Edits
  <2>3. Write(h, handler[h].id, r, "revoke") /\ UNCHANGED <<google, sessions, requests, slipped>>
        /\ spent' = spent \cup {handler[h].link} /\ overtaken' \subseteq Ids
    BY <1>4, <2>1, OvertakesTyped DEF SetPassword
  <2>4. QED BY <1>0, <2>2, <2>3, Writing DEF Revoking
<1>5. CASE WritePassword(h)
  <2>1. PICK r : r = [user[handler[h].id] EXCEPT !.pw = Fresh(h)]
    OBVIOUS
  <2>2. r \in Row /\ r.held = user[handler[h].id].held
    BY <1>0, <2>1, Edits
  <2>3. Write(h, handler[h].id, r, "revoke") /\ UNCHANGED <<google, sessions, requests, spent, slipped>>
        /\ overtaken' \subseteq Ids
    BY <1>5, <2>1, OvertakesTyped DEF WritePassword
  <2>4. QED BY <1>0, <2>2, <2>3, Writing DEF Revoking
<1>6. CASE WriteAccount(h)
  <2>1. PICK r, label : /\ r = Edited(h, handler[h].id)
                        /\ label = IF Revokes(h) THEN "revoke" ELSE "idle"
    OBVIOUS
  <2>2. r \in Row /\ r.held = user[handler[h].id].held
    BY <1>0, <2>1, EditedRow
  <2>3. Write(h, handler[h].id, r, label) /\ UNCHANGED <<google, sessions, requests, spent, overtaken>>
        /\ slipped' \subseteq Ids
    BY <1>0, <1>6, <2>1 DEF WriteAccount
  <2>4. QED BY <1>0, <2>1, <2>2, <2>3, Writing DEF Revoking
<1>7. CASE Anonymise(h)
  <2>1. PICK r : r = [user[handler[h].id] EXCEPT !.held = FALSE, !.pw = 0, !.active = FALSE, !.reset = 0]
    OBVIOUS
  <2>2. r \in Row /\ ~r.held
    BY <1>0, <2>1, Edits
  <2>3. Write(h, handler[h].id, r, "unlink")
        /\ UNCHANGED <<google, sessions, requests, spent, slipped, overtaken>>
    BY <1>7, <2>1 DEF Anonymise
  <2>4. QED BY <1>0, <2>2, <2>3, Writing DEF Revoking
<1>8. CASE Unlink(h)
  <2>1. CASE Close(h) /\ slipped' = slipped \cup {handler[h].id} /\ UNCHANGED google
    BY <1>0, <1>8, <2>1, Closing DEF Unlink
  <2>2. CASE /\ google' = IF google = handler[h].id THEN NoId ELSE google
             /\ Passes(h, handler[h].id, "revoke")
             /\ UNCHANGED slipped
    <3>1. user' = user /\ UNCHANGED <<sessions, requests, spent, overtaken>>
      BY <1>8 DEF Unlink
    <3>2. user' = [user EXCEPT ![handler[h].id] = user[handler[h].id]]
      BY <1>0, <3>1 DEF Grounded, AccountsTyped
    <3>3. Write(h, handler[h].id, user[handler[h].id], "revoke")
      BY <2>2, <3>2 DEF Write
    <3>4. QED BY <1>0, <2>2, <3>1, <3>3, Writing DEF Revoking
  <2>3. QED BY <1>8, <2>1, <2>2 DEF Unlink
<1>9. CASE RevokeAll(h)
  <2>1. sessions' \subseteq sessions /\ slipped' \subseteq Ids /\ Close(h)
        /\ UNCHANGED <<user, google, requests, spent, overtaken>>
    BY <1>0, <1>9 DEF RevokeAll
  <2>2. QED BY <1>0, <2>1, Closing
<1>10. QED BY <1>1, <1>2, <1>3, <1>4, <1>5, <1>6, <1>7, <1>8, <1>9

LEMMA NextGrounded == Grounded /\ [AccountsNext]_accountVars => Grounded'
<1> SUFFICES ASSUME Grounded, [AccountsNext]_accountVars PROVE Grounded'
  OBVIOUS
<1>1. CASE UNCHANGED accountVars
  BY <1>1 DEF accountVars, Grounded, AccountsTyped, Related, InStep
<1>2. ASSUME NEW h \in Handlers, Proceeds(h) PROVE Grounded'
  BY <1>2, LinkingGrounded, StepsGrounded DEF Proceeds
<1>3. QED BY <1>1, <1>2, ArrivalGrounded DEF AccountsNext

\* Every row, session and request in progress keeps its type; the address has one holder, the
\* Google identity an account that is there, whatever requests interleave and fail.
THEOREM AccountTypes == AccountsSpec => []AccountsTypeOK
<1>1. Grounded => AccountsTypeOK
  <2> SUFFICES ASSUME Grounded PROVE AccountsTypeOK
    OBVIOUS
  <2>1. Cardinality(Holders) <= 1
    <3>1. CASE Holders = {}
      BY <3>1, FS_EmptySet
    <3>2. ASSUME NEW i \in Holders PROVE Cardinality(Holders) = 1
      <4>1. Holders = {i}
        BY <3>2 DEF Holders, Grounded, Related
      <4>2. QED BY <4>1, FS_Singleton
    <3>3. QED BY <3>1, <3>2
  <2>2. google # NoId => user[google] # Absent
    BY Rows DEF Grounded, Related
  <2>3. QED BY <2>1, <2>2 DEF Grounded, AccountsTyped, AccountsTypeOK, Holders
<1>2. QED BY <1>1, InitGrounded, NextGrounded, PTL DEF AccountsSpec

-----------------------------------------------------------------------------
(* Sessions, and the rows they were given for *)

Arrives(h) ==
    \/ Register(h) \/ Login(h) \/ LoginWithGoogle(h) \/ Refresh(h)
    \/ ForgotPassword(h) \/ ResetPassword(h) \/ ChangePassword(h)
    \/ \E i \in Ids :
          \/ \E role \in Roles \cup {"none"}, active \in {"yes", "no", "none"},
                super \in BOOLEAN : AdminUpdate(h, i, role, active, super)
          \/ Remove(h, i)

\* What any step of h leaves to the others.
LEMMA OthersHold ==
  ASSUME Grounded, NEW h \in Handlers, Arrives(h) \/ Proceeds(h)
  PROVE  OthersKeep(h)
<1>1. ASSUME user' = user, NEW f, handler' = [handler EXCEPT ![h] = f] PROVE OthersKeep(h)
  BY <1>1 DEF OthersKeep, SameRow, Grounded, AccountsTyped
<1>2. ASSUME Arrives(h) PROVE OthersKeep(h)
  <2>1. UNCHANGED user /\ \E j : Receive(h, j)
    BY <1>2 DEF Arrives, Register, Login, LoginWithGoogle, Refresh, ForgotPassword, ResetPassword,
                ChangePassword, AdminUpdate, Remove
  <2>2. QED BY <1>1, <2>1 DEF Receive
<1>3. CASE Close(h) /\ user' = user
  BY <1>1, <1>3 DEF Close
<1>4. CASE CreateUser(h) \/ LinkGoogle(h)
  <2>1. ASSUME NEW i \in Ids, NEW pw, user[i] = Absent, user' = [user EXCEPT ![i] = NewRow(pw)],
               NEW f, handler' = [handler EXCEPT ![h] = f]
        PROVE  OthersKeep(h)
    <3>1. \A g \in Handlers : handler[g].id # i
      BY <2>1, Rows, Numbers DEF Grounded, Related, InStep
    <3>2. QED BY <2>1, <3>1 DEF OthersKeep, SameRow, Grounded, AccountsTyped, Handler
  <2>2. \A i \in Ids : NextId(i) => user[i] = Absent
    BY DEF NextId, Registered
  <2>3. CASE CreateUser(h)
    BY <1>3, <2>1, <2>2, <2>3 DEF CreateUser
  <2>4. CASE LinkGoogle(h)
    BY <1>1, <1>3, <2>1, <2>2, <2>4 DEF LinkGoogle, Advance
  <2>5. QED BY <1>4, <2>3, <2>4
<1>5. CASE FindByAddress(h)
  BY <1>1, <1>5 DEF FindByAddress
<1>6. CASE Grant(h) \/ Rotate(h) \/ RevokeAll(h)
  BY <1>3, <1>6 DEF Grant, Rotate, RevokeAll
<1>7. CASE IssueLink(h)
  <2>0. PICK i \in Ids : i = handler[h].id /\ user[i] \in Row
    BY <1>7, InHand DEF IssueLink, At
  <2>1. PICK r : r = [user[i] EXCEPT !.reset = Fresh(h)]
    OBVIOUS
  <2>2. SameRow(user[i], r)
    BY <2>0, <2>1 DEF SameRow, Row
  <2>3. user' = [user EXCEPT ![i] = r] /\ handler' = [handler EXCEPT ![h] = Idle]
    BY <1>7, <2>0, <2>1 DEF IssueLink, Close
  <2>4. QED BY <2>0, <2>2, <2>3 DEF OthersKeep, SameRow, Grounded, AccountsTyped, Handler
<1>8. ASSUME NEW i \in Ids, NEW r, NEW label, Write(h, i, r, label) PROVE OthersKeep(h)
  BY <1>8, Numbers DEF Write, Passes, OthersKeep, SameRow, Grounded, AccountsTyped, Handler
<1>9. CASE SetPassword(h) \/ WritePassword(h) \/ WriteAccount(h) \/ Anonymise(h)
  BY <1>8, <1>9, InHand DEF SetPassword, WritePassword, WriteAccount, Anonymise, At
<1>10. CASE Unlink(h)
  <2>1. handler[h].id \in Ids /\ user' = [user EXCEPT ![handler[h].id] = user[handler[h].id]]
    BY <1>10, InHand DEF Unlink, At, Grounded, AccountsTyped
  <2>2. Passes(h, handler[h].id, "revoke") => OthersKeep(h)
    BY <1>8, <2>1 DEF Write
  <2>3. QED BY <1>3, <1>10, <2>2 DEF Unlink
<1>11. QED BY <1>2, <1>4, <1>5, <1>6, <1>7, <1>9, <1>10 DEF Proceeds

\* The others stay where they are.
LEMMA OthersStay ==
  ASSUME Grounded, NEW h \in Handlers, OthersKeep(h)
  PROVE  \A g \in Handlers \ {h} : handler'[g].id = handler[g].id /\ handler'[g].at = handler[g].at
  BY DEF OthersKeep, Grounded, AccountsTyped, Handler

Signed == SignedInAsStored

\* Whoever was signing an account out still does, unless it was h.
LEMMA SigningOutStays ==
  ASSUME Grounded, NEW h \in Handlers, OthersKeep(h), NEW i,
         SigningOut(i), handler[h].at \notin Revoking \/ handler[h].id # i
  PROVE  SigningOut(i)'
  BY OthersStay DEF SigningOut, Revoking

LEMMA SignedKept ==
  ASSUME Grounded, Signed, NEW h \in Handlers, OthersKeep(h), sessions' \subseteq sessions,
         slipped \subseteq slipped',
         handler[h].at \in Revoking => \/ handler'[h].at \in Revoking /\ handler'[h].id = handler[h].id
                                       \/ handler[h].id \in slipped'
                                       \/ \A s \in sessions' : s.id # handler[h].id,
         \A i \in Ids : \/ /\ user[i].active => user'[i].active
                           /\ user'[i].pw = user[i].pw /\ user'[i].role = user[i].role
                        \/ SigningOut(i)' \/ i \in slipped' \/ user[i] \notin Row
  PROVE  Signed'
<1> SUFFICES ASSUME NEW s \in sessions', ~s.late, s.id \notin slipped', ~SigningOut(s.id)'
             PROVE  user'[s.id].active /\ user'[s.id].pw = s.pw /\ user'[s.id].role = s.role
  BY DEF Signed, SignedInAsStored
<1>1. s \in sessions /\ s.id \in Ids /\ user[s.id] \in Row
  BY DEF Grounded, AccountsTyped, Related, Session
<1>2. ~SigningOut(s.id)
  <2>1. CASE handler[h].at \notin Revoking \/ handler[h].id # s.id
    BY <2>1, SigningOutStays
  <2>2. CASE handler[h].at \in Revoking /\ handler[h].id = s.id
    BY <2>2 DEF SigningOut, Revoking
  <2>3. QED BY <2>1, <2>2
<1>3. user[s.id].active /\ user[s.id].pw = s.pw /\ user[s.id].role = s.role
  BY <1>1, <1>2 DEF Signed, SignedInAsStored
<1>4. QED BY <1>1, <1>3

LEMMA SignedGiven ==
  ASSUME Grounded, Signed, NEW h \in Handlers, OthersKeep(h), handler[h].at \in {"grant", "rotate"},
         user' = user, slipped' = slipped, sessions' \subseteq sessions \cup {SessionOf(h)}
  PROVE  Signed'
<1>1. InStep(handler[h]) /\ handler[h].id \in Ids
  BY InHand
<1>2. \A i : SigningOut(i) => SigningOut(i)'
  BY SigningOutStays DEF Revoking
<1>3. ~SessionOf(h).late => /\ user[SessionOf(h).id].active /\ user[SessionOf(h).id].pw = SessionOf(h).pw
                            /\ user[SessionOf(h).id].role = SessionOf(h).role
  BY <1>1, SessionOfTyped, Numbers DEF InStep, SameRow, Revoking
<1>4. QED BY <1>2, <1>3 DEF Signed, SignedInAsStored

LEMMA NextSigned == Grounded /\ Signed /\ [AccountsNext]_accountVars => Signed'
<1> SUFFICES ASSUME Grounded, Signed, [AccountsNext]_accountVars PROVE Signed'
  OBVIOUS
<1>1. CASE UNCHANGED accountVars
  BY <1>1 DEF accountVars, Signed, SignedInAsStored, SigningOut
<1>2. ASSUME NEW h \in Handlers, Arrives(h) \/ Proceeds(h) PROVE Signed'
  <2>0. OthersKeep(h)
    BY <1>2, OthersHold
  <2>1. CASE Arrives(h)
    <3>1. UNCHANGED <<user, sessions, slipped>> /\ handler[h] = Idle
      BY <2>1 DEF Arrives, Register, Login, LoginWithGoogle, Refresh, ForgotPassword, ResetPassword,
                  ChangePassword, AdminUpdate, Remove, Receive
    <3>2. QED BY <2>0, <3>1, IdleTyped, SignedKept DEF Revoking
  <2>2. CASE CreateUser(h) \/ FindByAddress(h) \/ LinkGoogle(h)
    <3>1. UNCHANGED <<sessions, slipped>> /\ handler[h].at \notin Revoking
      BY <2>2 DEF CreateUser, FindByAddress, LinkGoogle, At, Revoking
    <3>2. user' = user \/ \E i \in Ids : \E r : NextId(i) /\ user' = [user EXCEPT ![i] = r]
      BY <2>2 DEF CreateUser, FindByAddress, LinkGoogle
    <3>3. \A i \in Ids : user'[i] = user[i] \/ user[i] \notin Row
      BY <3>2, Rows DEF NextId, Registered, Grounded, AccountsTyped
    <3>4. QED BY <2>0, <3>1, <3>3, SignedKept
  <2>3. CASE Grant(h) \/ Rotate(h)
    <3>1. /\ handler[h].at \in {"grant", "rotate"} /\ UNCHANGED <<user, slipped>>
          /\ sessions' \subseteq sessions \cup {SessionOf(h)}
      BY <2>3 DEF Grant, Rotate, At
    <3>2. QED BY <2>0, <3>1, SignedGiven
  <2>4. CASE IssueLink(h)
    <3>1. UNCHANGED <<sessions, slipped>> /\ handler[h].at \notin Revoking
          /\ user' = [user EXCEPT ![handler[h].id].reset = Fresh(h)]
      BY <2>4 DEF IssueLink, At, Revoking
    <3>2. handler[h].id \in Ids /\ user[handler[h].id] \in Row
      BY <2>4, InHand DEF IssueLink, At
    <3>3. PICK r : r = [user[handler[h].id] EXCEPT !.reset = Fresh(h)]
      OBVIOUS
    <3>4. r.active = user[handler[h].id].active /\ r.pw = user[handler[h].id].pw
          /\ r.role = user[handler[h].id].role
      BY <3>2, <3>3 DEF Row
    <3>5. user' = [user EXCEPT ![handler[h].id] = r]
      BY <3>1, <3>3
    <3>6. \A i \in Ids : user'[i].active = user[i].active /\ user'[i].pw = user[i].pw
                         /\ user'[i].role = user[i].role
      BY <3>4, <3>5 DEF Grounded, AccountsTyped
    <3>7. QED BY <2>0, <3>1, <3>6, SignedKept
  <2>5. ASSUME NEW r, NEW label \in Revoking, Write(h, handler[h].id, r, label),
               handler[h].at \notin {"idle", "create", "link", "linked"},
               UNCHANGED sessions, slipped \subseteq slipped'
        PROVE  Signed'
    <3>1. PICK i \in Ids : i = handler[h].id /\ handler[h] \in Handler
      BY <2>5, InHand
    <3>2. handler'[h].at = label /\ handler'[h].id = i /\ user' = [user EXCEPT ![i] = r]
      BY <2>5, <3>1 DEF Write, Passes, Revoking, Handler, Grounded, AccountsTyped
    <3>3. SigningOut(i)'
      BY <3>2 DEF SigningOut, Revoking
    <3>4. \A k \in Ids : k # i => user'[k] = user[k]
      BY <3>2 DEF Grounded, AccountsTyped
    <3>5. QED BY <2>0, <2>5, <3>1, <3>2, <3>3, <3>4, SignedKept
  <2>6. CASE SetPassword(h) \/ WritePassword(h) \/ Anonymise(h)
    BY <2>5, <2>6 DEF SetPassword, WritePassword, Anonymise, At, Revoking
  <2>7. CASE WriteAccount(h)
    <3>0. PICK i \in Ids : /\ i = handler[h].id /\ user[i] \in Row
                          /\ InStep(handler[h]) /\ handler[h].at = "administer"
      BY <2>7, InHand DEF WriteAccount, At
    <3>1. PICK r : r = Edited(h, i)
      OBVIOUS
    <3>2. CASE Revokes(h)
      BY <2>5, <2>7, <3>0, <3>1, <3>2 DEF WriteAccount, Revoking
    <3>3. CASE ~Revokes(h)
      <4>1. user' = [user EXCEPT ![i] = r] /\ UNCHANGED sessions /\ slipped \subseteq slipped'
        BY <2>7, <3>0, <3>1, <3>3 DEF WriteAccount, Write
      <4>2. r.pw = user[i].pw /\ (user[i].active => r.active)
        BY <3>0, <3>1, <3>3, EditedRow DEF Revokes, Grounded, AccountsTyped, Handler
      <4>3. r.role = user[i].role \/ i \in slipped'
        <5>1. r.role = NewRole(h, i)
          BY <3>0, <3>1, EditedRow
        <5>2. CASE ~handler[h].late
          BY <3>0, <3>1, <3>3, <5>1, <5>2, Numbers DEF NewRole, Revokes, InStep, SameRow, Revoking
        <5>3. CASE handler[h].late /\ NewRole(h, i) # user[i].role
          BY <2>7, <3>0, <3>1, <3>3, <5>3 DEF WriteAccount
        <5>4. QED BY <5>1, <5>2, <5>3
      <4>4. \A k \in Ids : user'[k] = IF k = i THEN r ELSE user[k]
        BY <4>1 DEF Grounded, AccountsTyped
      <4>5. QED BY <2>0, <3>0, <3>1, <4>1, <4>2, <4>3, <4>4, SignedKept DEF Revoking
    <3>4. QED BY <3>2, <3>3
  <2>8. CASE Unlink(h)
    <3>1. UNCHANGED <<user, sessions>> /\ slipped \subseteq slipped' /\ handler[h] \in Handler
      BY <2>8, InHand DEF Unlink, At
    <3>2. \/ handler[h].id \in slipped'
          \/ handler'[h].at = "revoke" /\ handler'[h].id = handler[h].id
      BY <2>8, <3>1 DEF Unlink, Passes, Handler
    <3>3. QED BY <2>0, <3>1, <3>2, SignedKept DEF Revoking
  <2>9. CASE RevokeAll(h)
    <3>1. UNCHANGED user /\ sessions' \subseteq sessions /\ slipped \subseteq slipped'
          /\ (handler[h].id \in slipped' \/ \A s \in sessions' : s.id # handler[h].id)
      BY <2>9 DEF RevokeAll
    <3>2. QED BY <2>0, <3>1, SignedKept
  <2>10. QED BY <1>2, <2>1, <2>2, <2>3, <2>4, <2>6, <2>7, <2>8, <2>9 DEF Proceeds
<1>3. QED BY <1>1, <1>2 DEF AccountsNext, Arrives

\* Whoever is signed in is so under the account as it is stored, but for the requests that
\* overtook a change, and the changes that revoked nothing.
THEOREM SessionsMatchAccounts == AccountsSpec => []SignedInAsStored
<1>1. AccountsInit => Signed
  BY DEF AccountsInit, Signed, SignedInAsStored
<1>2. QED BY <1>1, InitGrounded, NextGrounded, NextSigned, PTL DEF AccountsSpec, Signed

-----------------------------------------------------------------------------
(* Removed accounts, and reset links *)

\* What a request finds when it arrives.
FoundOnArrival(h, j) ==
    \/ j.at \in {"create", "link"} /\ j.id = NoId
    \/ j.at = "grant" /\ j.id \in Ids /\ (user[j.id].held \/ google = j.id)
    \/ j.at = "rotate" /\ \E s \in sessions : j.with = {s} /\ j.id = s.id
    \/ j.at = "issue" /\ j.id \in Ids /\ j.seen.held
    \/ j.at = "set" /\ j.id \in Ids /\ j.link = user[j.id].reset /\ j.link # 0
    \/ j.at = "change" /\ j.seen.pw # 0
    \/ j.at \in {"administer", "anonymise"}

LEMMA Arrivals ==
  ASSUME Grounded, NEW h \in Handlers, Arrives(h)
  PROVE  /\ UNCHANGED <<user, google, sessions, spent, slipped, overtaken>>
         /\ requests' = requests + 1 /\ handler[h] = Idle
         /\ \A g \in Handlers \ {h} : handler'[g] = handler[g]
         /\ \E j \in Handler : /\ handler'[h] = j /\ j.n = requests + 1 /\ ~j.late /\ FoundOnArrival(h, j)
<1>1. ASSUME NEW j, Receive(h, j), j \in Handler, ~j.late, FoundOnArrival(h, j)
      PROVE  /\ requests' = requests + 1 /\ handler[h] = Idle
             /\ \A g \in Handlers \ {h} : handler'[g] = handler[g]
             /\ \E k \in Handler : handler'[h] = k /\ k.n = requests + 1 /\ ~k.late /\ FoundOnArrival(h, k)
  <2>1. PICK k : k = [j EXCEPT !.n = requests + 1]
    OBVIOUS
  <2>2. requests + 1 \in Requests
    BY <1>1 DEF Receive, Requests, Grounded, AccountsTyped
  <2>3. k \in Handler /\ k.n = requests + 1 /\ k.at = j.at /\ k.id = j.id /\ k.seen = j.seen
        /\ k.with = j.with /\ k.link = j.link /\ k.late = j.late
    BY <1>1, <2>1, <2>2 DEF Handler
  <2>4. FoundOnArrival(h, k)
    BY <1>1, <2>3 DEF FoundOnArrival
  <2>5. handler' = [handler EXCEPT ![h] = k] /\ requests' = requests + 1 /\ handler[h] = Idle
    BY <1>1, <2>1 DEF Receive
  <2>6. QED BY <1>1, <2>3, <2>4, <2>5 DEF Grounded, AccountsTyped
<1>2. UNCHANGED <<user, google, sessions, spent, slipped, overtaken>>
  BY DEF Arrives, Register, Login, LoginWithGoogle, Refresh, ForgotPassword, ResetPassword,
         ChangePassword, AdminUpdate, Remove
<1>3. \E j \in Handler : Receive(h, j) /\ ~j.late /\ FoundOnArrival(h, j)
  <2>1. /\ \A i \in Ids : OfRow(i) = [Idle EXCEPT !.id = i, !.seen = user[i]]
        /\ \A i \in Ids : user[i] \in Row \cup {Absent}
        /\ \A s \in sessions : s.id \in Ids /\ s \in Session
        /\ google \in Ids \cup {NoId}
        /\ \A i \in Ids : user[i].reset \in Requests
    BY DEF OfRow, Grounded, AccountsTyped, Session, Row, Absent, Requests
  <2>2. CASE Register(h)
    <3>1. PICK j : j = [Idle EXCEPT !.at = "create"]
      OBVIOUS
    <3>2. j \in Handler /\ ~j.late /\ FoundOnArrival(h, j)
      BY <3>1, Numbers DEF Idle, Handler, FoundOnArrival
    <3>3. QED BY <2>2, <3>1, <3>2 DEF Register
  <2>3. ASSUME NEW i \in Ids, NEW label \in {"grant", "issue", "change", "anonymise"},
               Receive(h, [OfRow(i) EXCEPT !.at = label]),
               label \in {"grant", "issue"} => user[i].held \/ (label = "grant" /\ google = i),
               label = "change" => user[i].pw # 0
        PROVE  \E j \in Handler : Receive(h, j) /\ ~j.late /\ FoundOnArrival(h, j)
    <3>1. PICK j : j = [OfRow(i) EXCEPT !.at = label]
      OBVIOUS
    <3>2. j \in Handler /\ ~j.late /\ j.at = label /\ j.id = i /\ j.seen = user[i]
      BY <2>1, <3>1, Numbers DEF OfRow, Idle, Handler
    <3>3. FoundOnArrival(h, j)
      BY <2>3, <3>2 DEF FoundOnArrival
    <3>4. QED BY <2>3, <3>1, <3>2, <3>3
  <2>4. CASE Login(h)
    BY <2>3, <2>4 DEF Login, Holders
  <2>5. CASE LoginWithGoogle(h)
    <3>1. CASE google # NoId /\ Receive(h, [OfRow(google) EXCEPT !.at = "grant"])
      BY <2>1, <2>3, <3>1
    <3>2. CASE Receive(h, [Idle EXCEPT !.at = "link"])
      <4>1. PICK j : j = [Idle EXCEPT !.at = "link"]
        OBVIOUS
      <4>2. j \in Handler /\ ~j.late /\ FoundOnArrival(h, j)
        BY <4>1, Numbers DEF Idle, Handler, FoundOnArrival
      <4>3. QED BY <3>2, <4>1, <4>2
    <3>3. QED BY <2>5, <3>1, <3>2 DEF LoginWithGoogle
  <2>6. CASE Refresh(h)
    <3>1. PICK s \in sessions : Receive(h, [OfRow(s.id) EXCEPT !.at = "rotate", !.with = {s}])
      BY <2>6 DEF Refresh
    <3>2. PICK j : j = [OfRow(s.id) EXCEPT !.at = "rotate", !.with = {s}]
      OBVIOUS
    <3>3. j \in Handler /\ ~j.late /\ j.at = "rotate" /\ j.id = s.id /\ j.with = {s}
      BY <2>1, <3>2, Numbers DEF OfRow, Idle, Handler
    <3>4. FoundOnArrival(h, j)
      BY <3>3 DEF FoundOnArrival
    <3>5. QED BY <3>1, <3>2, <3>3, <3>4
  <2>7. CASE ForgotPassword(h)
    BY <2>3, <2>7 DEF ForgotPassword, Holders
  <2>8. CASE ResetPassword(h)
    <3>1. PICK i \in Ids : /\ user[i].reset # 0
                           /\ Receive(h, [OfRow(i) EXCEPT !.at = "set", !.link = user[i].reset])
      BY <2>8 DEF ResetPassword
    <3>2. PICK j : j = [OfRow(i) EXCEPT !.at = "set", !.link = user[i].reset]
      OBVIOUS
    <3>3. j \in Handler /\ ~j.late /\ j.at = "set" /\ j.id = i /\ j.link = user[i].reset
      BY <2>1, <3>2, Numbers DEF OfRow, Idle, Handler
    <3>4. FoundOnArrival(h, j)
      BY <3>1, <3>3 DEF FoundOnArrival
    <3>5. QED BY <3>1, <3>2, <3>3, <3>4
  <2>9. CASE ChangePassword(h)
    BY <2>1, <2>3, <2>9 DEF ChangePassword
  <2>10. ASSUME NEW i \in Ids, NEW role \in Roles \cup {"none"}, NEW active \in {"yes", "no", "none"},
                NEW super \in BOOLEAN, AdminUpdate(h, i, role, active, super)
         PROVE  \E j \in Handler : Receive(h, j) /\ ~j.late /\ FoundOnArrival(h, j)
    <3>1. PICK j : j = [OfRow(i) EXCEPT !.at = "administer", !.role = role, !.active = active, !.super = super]
      OBVIOUS
    <3>2. j \in Handler /\ ~j.late /\ j.at = "administer"
      BY <2>1, <3>1, Numbers DEF OfRow, Idle, Handler
    <3>3. FoundOnArrival(h, j)
      BY <3>2 DEF FoundOnArrival
    <3>4. QED BY <2>10, <3>1, <3>2, <3>3 DEF AdminUpdate
  <2>11. ASSUME NEW i \in Ids, Remove(h, i)
         PROVE  \E j \in Handler : Receive(h, j) /\ ~j.late /\ FoundOnArrival(h, j)
    BY <2>3, <2>11 DEF Remove
  <2>12. QED BY <2>2, <2>4, <2>5, <2>6, <2>7, <2>8, <2>9, <2>10, <2>11 DEF Arrives
<1>4. QED BY <1>1, <1>2, <1>3

Excused(i)   == i \in slipped \cup overtaken
Unlinking(i) == \E g \in Handlers : handler[g].id = i /\ handler[g].at = "unlink"

\* What is left of an account whose removal is under way or done, until it is complete: its
\* link to Google, then its sessions; and a handler that has just found it by that link.
GoneAt(i) ==
    /\ user[i].pw = 0 /\ user[i].reset = 0
    /\ google = i => Unlinking(i)
    /\ (\E s \in sessions : s.id = i) => SigningOut(i)
    /\ \A g \in Handlers : handler[g].id = i /\ ~handler[g].late /\ handler[g].at = "grant" => Unlinking(i)
    /\ \A g \in Handlers : handler[g].id = i /\ handler[g].at = "set" => handler[g].late

GoneForGood == \A i \in Ids : Removed(i) /\ ~Excused(i) => GoneAt(i)

\* What a handler has read tells what it is after.
ReadFor(j) ==
    /\ j.at = "linked" /\ j.id # NoId => j.seen.held
    /\ j.at = "issue" => j.seen.held
    /\ j.at = "change" => j.seen.pw # 0
    /\ j.at = "rotate" => \E s \in Session : j.with = {s} /\ j.id = s.id

Reading == \A h \in Handlers : ReadFor(handler[h])

\* What a handler that looks for an account to log in to, or makes one, comes to.
LEMMA Opens ==
  ASSUME Grounded, NEW h \in Handlers, CreateUser(h) \/ LinkGoogle(h)
  PROVE  /\ UNCHANGED <<sessions, slipped, spent, requests>>
         /\ handler[h].at \in {"create", "linked"}
         /\ \/ handler'[h] = Idle /\ user' = user /\ google' \in {google, handler[h].id}
            \/ /\ handler'[h].at = "grant" /\ handler'[h].id = handler[h].id /\ handler[h].id # NoId
               /\ user' = user /\ google' = handler[h].id
            \/ \E i \in Ids : /\ handler'[h].at = "grant" /\ handler'[h].id = i /\ handler[h].id = NoId
                              /\ user[i] = Absent /\ google' \in {google, i}
                              /\ \A k \in Ids : k # i => user'[k] = user[k]
<1>0. handler[h] \in Handler /\ handler \in [Handlers -> Handler] /\ InStep(handler[h])
      /\ Fresh(h) \in Requests /\ 0 \in Requests /\ user \in [Ids -> Row \cup {Absent}]
  BY DEF Grounded, AccountsTyped, Related, Fresh, Handler, Requests
<1>1. UNCHANGED <<sessions, slipped, spent, requests>> /\ handler[h].at \in {"create", "linked"}
      /\ overtaken' \subseteq Ids
  BY OvertakesTyped DEF CreateUser, LinkGoogle, At, Grounded, AccountsTyped
<1>2. ASSUME NEW i \in Ids, Holders = {}, NextId(i), NEW pw \in Requests, handler[h].id = NoId,
             user' = [user EXCEPT ![i] = NewRow(pw)], google' \in {google, i},
             handler' = [handler EXCEPT ![h].at = "grant", ![h].id = i, ![h].seen = NewRow(pw)]
      PROVE  /\ handler'[h].at = "grant" /\ handler'[h].id = i /\ user[i] = Absent
             /\ \A k \in Ids : k # i => user'[k] = user[k]
  <2>1. handler'[h].at = "grant" /\ handler'[h].id = i /\ user[i] = Absent
    BY <1>1, <1>2, NewAccount
  <2>2. \A k \in Ids : k # i => user'[k] = user[k]
    BY <1>0, <1>2
  <2>3. QED BY <2>1, <2>2
<1>3. CASE CreateUser(h)
  <2>1. google' = google
    BY <1>3 DEF CreateUser
  <2>2. handler[h].id = NoId
    BY <1>0, <1>3 DEF CreateUser, At, InStep
  <2>3. CASE Close(h) /\ user' = user
    BY <1>0, <1>1, <2>1, <2>3 DEF Close
  <2>4. CASE \E i \in Ids :
             /\ Holders = {} /\ NextId(i)
             /\ user' = [user EXCEPT ![i] = NewRow(Fresh(h))]
             /\ handler' = [handler EXCEPT ![h].at = "grant", ![h].id = i, ![h].seen = NewRow(Fresh(h))]
    BY <1>0, <1>1, <1>2, <2>1, <2>2, <2>4
  <2>5. QED BY <1>3, <2>3, <2>4 DEF CreateUser
<1>4. CASE LinkGoogle(h)
  <2>1. CASE Close(h) /\ UNCHANGED <<user, google>>
    BY <1>0, <1>1, <2>1 DEF Close
  <2>2. CASE /\ handler[h].id # NoId /\ google' = handler[h].id /\ user' = user
             /\ Close(h) \/ Advance(h, "grant")
    BY <1>0, <1>1, <2>2 DEF Close, Advance, Handler
  <2>3. CASE /\ handler[h].id # NoId /\ google' = handler[h].id /\ user' = user
             /\ handler' = [handler EXCEPT ![h].at = "grant", ![h].seen = user[google'], ![h].late = FALSE]
    <3>1. PICK r : r = user[google']
      OBVIOUS
    <3>2. PICK j : j = [handler[h] EXCEPT !.at = "grant", !.seen = r, !.late = FALSE]
      OBVIOUS
    <3>3. j.at = "grant" /\ j.id = handler[h].id
      BY <1>0, <3>2 DEF Handler
    <3>4. handler' = [handler EXCEPT ![h] = j]
      BY <2>3, <3>1, <3>2
    <3>5. handler'[h] = j
      BY <1>0, <3>4
    <3>6. QED BY <1>1, <2>3, <3>3, <3>5
  <2>4. CASE \E i \in Ids :
             /\ google = NoId /\ handler[h].id = NoId /\ Holders = {} /\ NextId(i)
             /\ google' = i
             /\ user' = [user EXCEPT ![i] = NewRow(0)]
             /\ handler' = [handler EXCEPT ![h].at = "grant", ![h].id = i, ![h].seen = NewRow(0)]
    BY <1>0, <1>1, <1>2, <2>4
  <2>5. QED BY <1>4, <2>1, <2>2, <2>3, <2>4 DEF LinkGoogle
<1>5. QED BY <1>3, <1>4

\* Where a handler goes when it does not arrive.
LEMMA Goes ==
  ASSUME Grounded, NEW h \in Handlers, Proceeds(h)
  PROVE  /\ handler'[h] \in Handler /\ handler'[h] # handler[h] /\ handler[h].at # "idle"
         /\ \/ handler'[h] = Idle
            \/ handler'[h].at \in {"grant", "unlink", "revoke"}
            \/ /\ FindByAddress(h) /\ handler'[h].at = "linked"
               /\ handler'[h].id # NoId => /\ handler'[h].id \in Ids /\ user[handler'[h].id].held
                                           /\ handler'[h].seen = user[handler'[h].id]
<1>0. handler[h] \in Handler /\ handler \in [Handlers -> Handler]
  BY DEF Grounded, AccountsTyped
<1>1. CASE CreateUser(h) \/ LinkGoogle(h)
  <2>1. handler[h].at \in {"create", "linked"} /\ (handler'[h] = Idle \/ handler'[h].at = "grant")
    BY <1>1, Opens
  <2>2. handler'[h] \in Handler
    BY <1>1, LinkingGrounded DEF Grounded, AccountsTyped
  <2>3. QED BY <2>1, <2>2, IdleTyped
<1>2. CASE FindByAddress(h)
  <2>1. PICK i : i = IF Holders = {} THEN NoId ELSE CHOOSE k \in Holders : TRUE
    OBVIOUS
  <2>2. IF Holders = {} THEN i = NoId ELSE (i \in Ids /\ user[i].held /\ i # NoId)
    BY <2>1, Numbers DEF Holders
  <2>3. PICK j : j = [handler[h] EXCEPT !.at = "linked", !.id = i,
                                        !.seen = IF Holders = {} THEN Absent ELSE user[i]]
    OBVIOUS
  <2>4. handler' = [handler EXCEPT ![h] = j] /\ handler[h].at = "link"
    BY <1>2, <2>1, <2>3 DEF FindByAddress, At
  <2>5. j.at = "linked" /\ j.id = i /\ j.seen = (IF Holders = {} THEN Absent ELSE user[i])
    BY <1>0, <2>3 DEF Handler
  <2>6. handler'[h] = j
    BY <1>0, <2>4
  <2>7. handler'[h] \in Handler
    BY <1>2, LinkingGrounded DEF Grounded, AccountsTyped
  <2>8. QED BY <1>2, <2>2, <2>4, <2>5, <2>6, <2>7
<1>4. CASE Grant(h) \/ Rotate(h) \/ IssueLink(h) \/ RevokeAll(h)
  BY <1>0, <1>4, IdleTyped DEF Grant, Rotate, IssueLink, RevokeAll, At, Close
<1>5. ASSUME NEW i \in Ids, NEW label \in {"unlink", "revoke", "idle"}, Passes(h, i, label),
             handler[h].at \notin {"idle", label}
      PROVE  /\ handler'[h] \in Handler /\ handler'[h] # handler[h] /\ handler[h].at # "idle"
             /\ handler'[h] = Idle \/ handler'[h].at \in {"grant", "unlink", "revoke"}
  BY <1>0, <1>5, IdleTyped DEF Passes, Handler
<1>6. CASE SetPassword(h) \/ WritePassword(h) \/ Anonymise(h) \/ WriteAccount(h)
  <2>1. handler[h].id \in Ids /\ handler[h].at \in {"set", "change", "anonymise", "administer"}
    BY <1>6, InHand DEF SetPassword, WritePassword, Anonymise, WriteAccount, At
  <2>2. \E label \in {"unlink", "revoke", "idle"} : Passes(h, handler[h].id, label)
    BY <1>6 DEF SetPassword, WritePassword, Anonymise, WriteAccount, Write
  <2>3. QED BY <1>5, <2>1, <2>2
<1>7. CASE Unlink(h)
  <2>1. handler[h].id \in Ids /\ handler[h].at = "unlink"
    BY <1>7, InHand DEF Unlink, At
  <2>2. CASE Close(h)
    BY <1>0, <2>1, <2>2, IdleTyped DEF Close
  <2>3. QED BY <1>5, <1>7, <2>1, <2>2 DEF Unlink
<1>8. QED BY <1>1, <1>2, <1>4, <1>6, <1>7 DEF Proceeds

LEMMA NextReading == Grounded /\ Reading /\ [AccountsNext]_accountVars => Reading'
<1> SUFFICES ASSUME Grounded, Reading, [AccountsNext]_accountVars PROVE Reading'
  OBVIOUS
<1>1. CASE UNCHANGED accountVars
  BY <1>1 DEF accountVars, Reading, ReadFor
<1>2. ASSUME NEW h \in Handlers, Arrives(h) \/ Proceeds(h) PROVE Reading'
  <2>1. ASSUME NEW g \in Handlers \ {h} PROVE ReadFor(handler[g])'
    <3>1. \/ handler'[g] = handler[g]
          \/ handler'[g] = [handler[g] EXCEPT !.late = TRUE]
      BY <1>2, OthersHold DEF OthersKeep
    <3>2. handler[g] \in Handler
      BY DEF Grounded, AccountsTyped
    <3>3. handler'[g].at = handler[g].at /\ handler'[g].id = handler[g].id
          /\ handler'[g].seen = handler[g].seen /\ handler'[g].with = handler[g].with
      BY <3>1, <3>2 DEF Handler
    <3>4. QED BY <3>3 DEF Reading, ReadFor
  <2>2. CASE Arrives(h)
    <3>1. PICK j \in Handler : handler'[h] = j /\ FoundOnArrival(h, j)
      BY <2>2, Arrivals
    <3>2. \A s \in sessions : s \in Session
      BY DEF Grounded, AccountsTyped
    <3>3. QED BY <2>1, <3>1, <3>2 DEF FoundOnArrival, Reading, ReadFor
  <2>3. CASE Proceeds(h)
    <3>1. ReadFor(handler[h])'
      BY <2>3, Goes, IdleTyped, Numbers DEF ReadFor
    <3>2. QED BY <2>1, <3>1 DEF Reading
  <2>4. QED BY <1>2, <2>2, <2>3
<1>3. QED BY <1>1, <1>2 DEF AccountsNext, Arrives

\* A handler leaves the other accounts alone.
LEMMA Elsewhere ==
  ASSUME Grounded, NEW h \in Handlers, Proceeds(h), NEW i \in Ids, user[i] \in Row, handler[h].id # i
  PROVE  /\ user'[i] = user[i]
         /\ google' = i => google = i
         /\ \A s \in sessions' \ sessions : s.id # i
         /\ handler'[h].id = i => (handler'[h].at = "linked" /\ user[i].held)
<1>0. handler[h] \in Handler /\ handler \in [Handlers -> Handler] /\ user \in [Ids -> Row \cup {Absent}]
      /\ Idle.id # i /\ user[i] # Absent
  BY Numbers, Rows, IdleTyped DEF Grounded, AccountsTyped
<1>1. CASE CreateUser(h) \/ LinkGoogle(h)
  BY <1>0, <1>1, Opens
<1>2. CASE FindByAddress(h)
  <2>1. UNCHANGED <<user, google, sessions>>
    BY <1>2 DEF FindByAddress
  <2>2. CASE handler'[h].at = "linked"
    BY <1>2, <2>1, <2>2, Goes, IdleTyped, Numbers
  <2>3. handler'[h].at = "linked"
    BY <1>0, <1>2 DEF FindByAddress, Handler
  <2>4. QED BY <2>2, <2>3
<1>3. CASE Grant(h) \/ Rotate(h)
  BY <1>0, <1>3 DEF Grant, Rotate, SessionOf, Close
<1>4. CASE IssueLink(h) \/ RevokeAll(h)
  BY <1>0, <1>4 DEF IssueLink, RevokeAll, Close
<1>5. ASSUME NEW r, NEW label, Write(h, handler[h].id, r, label)
      PROVE  user'[i] = user[i] /\ handler'[h].id # i
  BY <1>0, <1>5 DEF Write, Passes, Handler
<1>6. CASE SetPassword(h) \/ WritePassword(h) \/ Anonymise(h) \/ WriteAccount(h)
  BY <1>5, <1>6 DEF SetPassword, WritePassword, Anonymise, WriteAccount
<1>7. CASE Unlink(h)
  BY <1>0, <1>7, Numbers DEF Unlink, Close, Passes, Handler
<1>8. QED BY <1>1, <1>2, <1>3, <1>4, <1>6, <1>7 DEF Proceeds

LEMMA GoneKept ==
  ASSUME Grounded, NEW h \in Handlers, OthersKeep(h), NEW i \in Ids, GoneAt(i),
         user'[i].pw = 0, user'[i].reset = 0, google' = i => google = i,
         (\E s \in sessions' : s.id = i) => (\E s \in sessions : s.id = i) \/ SigningOut(i),
         handler'[h].id = i => /\ handler'[h].at # "set"
                               /\ handler'[h].at = "grant" => Unlinking(i),
         handler[h].id = i => handler[h].at \notin Revoking
  PROVE  GoneAt(i)'
<1>1. \A g \in Handlers \ {h} : /\ handler'[g].id = handler[g].id /\ handler'[g].at = handler[g].at
                                /\ handler[g].late => handler'[g].late
  <2>1. ASSUME NEW j \in Handler
        PROVE  /\ [j EXCEPT !.late = TRUE].at = j.at /\ [j EXCEPT !.late = TRUE].id = j.id
               /\ [j EXCEPT !.late = TRUE].late
    BY DEF Handler
  <2>2. \A g \in Handlers : handler[g] \in Handler
    BY DEF Grounded, AccountsTyped
  <2>3. ASSUME NEW g \in Handlers \ {h}
        PROVE  /\ handler'[g].id = handler[g].id /\ handler'[g].at = handler[g].at
               /\ handler[g].late => handler'[g].late
    <3>1. PICK j \in Handler : j = handler[g]
      BY <2>2
    <3>2. handler'[g] = j \/ handler'[g] = [j EXCEPT !.late = TRUE]
      BY <3>1 DEF OthersKeep
    <3>3. QED BY <2>1, <3>1, <3>2
  <2>4. QED BY <2>3
<1>2. Unlinking(i) => Unlinking(i)'
  BY <1>1 DEF Unlinking, Revoking
<1>3. SigningOut(i) => SigningOut(i)'
  BY <1>1 DEF SigningOut, Revoking
<1>4. ASSUME NEW g \in Handlers, handler'[g].id = i
      PROVE  /\ ~handler'[g].late /\ handler'[g].at = "grant" => Unlinking(i)'
             /\ handler'[g].at = "set" => handler'[g].late
  <2>1. CASE g = h
    BY <1>2, <1>4, <2>1
  <2>2. CASE g # h
    BY <1>1, <1>2, <1>4, <2>2 DEF GoneAt
  <2>3. QED BY <2>1, <2>2
<1>5. QED BY <1>2, <1>3, <1>4 DEF GoneAt

\* A write marks whoever else has read the row.
LEMMA Marks ==
  ASSUME Grounded, NEW h \in Handlers, NEW label \in Revoking, Passes(h, handler[h].id, label)
  PROVE  /\ handler'[h].at = label /\ handler'[h].id = handler[h].id
         /\ \A g \in Handlers \ {h} : /\ handler'[g].id = handler[g].id /\ handler'[g].at = handler[g].at
                                      /\ handler[g].id = handler[h].id => handler'[g].late
<1>1. ASSUME NEW j \in Handler
      PROVE  /\ [j EXCEPT !.at = label].at = label /\ [j EXCEPT !.at = label].id = j.id
             /\ [j EXCEPT !.late = TRUE].at = j.at /\ [j EXCEPT !.late = TRUE].id = j.id
             /\ [j EXCEPT !.late = TRUE].late
  BY DEF Handler, Revoking
<1>2. \A g \in Handlers : handler[g] \in Handler
  BY DEF Grounded, AccountsTyped
<1>3. QED BY <1>1, <1>2 DEF Passes, Revoking

\* What a handler of a removed account does that has not read it before.
LEMMA OfRemoved ==
  ASSUME Grounded, Reading, NEW h \in Handlers, Proceeds(h), NEW i \in Ids, handler[h].id = i,
         Removed(i), GoneAt(i), i \notin overtaken'
  PROVE  /\ user'[i].pw = 0 /\ user'[i].reset = 0 /\ ~user'[i].held /\ (google' = i => google = i)
         /\ \A s \in sessions' \ sessions : s.id = i => SigningOut(i)
         /\ handler'[h].id = i => handler'[h].at \notin {"set", "grant"}
         /\ \/ handler[h].at \notin Revoking /\ ~Anonymise(h)
            \/ Anonymise(h) \/ Unlink(h) \/ RevokeAll(h)
<1>0. /\ handler[h] \in Handler /\ handler \in [Handlers -> Handler] /\ InStep(handler[h]) /\ ReadFor(handler[h])
      /\ i # NoId /\ ~user[i].held /\ user[i] \in Row /\ user[i].pw = 0 /\ user[i].reset = 0
      /\ Idle.id # i /\ user \in [Ids -> Row \cup {Absent}]
  BY Numbers, IdleTyped DEF Grounded, AccountsTyped, Related, Reading, Removed, Registered, GoneAt
<1>1. Overtakes(h) => ~handler[h].late
  BY <1>0 DEF Overtakes
<1>2. ~handler[h].late /\ handler[h].at \notin Revoking => SameRow(handler[h].seen, user[i])
  BY <1>0 DEF InStep
<1>3. CASE CreateUser(h) \/ FindByAddress(h)
  BY <1>0, <1>3 DEF CreateUser, FindByAddress, At, InStep
<1>4. CASE LinkGoogle(h)
  BY <1>0, <1>1, <1>2, <1>4 DEF LinkGoogle, At, ReadFor, SameRow, Revoking
<1>5. CASE Grant(h)
  <2>1. Unlinking(i) /\ handler[h].at = "grant"
    BY <1>1, <1>5 DEF Grant, At, GoneAt
  <2>2. SigningOut(i)
    BY <2>1 DEF Unlinking, SigningOut
  <2>3. UNCHANGED <<user, google>> /\ handler'[h] = Idle
    BY <1>0, <1>5 DEF Grant, Close
  <2>4. QED BY <1>0, <2>1, <2>2, <2>3 DEF Revoking, Anonymise, At
<1>6. CASE Rotate(h)
  <2>1. PICK s \in Session : handler[h].with = {s} /\ s.id = i /\ handler[h].at = "rotate"
    BY <1>0, <1>6 DEF Rotate, At, ReadFor
  <2>2. sessions' # sessions => s \in sessions
    BY <1>6, <2>1 DEF Rotate
  <2>3. sessions' # sessions => SigningOut(i)
    BY <2>1, <2>2 DEF GoneAt
  <2>4. UNCHANGED <<user, google>> /\ handler'[h] = Idle
    BY <1>0, <1>6 DEF Rotate, Close
  <2>5. QED BY <1>0, <2>1, <2>3, <2>4 DEF Revoking, Anonymise, At
<1>7. CASE IssueLink(h) \/ WritePassword(h)
  BY <1>0, <1>1, <1>2, <1>7 DEF IssueLink, WritePassword, At, ReadFor, SameRow, Revoking
<1>8. CASE SetPassword(h)
  BY <1>1, <1>8 DEF SetPassword, At, GoneAt
<1>9. CASE WriteAccount(h)
  <2>1. user' = [user EXCEPT ![i] = Edited(h, i)] /\ UNCHANGED <<google, sessions>>
        /\ handler[h].at = "administer"
    BY <1>9 DEF WriteAccount, Write, At
  <2>2. handler'[h] = Idle \/ handler'[h].at = "revoke"
    BY <1>0, <1>9 DEF WriteAccount, Write, Passes, Handler
  <2>3. user'[i] = Edited(h, i)
    BY <1>0, <2>1
  <2>4. QED BY <1>0, <2>1, <2>2, <2>3, EditedRow, IdleTyped DEF Revoking, Anonymise, At
<1>10. CASE Anonymise(h)
  <2>1. PICK r : r = [user[i] EXCEPT !.held = FALSE, !.pw = 0, !.active = FALSE, !.reset = 0]
    OBVIOUS
  <2>2. r \in Row /\ ~r.held /\ r.pw = 0 /\ r.reset = 0
    BY <1>0, <2>1, Edits
  <2>3. user' = [user EXCEPT ![i] = r] /\ Passes(h, i, "unlink") /\ UNCHANGED <<google, sessions>>
    BY <1>10, <2>1 DEF Anonymise, Write
  <2>4. handler'[h].at = "unlink"
    BY <2>3, Marks DEF Revoking
  <2>5. QED BY <1>0, <1>10, <2>2, <2>3, <2>4
<1>11. CASE Unlink(h)
  <2>1. UNCHANGED <<user, sessions>> /\ (google' = i => google = i)
    BY <1>0, <1>11 DEF Unlink
  <2>2. handler'[h] = Idle \/ handler'[h].at = "revoke"
    BY <1>0, <1>11, Marks DEF Unlink, Close, Revoking
  <2>3. QED BY <1>0, <1>11, <2>1, <2>2, IdleTyped
<1>12. CASE RevokeAll(h)
  BY <1>0, <1>12, IdleTyped DEF RevokeAll, Close
<1>13. QED BY <1>3, <1>4, <1>5, <1>6, <1>7, <1>8, <1>9, <1>10, <1>11, <1>12 DEF Proceeds

\* An account that was not removed is removed by Anonymise only.
LEMMA Removes ==
  ASSUME Grounded, NEW h \in Handlers, Arrives(h) \/ Proceeds(h), NEW i \in Ids, ~Removed(i), Removed(i)'
  PROVE  Anonymise(h) /\ handler[h].id = i
<1>0. user \in [Ids -> Row \cup {Absent}] /\ handler \in [Handlers -> Handler]
      /\ Fresh(h) \in Requests /\ 0 \in Requests
  BY DEF Grounded, AccountsTyped, Fresh, Handler, Requests
<1>1. user'[i] # user[i] /\ ~user'[i].held
  BY DEF Removed, Registered
<1>2. CASE Arrives(h)
  BY <1>1, <1>2, Arrivals
<1>3. CASE CreateUser(h) \/ LinkGoogle(h)
  BY <1>0, <1>1, <1>3, Rows DEF CreateUser, LinkGoogle
<1>4. CASE FindByAddress(h) \/ Grant(h) \/ Rotate(h) \/ Unlink(h) \/ RevokeAll(h)
  BY <1>1, <1>4 DEF FindByAddress, Grant, Rotate, Unlink, RevokeAll
<1>5. ASSUME NEW r, handler[h].id \in Ids, user[handler[h].id] \in Row, r.held = user[handler[h].id].held,
             user' = [user EXCEPT ![handler[h].id] = r]
      PROVE  FALSE
  BY <1>0, <1>1, <1>5, Rows DEF Removed, Registered
<1>6. CASE IssueLink(h)
  <2>1. handler[h].id \in Ids /\ user[handler[h].id] \in Row
    BY <1>6, InHand DEF IssueLink, At
  <2>2. PICK r : r = [user[handler[h].id] EXCEPT !.reset = Fresh(h)]
    OBVIOUS
  <2>3. user' = [user EXCEPT ![handler[h].id] = r]
    BY <1>6, <2>2 DEF IssueLink
  <2>4. r.held = user[handler[h].id].held
    BY <1>0, <2>1, <2>2, Edits
  <2>5. QED BY <1>5, <2>1, <2>3, <2>4
<1>7. CASE SetPassword(h)
  <2>1. handler[h].id \in Ids /\ user[handler[h].id] \in Row
    BY <1>7, InHand DEF SetPassword, At
  <2>2. PICK r : r = [user[handler[h].id] EXCEPT !.pw = Fresh(h), !.reset = 0]
    OBVIOUS
  <2>3. user' = [user EXCEPT ![handler[h].id] = r]
    BY <1>7, <2>2 DEF SetPassword, Write
  <2>4. r.held = user[handler[h].id].held
    BY <1>0, <2>1, <2>2, Edits
  <2>5. QED BY <1>5, <2>1, <2>3, <2>4
<1>8. CASE WritePassword(h)
  <2>1. handler[h].id \in Ids /\ user[handler[h].id] \in Row
    BY <1>8, InHand DEF WritePassword, At
  <2>2. PICK r : r = [user[handler[h].id] EXCEPT !.pw = Fresh(h)]
    OBVIOUS
  <2>3. user' = [user EXCEPT ![handler[h].id] = r]
    BY <1>8, <2>2 DEF WritePassword, Write
  <2>4. r.held = user[handler[h].id].held
    BY <1>0, <2>1, <2>2, Edits
  <2>5. QED BY <1>5, <2>1, <2>3, <2>4
<1>9. CASE WriteAccount(h)
  <2>1. handler[h].id \in Ids /\ user[handler[h].id] \in Row
    BY <1>9, InHand DEF WriteAccount, At
  <2>2. user' = [user EXCEPT ![handler[h].id] = Edited(h, handler[h].id)]
    BY <1>9 DEF WriteAccount, Write
  <2>3. QED BY <1>5, <2>1, <2>2, EditedRow
<1>10. CASE Anonymise(h)
  BY <1>0, <1>1, <1>10 DEF Anonymise, Write
<1>11. QED BY <1>2, <1>3, <1>4, <1>6, <1>7, <1>8, <1>9, <1>10 DEF Proceeds

LEMMA Marked ==
  ASSUME NEW h \in Handlers, Arrives(h) \/ Proceeds(h)
  PROVE  slipped \subseteq slipped' /\ overtaken \subseteq overtaken'
<1>1. Arrives(h) => UNCHANGED <<slipped, overtaken>>
  BY DEF Arrives, Register, Login, LoginWithGoogle, Refresh, ForgotPassword, ResetPassword,
         ChangePassword, AdminUpdate, Remove
<1>2. Proceeds(h) => slipped \subseteq slipped' /\ overtaken \subseteq overtaken'
  BY DEF Proceeds, CreateUser, FindByAddress, LinkGoogle, Grant, Rotate, IssueLink, SetPassword,
         WritePassword, WriteAccount, Anonymise, Unlink, RevokeAll, Overtakes
<1>3. QED BY <1>1, <1>2

LEMMA NextGone == Grounded /\ Reading /\ GoneForGood /\ [AccountsNext]_accountVars => GoneForGood'
<1> SUFFICES ASSUME Grounded, Reading, GoneForGood, [AccountsNext]_accountVars PROVE GoneForGood'
  OBVIOUS
<1>1. CASE UNCHANGED accountVars
  BY <1>1 DEF accountVars, GoneForGood, GoneAt, Removed, Registered, Excused, Unlinking, SigningOut
<1>2. ASSUME NEW h \in Handlers, Arrives(h) \/ Proceeds(h), NEW i \in Ids, Removed(i)', ~Excused(i)'
      PROVE  GoneAt(i)'
  <2>0. /\ OthersKeep(h) /\ handler[h] \in Handler /\ ~Excused(i) /\ i \notin overtaken' /\ i \notin slipped'
        /\ i # NoId
    BY <1>2, OthersHold, Marked, Numbers DEF Excused, Grounded, AccountsTyped
  <2>1. CASE Anonymise(h) /\ handler[h].id = i
    <3>1. user[i] \in Row
      BY <2>1, InHand DEF Anonymise, At
    <3>2. PICK r : r = [user[i] EXCEPT !.held = FALSE, !.pw = 0, !.active = FALSE, !.reset = 0]
      OBVIOUS
    <3>3. r.pw = 0 /\ r.reset = 0
      BY <3>1, <3>2, Edits
    <3>4. user'[i] = r /\ Passes(h, handler[h].id, "unlink")
      BY <2>1, <3>2 DEF Anonymise, Write, Grounded, AccountsTyped
    <3>5. /\ handler'[h].at = "unlink" /\ handler'[h].id = i
          /\ \A g \in Handlers \ {h} : handler'[g].id = i => handler'[g].late
      BY <2>1, <3>4, Marks DEF Revoking
    <3>6. Unlinking(i)' /\ SigningOut(i)'
      BY <3>5 DEF Unlinking, SigningOut
    <3>7. QED BY <3>3, <3>4, <3>5, <3>6 DEF GoneAt
  <2>2. CASE ~(Anonymise(h) /\ handler[h].id = i)
    <3>0. Removed(i) /\ GoneAt(i) /\ user[i] \in Row /\ ~user[i].held
      BY <1>2, <2>0, <2>2, Removes DEF GoneForGood, Removed, Registered, Grounded, AccountsTyped
    <3>1. CASE Arrives(h)
      <4>1. PICK j \in Handler : handler'[h] = j /\ FoundOnArrival(h, j) /\ handler[h] = Idle
            /\ UNCHANGED <<user, google, sessions>>
        BY <3>1, Arrivals
      <4>2. handler'[h].id = i => /\ handler'[h].at # "set"
                                  /\ handler'[h].at = "grant" => Unlinking(i)
        BY <3>0, <4>1 DEF FoundOnArrival, GoneAt
      <4>3. QED BY <2>0, <3>0, <4>1, <4>2, IdleTyped, GoneKept DEF Revoking, GoneAt
    <3>2. CASE Proceeds(h) /\ handler[h].id # i
      <4>1. /\ user'[i] = user[i] /\ (google' = i => google = i)
            /\ \A s \in sessions' \ sessions : s.id # i
            /\ handler'[h].id # i
        BY <3>0, <3>2, Elsewhere
      <4>2. QED BY <2>0, <3>0, <3>2, <4>1, GoneKept DEF GoneAt
    <3>3. CASE Proceeds(h) /\ handler[h].id = i
      <4>1. /\ user'[i].pw = 0 /\ user'[i].reset = 0 /\ ~user'[i].held /\ (google' = i => google = i)
            /\ \A s \in sessions' \ sessions : s.id = i => SigningOut(i)
            /\ handler'[h].id = i => handler'[h].at \notin {"set", "grant"}
            /\ handler[h].at \notin Revoking \/ Unlink(h) \/ RevokeAll(h)
        BY <2>0, <2>2, <3>0, <3>3, OfRemoved
      <4>2. CASE handler[h].at \notin Revoking
        <5>1. (\E s \in sessions' : s.id = i) => (\E s \in sessions : s.id = i) \/ SigningOut(i)
          BY <4>1
        <5>2. QED BY <2>0, <3>0, <4>1, <4>2, <5>1, GoneKept
      <4>3. CASE Unlink(h)
        <5>1. Passes(h, handler[h].id, "revoke") /\ google' # i /\ UNCHANGED <<user, sessions>>
          BY <2>0, <3>3, <4>3 DEF Unlink
        <5>2. /\ handler'[h].at = "revoke" /\ handler'[h].id = i
              /\ \A g \in Handlers \ {h} : handler'[g].id = i => handler'[g].late
          BY <3>3, <5>1, Marks DEF Revoking
        <5>3. SigningOut(i)'
          BY <5>2 DEF SigningOut
        <5>4. QED BY <4>1, <5>1, <5>2, <5>3 DEF GoneAt
      <4>4. CASE RevokeAll(h)
        <5>1. /\ handler[h].at = "revoke" /\ handler'[h] = Idle /\ \A s \in sessions' : s.id # i
              /\ UNCHANGED <<user, google>> /\ \A g \in Handlers \ {h} : handler'[g] = handler[g]
          BY <2>0, <3>3, <4>4 DEF RevokeAll, At, Close, Grounded, AccountsTyped
        <5>2. Unlinking(i) => Unlinking(i)'
          BY <5>1 DEF Unlinking
        <5>3. QED BY <2>0, <3>0, <5>1, <5>2, IdleTyped DEF GoneAt
      <4>5. QED BY <4>1, <4>2, <4>3, <4>4
    <3>4. QED BY <1>2, <3>1, <3>2, <3>3
  <2>3. QED BY <2>1, <2>2
<1>3. QED BY <1>1, <1>2 DEF AccountsNext, Arrives, GoneForGood

\* One account's part of RemovedStaysRemoved.
StaysRemoved(i) ==
    Removed(i) =>
      \/ /\ user'[i].pw = user[i].pw /\ user'[i].reset = user[i].reset /\ ~user'[i].held
         /\ google' = i => google = i
         /\ \A s \in sessions' \ sessions : s.id # i
      \/ i \in slipped \cup overtaken \/ SigningOut(i)
      \/ \E h \in Handlers : handler[h].late /\ handler[h].id = i /\ handler'[h] # handler[h]

LEMMA RemovedStep ==
  ASSUME Grounded, Reading, GoneForGood, [AccountsNext]_accountVars, NEW i \in Ids
  PROVE  StaysRemoved(i)
<1> SUFFICES ASSUME Removed(i), ~Excused(i), ~SigningOut(i),
                    ~\E h \in Handlers : handler[h].late /\ handler[h].id = i /\ handler'[h] # handler[h]
             PROVE  /\ user'[i].pw = user[i].pw /\ user'[i].reset = user[i].reset /\ ~user'[i].held
                    /\ google' = i => google = i
                    /\ \A s \in sessions' \ sessions : s.id # i
  BY DEF StaysRemoved, Excused
<1>0. GoneAt(i) /\ user[i] \in Row /\ ~user[i].held /\ user[i].pw = 0 /\ user[i].reset = 0
  BY DEF GoneForGood, GoneAt, Removed, Registered, Grounded, AccountsTyped
<1>1. CASE UNCHANGED accountVars
  BY <1>0, <1>1 DEF accountVars
<1>2. ASSUME NEW h \in Handlers, Arrives(h)
      PROVE  /\ user'[i].pw = user[i].pw /\ user'[i].reset = user[i].reset /\ ~user'[i].held
             /\ google' = i => google = i
             /\ \A s \in sessions' \ sessions : s.id # i
  BY <1>0, <1>2, Arrivals
<1>3. ASSUME NEW h \in Handlers, Proceeds(h)
      PROVE  /\ user'[i].pw = user[i].pw /\ user'[i].reset = user[i].reset /\ ~user'[i].held
             /\ google' = i => google = i
             /\ \A s \in sessions' \ sessions : s.id # i
  <2>1. CASE handler[h].id # i
    BY <1>0, <1>3, <2>1, Elsewhere
  <2>2. CASE handler[h].id = i
    <3>1. ~handler[h].late
      BY <1>3, <2>2, Goes
    <3>2. overtaken' = overtaken
      BY <1>3, <3>1 DEF Proceeds, CreateUser, FindByAddress, LinkGoogle, Grant, Rotate, IssueLink,
             SetPassword, WritePassword, WriteAccount, Anonymise, Unlink, RevokeAll, Overtakes
    <3>3. QED BY <1>0, <1>3, <2>2, <3>2, OfRemoved DEF Excused
  <2>3. QED BY <2>1, <2>2
<1>4. QED BY <1>1, <1>2, <1>3 DEF AccountsNext, Arrives

\* An account whose removal is complete gets nothing back of what it lost, but from a request
\* that had read it before, or when a query of the removal failed.
THEOREM RemovedAccountsStayRemoved == AccountsSpec => RemovedStaysRemoved
<1>1. AccountsInit => Reading /\ GoneForGood
  BY IdleTyped, Rows DEF AccountsInit, Reading, ReadFor, GoneForGood, Removed, Registered, Idle
<1>2. ASSUME Grounded, Reading, GoneForGood, [AccountsNext]_accountVars
      PROVE  \A i \in Ids : StaysRemoved(i)
  BY <1>2, RemovedStep
<1>3. (\A i \in Ids : StaysRemoved(i)) =>
        \A i \in Ids : Removed(i) =>
          \/ /\ user'[i].pw = user[i].pw /\ user'[i].reset = user[i].reset /\ ~user'[i].held
             /\ google' = i => google = i
             /\ \A s \in sessions' \ sessions : s.id # i
          \/ i \in slipped \cup overtaken \/ SigningOut(i)
          \/ \E h \in Handlers : handler[h].late /\ handler[h].id = i /\ handler'[h] # handler[h]
  BY DEF StaysRemoved
<1>4. QED BY <1>1, <1>2, <1>3, InitGrounded, NextGrounded, NextReading, NextGone, PTL
        DEF AccountsSpec, RemovedStaysRemoved

-----------------------------------------------------------------------------
(* Reset links: a number is one link, of one account *)

RowLinks ==
    \A i \in Ids : user[i].reset # 0 =>
       /\ user[i].reset <= requests /\ user[i].reset \notin spent
       /\ \A k \in Ids : user[k].reset = user[i].reset => k = i

\* The link h is about to store is new.
IssueLinks ==
    \A h \in Handlers : handler[h].at = "issue" =>
       /\ handler[h].n # 0 /\ handler[h].n <= requests /\ handler[h].n \notin spent
       /\ \A i \in Ids : user[i].reset # handler[h].n
       /\ \A g \in Handlers : /\ handler[g].at = "set" => handler[g].link # handler[h].n
                              /\ handler[g].at = "issue" /\ handler[g].n = handler[h].n => g = h

\* The link h was asked with is the account's, and it is spent only by a write that made h late.
SetLinks ==
    \A h \in Handlers : handler[h].at = "set" =>
       /\ handler[h].link # 0 /\ handler[h].link <= requests
       /\ \A i \in Ids : user[i].reset = handler[h].link => i = handler[h].id
       /\ \A g \in Handlers : (handler[g].at = "set" /\ handler[g].link = handler[h].link) =>
             handler[g].id = handler[h].id
       /\ ~handler[h].late => handler[h].link \notin spent

SpentLinks == \A n \in spent : n <= requests

Links == RowLinks /\ IssueLinks /\ SetLinks /\ SpentLinks

\* What the others know of links stays.
LEMMA OthersLinks ==
  ASSUME Grounded, NEW h \in Handlers, OthersKeep(h), NEW g \in Handlers \ {h}
  PROVE  /\ handler'[g].at = handler[g].at /\ handler'[g].id = handler[g].id
         /\ handler'[g].n = handler[g].n /\ handler'[g].link = handler[g].link
         /\ handler[g].late => handler'[g].late
<1>1. ASSUME NEW j \in Handler
      PROVE  /\ [j EXCEPT !.late = TRUE].at = j.at /\ [j EXCEPT !.late = TRUE].id = j.id
             /\ [j EXCEPT !.late = TRUE].n = j.n /\ [j EXCEPT !.late = TRUE].link = j.link
             /\ [j EXCEPT !.late = TRUE].late
  BY DEF Handler
<1>2. PICK j \in Handler : j = handler[g]
  BY DEF Grounded, AccountsTyped
<1>3. handler'[g] = j \/ handler'[g] = [j EXCEPT !.late = TRUE]
  BY <1>2 DEF OthersKeep
<1>4. QED BY <1>1, <1>2, <1>3

\* The numbers a state uses are compared as numbers.
LEMMA LinkNumbers ==
  ASSUME Grounded
  PROVE  /\ \A i \in Ids : user[i].reset \in Nat
         /\ \A g \in Handlers : handler[g].n \in Nat /\ handler[g].link \in Nat
         /\ requests \in Nat /\ spent \subseteq Nat
<1>1. \A r \in Row \cup {Absent} : r.reset \in Nat
  <2>1. ASSUME NEW r \in Row PROVE r.reset \in Nat
    BY Numbers DEF Row
  <2>2. Absent.reset = 0
    BY DEF Absent
  <2>3. QED BY <2>1, <2>2
<1>2. QED BY <1>1, Numbers DEF Grounded, AccountsTyped, Handler

\* Most steps put no link into a row, and clear some at most.
LEMMA LinksKept ==
  ASSUME Grounded, Links, NEW h \in Handlers, OthersKeep(h), spent' = spent, requests' = requests,
         \A i \in Ids : user'[i].reset \in {user[i].reset, 0},
         handler'[h].at \notin {"issue", "set"}
  PROVE  Links'
<1>1. \A g \in Handlers \ {h} :
         /\ handler'[g].at = handler[g].at /\ handler'[g].id = handler[g].id
         /\ handler'[g].n = handler[g].n /\ handler'[g].link = handler[g].link
         /\ handler[g].late => handler'[g].late
  BY OthersLinks
<1>2. RowLinks' /\ SpentLinks'
  BY DEF Links, RowLinks, SpentLinks
<1>3. IssueLinks'
  BY <1>1 DEF Links, IssueLinks
<1>4. SetLinks'
  BY <1>1 DEF Links, SetLinks
<1>5. QED BY <1>2, <1>3, <1>4 DEF Links

LEMMA NextLinks == Grounded /\ Links /\ [AccountsNext]_accountVars => Links'
<1> SUFFICES ASSUME Grounded, Links, [AccountsNext]_accountVars PROVE Links'
  OBVIOUS
<1>1. CASE UNCHANGED accountVars
  BY <1>1 DEF accountVars, Links, RowLinks, IssueLinks, SetLinks, SpentLinks
<1>2. ASSUME NEW h \in Handlers, Arrives(h) PROVE Links'
  <2>1. PICK j \in Handler : handler'[h] = j /\ j.n = requests + 1 /\ FoundOnArrival(h, j)
    BY <1>2, Arrivals
  <2>2. UNCHANGED <<user, spent>> /\ requests' = requests + 1
        /\ \A g \in Handlers \ {h} : handler'[g] = handler[g]
    BY <1>2, Arrivals
  <2>3. RowLinks' /\ SpentLinks'
    BY <2>2, LinkNumbers DEF Links, RowLinks, SpentLinks
  <2>4. IssueLinks'
    <3>1. ASSUME NEW g \in Handlers, handler'[g].at = "issue", g # h
          PROVE  /\ handler'[g].n # 0 /\ handler'[g].n <= requests /\ handler'[g].n \notin spent
                 /\ \A i \in Ids : user[i].reset # handler'[g].n
                 /\ \A f \in Handlers :
                       /\ handler'[f].at = "set" => handler'[f].link # handler'[g].n
                       /\ (handler'[f].at = "issue" /\ handler'[f].n = handler'[g].n) => f = g
      <4>1. /\ handler[g].n # 0 /\ handler[g].n <= requests /\ handler[g].n \notin spent
            /\ \A i \in Ids : user[i].reset # handler[g].n
        BY <2>2, <3>1 DEF Links, IssueLinks
      <4>2. j.n # handler[g].n
        BY <2>1, <4>1, LinkNumbers
      <4>3. j.at = "set" => j.link # handler[g].n
        BY <2>1, <4>1 DEF FoundOnArrival
      <4>4. QED BY <2>1, <2>2, <3>1, <4>1, <4>2, <4>3 DEF Links, IssueLinks
    <3>2. ASSUME handler'[h].at = "issue"
          PROVE  /\ handler'[h].n # 0 /\ handler'[h].n <= requests' /\ handler'[h].n \notin spent
                 /\ \A i \in Ids : user[i].reset # handler'[h].n
                 /\ \A f \in Handlers :
                       /\ handler'[f].at = "set" => handler'[f].link # handler'[h].n
                       /\ (handler'[f].at = "issue" /\ handler'[f].n = handler'[h].n) => f = h
      <4>1. \A n \in spent : n # j.n
        BY <2>1, LinkNumbers DEF Links, SpentLinks
      <4>2. \A i \in Ids : user[i].reset # j.n
        BY <2>1, LinkNumbers DEF Links, RowLinks
      <4>3. \A f \in Handlers \ {h} : handler[f].at = "set" => handler[f].link # j.n
        BY <2>1, LinkNumbers DEF Links, SetLinks
      <4>4. \A f \in Handlers \ {h} : handler[f].at = "issue" => handler[f].n # j.n
        BY <2>1, LinkNumbers DEF Links, IssueLinks
      <4>5. j.n # 0 /\ j.n <= requests'
        BY <2>1, <2>2, LinkNumbers
      <4>6. QED BY <2>1, <2>2, <3>2, <4>1, <4>2, <4>3, <4>4, <4>5
    <3>3. requests <= requests' /\ requests \in Nat /\ requests' \in Nat
      BY <2>2, LinkNumbers
    <3>4. ASSUME NEW g \in Handlers, handler'[g].at = "issue", g # h PROVE handler'[g].n <= requests'
      BY <2>2, <3>1, <3>3, <3>4, LinkNumbers
    <3>5. QED BY <2>2, <3>1, <3>2, <3>4 DEF IssueLinks
  <2>5. SetLinks'
    <3>1. j.at = "set" => /\ j.link # 0 /\ j.link <= requests' /\ j.link \notin spent
                          /\ \A i \in Ids : user[i].reset = j.link => i = j.id
                          /\ \A g \in Handlers \ {h} :
                                (handler[g].at = "set" /\ handler[g].link = j.link) => handler[g].id = j.id
      <4> SUFFICES ASSUME j.at = "set"
                   PROVE  /\ j.link # 0 /\ j.link <= requests' /\ j.link \notin spent
                          /\ \A i \in Ids : user[i].reset = j.link => i = j.id
                          /\ \A g \in Handlers \ {h} :
                                (handler[g].at = "set" /\ handler[g].link = j.link) => handler[g].id = j.id
        OBVIOUS
      <4>1. j.id \in Ids /\ j.link = user[j.id].reset /\ j.link # 0
        BY <2>1 DEF FoundOnArrival
      <4>2. QED BY <2>2, <4>1, LinkNumbers DEF Links, RowLinks, SetLinks
    <3>2. \A g \in Handlers : handler[g].at = "set" => handler[g].link <= requests'
      BY <2>2, LinkNumbers DEF Links, SetLinks
    <3>3. QED BY <2>1, <2>2, <3>1, <3>2 DEF Links, SetLinks
  <2>6. QED BY <2>3, <2>4, <2>5 DEF Links
<1>3. ASSUME NEW h \in Handlers, Proceeds(h) PROVE Links'
  <2>0. OthersKeep(h) /\ handler \in [Handlers -> Handler] /\ user \in [Ids -> Row \cup {Absent}]
        /\ Fresh(h) \in Requests /\ 0 \in Requests
    BY <1>3, OthersHold DEF Grounded, AccountsTyped, Fresh, Handler, Requests
  <2>1. handler'[h].at \notin {"issue", "set"}
    BY <1>3, Goes, IdleTyped
  <2>2. requests' = requests
    BY <1>3 DEF Proceeds, CreateUser, FindByAddress, LinkGoogle, Grant, Rotate, IssueLink, SetPassword,
           WritePassword, WriteAccount, Anonymise, Unlink, RevokeAll
  <2>3. ASSUME NEW i \in Ids, NEW r, user' = [user EXCEPT ![i] = r], r.reset \in {user[i].reset, 0}
        PROVE  \A k \in Ids : user'[k].reset \in {user[k].reset, 0}
    BY <2>0, <2>3
  <2>4. CASE CreateUser(h) \/ LinkGoogle(h)
    <3>1. user' = user \/ \E i \in Ids, pw \in Requests : user' = [user EXCEPT ![i] = NewRow(pw)]
      BY <2>0, <2>4 DEF CreateUser, LinkGoogle
    <3>2. \A k \in Ids : user'[k].reset \in {user[k].reset, 0}
      BY <2>3, <3>1, Rows
    <3>3. QED BY <2>0, <2>1, <2>2, <2>4, <3>2, LinksKept, Opens
  <2>5. CASE FindByAddress(h) \/ Grant(h) \/ Rotate(h) \/ Unlink(h) \/ RevokeAll(h)
    <3>1. UNCHANGED <<user, spent>>
      BY <2>5 DEF FindByAddress, Grant, Rotate, Unlink, RevokeAll
    <3>2. QED BY <2>0, <2>1, <2>2, <3>1, LinksKept
  <2>6. CASE WritePassword(h)
    <3>1. handler[h].id \in Ids /\ user[handler[h].id] \in Row
      BY <2>6, InHand DEF WritePassword, At
    <3>2. PICK r : r = [user[handler[h].id] EXCEPT !.pw = Fresh(h)]
      OBVIOUS
    <3>3. r.reset = user[handler[h].id].reset
      BY <2>0, <3>1, <3>2, Edits
    <3>4. user' = [user EXCEPT ![handler[h].id] = r] /\ spent' = spent
      BY <2>6, <3>2 DEF WritePassword, Write
    <3>5. QED BY <2>0, <2>1, <2>2, <2>3, <3>1, <3>3, <3>4, LinksKept
  <2>7. CASE WriteAccount(h)
    <3>1. handler[h].id \in Ids /\ user[handler[h].id] \in Row
      BY <2>7, InHand DEF WriteAccount, At
    <3>2. user' = [user EXCEPT ![handler[h].id] = Edited(h, handler[h].id)] /\ spent' = spent
      BY <2>7 DEF WriteAccount, Write
    <3>3. Edited(h, handler[h].id).reset = user[handler[h].id].reset
      BY <3>1, EditedRow
    <3>4. QED BY <2>0, <2>1, <2>2, <2>3, <3>1, <3>2, <3>3, LinksKept
  <2>8. CASE Anonymise(h)
    <3>1. handler[h].id \in Ids /\ user[handler[h].id] \in Row
      BY <2>8, InHand DEF Anonymise, At
    <3>2. PICK r : r = [user[handler[h].id] EXCEPT !.held = FALSE, !.pw = 0, !.active = FALSE, !.reset = 0]
      OBVIOUS
    <3>3. r.reset = 0
      BY <3>1, <3>2, Edits
    <3>4. user' = [user EXCEPT ![handler[h].id] = r] /\ spent' = spent
      BY <2>8, <3>2 DEF Anonymise, Write
    <3>5. QED BY <2>0, <2>1, <2>2, <2>3, <3>1, <3>3, <3>4, LinksKept
  <2>9. CASE IssueLink(h)
    <3>1. PICK i \in Ids : i = handler[h].id /\ user[i] \in Row /\ handler[h].at = "issue"
      BY <2>9, InHand DEF IssueLink, At
    <3>2. PICK n \in Requests : n = handler[h].n
      BY <2>0 DEF Fresh
    <3>3. PICK r : r = [user[i] EXCEPT !.reset = n]
      OBVIOUS
    <3>4. r.reset = n
      BY <3>1, <3>3, Edits
    <3>5. user' = [user EXCEPT ![i] = r] /\ spent' = spent
      BY <2>9, <3>1, <3>2, <3>3 DEF IssueLink, Fresh
    <3>6. \A k \in Ids : user'[k].reset = IF k = i THEN n ELSE user[k].reset
      BY <2>0, <3>4, <3>5
    <3>7. /\ n # 0 /\ n <= requests /\ n \notin spent /\ \A k \in Ids : user[k].reset # n
          /\ \A g \in Handlers \ {h} : /\ handler[g].at = "set" => handler[g].link # n
                                       /\ handler[g].at = "issue" => handler[g].n # n
      BY <3>1, <3>2 DEF Links, IssueLinks
    <3>8. \A g \in Handlers \ {h} :
         /\ handler'[g].at = handler[g].at /\ handler'[g].id = handler[g].id
         /\ handler'[g].n = handler[g].n /\ handler'[g].link = handler[g].link
         /\ handler[g].late => handler'[g].late
      BY <2>0, OthersLinks
    <3>9. RowLinks' /\ SpentLinks'
      BY <2>2, <3>5, <3>6, <3>7 DEF Links, RowLinks, SpentLinks
    <3>10. IssueLinks'
      BY <2>1, <2>2, <3>5, <3>6, <3>7, <3>8 DEF Links, IssueLinks
    <3>11. SetLinks'
      BY <2>1, <2>2, <3>5, <3>6, <3>7, <3>8 DEF Links, SetLinks
    <3>12. QED BY <3>9, <3>10, <3>11 DEF Links
  <2>10. CASE SetPassword(h)
    <3>1. PICK i \in Ids : i = handler[h].id /\ user[i] \in Row /\ handler[h].at = "set"
      BY <2>10, InHand DEF SetPassword, At
    <3>2. PICK r : r = [user[i] EXCEPT !.pw = Fresh(h), !.reset = 0]
      OBVIOUS
    <3>3. r.reset = 0
      BY <2>0, <3>1, <3>2, Edits
    <3>4. user' = [user EXCEPT ![i] = r] /\ spent' = spent \cup {handler[h].link}
          /\ Passes(h, handler[h].id, "revoke")
      BY <2>10, <3>1, <3>2 DEF SetPassword, Write
    <3>5. \A k \in Ids : user'[k].reset = IF k = i THEN 0 ELSE user[k].reset
      BY <2>0, <3>3, <3>4
    <3>6. PICK l : l = handler[h].link
      OBVIOUS
    <3>7. /\ l <= requests /\ \A k \in Ids : user[k].reset = l => k = i
          /\ \A g \in Handlers : (handler[g].at = "set" /\ handler[g].link = l) => handler[g].id = i
          /\ \A g \in Handlers : handler[g].at = "issue" => handler[g].n # l
      BY <3>1, <3>6 DEF Links, SetLinks, IssueLinks
    <3>8. \A g \in Handlers \ {h} :
         /\ handler'[g].at = handler[g].at /\ handler'[g].id = handler[g].id
         /\ handler'[g].n = handler[g].n /\ handler'[g].link = handler[g].link
         /\ handler[g].late => handler'[g].late
         /\ handler[g].id = i => handler'[g].late
      BY <2>0, <3>1, <3>4, OthersLinks, Marks DEF Revoking
    <3>9. RowLinks' /\ SpentLinks'
      BY <2>2, <3>4, <3>5, <3>6, <3>7 DEF Links, RowLinks, SpentLinks
    <3>10. IssueLinks'
      BY <2>1, <2>2, <3>4, <3>5, <3>6, <3>7, <3>8 DEF Links, IssueLinks
    <3>11. SetLinks'
      <4>1. ASSUME NEW g \in Handlers, handler'[g].at = "set", ~handler'[g].late
            PROVE  handler'[g].link \notin spent'
        BY <2>1, <3>4, <3>6, <3>7, <3>8, <4>1 DEF Links, SetLinks
      <4>2. QED BY <2>1, <2>2, <3>5, <3>8, <4>1 DEF Links, SetLinks
    <3>12. QED BY <3>9, <3>10, <3>11 DEF Links
  <2>11. QED BY <1>3, <2>4, <2>5, <2>6, <2>7, <2>8, <2>9, <2>10 DEF Proceeds
<1>4. QED BY <1>1, <1>2, <1>3 DEF AccountsNext, Arrives

\* A reset link that has set a password sets another only in a request that had looked the account
\* up before, and that the first one then overtook.
THEOREM ResetLinksWorkOnce == AccountsSpec => LinksWorkOnce
<1>1. AccountsInit => Links
  BY IdleTyped DEF AccountsInit, Links, RowLinks, IssueLinks, SetLinks, SpentLinks, Absent
<1>2. Links => \A h \in Handlers : SetPassword(h) /\ handler[h].link \in spent => handler[h].late
  BY DEF Links, SetLinks, SetPassword, At
<1>3. QED BY <1>1, <1>2, InitGrounded, NextGrounded, NextLinks, PTL DEF AccountsSpec, LinksWorkOnce

-----------------------------------------------------------------------------
\* Catalogue: counts and references hold together.

HIDE AccountsAssumption
USE CatalogueAssumption

-----------------------------------------------------------------------------
(* Types, the foreign keys, and what a request has in hand *)

\* What a request has in hand at each of its queries.
Prepared(j) ==
    /\ j.at \in {"count", "put"} <=> j.due # <<>>
    /\ j.at \in {"relations", "links", "remove"} => j.id \in Parents \cup Compounds
    /\ j.at \in {"relations", "write"} => (j.new /\ j.id \in Compounds => j.was = Blank /\ j.by # Blank /\ j.in # Blank)
    /\ j.at \in {"relations", "write", "links", "remove"} => (~j.new /\ j.id \in Compounds => j.was # Blank)
    /\ j.at \in {"links", "remove"} => ~j.new
    /\ j.at \in {"find", "insert"} => j.id \in Units /\ j.home # Blank

CatalogueTyped ==
    /\ parent \in [Parents -> {"none", "active", "inactive"}]
    /\ projects \in [Developers -> Nat]
    /\ compound \in [Compounds -> Compound]
    /\ unit \in [Units -> Unit]
    /\ work \in [Clerks -> Work]
    /\ edits \in 0..MaxEdits
    /\ unsure \subseteq Developers /\ cut \subseteq Units

\* The foreign keys, of compounds and of listings.
CompoundKeys ==
    \A c \in Compounds : IF compound[c].here
       THEN /\ compound[c].by # Blank /\ compound[c].in # Blank
            /\ parent[compound[c].by] # "none" /\ parent[compound[c].in] # "none"
       ELSE compound[c] = NoCompound
UnitKeys == \A u \in Units : unit[u].compound # Blank => compound[unit[u].compound].here

Stocked == CatalogueTyped /\ CompoundKeys /\ UnitKeys /\ \A p \in Clerks : Prepared(work[p])

LEMMA NoWorkTyped ==
  /\ NoWork \in Work /\ NoWork.at = "idle" /\ NoWork.due = <<>> /\ NoWork.id = Blank
  /\ ~NoWork.new /\ NoWork.by = Blank /\ NoWork.in = Blank /\ NoWork.was = Blank /\ NoWork.home = Blank
  /\ Prepared(NoWork)
  BY DEF NoWork, Work, Stages, Prepared

LEMMA Vacant ==
  /\ NoCompound \in Compound /\ ~NoCompound.here /\ NoCompound.by = Blank /\ NoCompound.in = Blank
  /\ NoUnit \in Unit /\ ~NoUnit.live /\ NoUnit.compound = Blank
  BY DEF NoCompound, Compound, NoUnit, Unit

LEMMA RunningCounts ==
  ASSUME IsFiniteSet(Compounds)
  PROVE  \A d : Running(d) \in Nat
<1>1. ASSUME NEW d PROVE Running(d) \in Nat
  <2>1. IsFiniteSet({c \in Of(d) : compound[c].active})
    BY FS_Subset DEF Of
  <2>2. QED BY <2>1, FS_CardinalityType DEF Running
<1>2. QED BY <1>1

LEMMA InitStocked == IsFiniteSet(Compounds) /\ CatalogueInit => Stocked
<1> SUFFICES ASSUME IsFiniteSet(Compounds), CatalogueInit PROVE Stocked
  OBVIOUS
<1>1. compound \in [Compounds -> Compound]
  BY Vacant DEF CatalogueInit, Compound
<1>2. CatalogueTyped
  BY <1>1, RunningCounts, NoWorkTyped, Vacant DEF CatalogueInit, CatalogueTyped
<1>3. CompoundKeys
  BY Vacant DEF CatalogueInit, CompoundKeys, Parents
<1>4. UnitKeys
  BY Vacant DEF CatalogueInit, UnitKeys
<1>5. QED BY <1>2, <1>3, <1>4, NoWorkTyped DEF CatalogueInit, Stocked

\* A request moves to j, and the others go on as they were, marked late or not.
Hands(p, j) ==
    /\ j \in Work /\ Prepared(j)
    /\ work' \in [Clerks -> Work] /\ work'[p] = j
    /\ \A q \in Clerks \ {p} : work'[q] = work[q] \/ work'[q] = [work[q] EXCEPT !.late = TRUE]

LEMMA LateKept ==
  ASSUME NEW j \in Work
  PROVE  LET k == [j EXCEPT !.late = TRUE]
         IN  /\ k \in Work /\ k.late /\ k.at = j.at /\ k.id = j.id /\ k.new = j.new /\ k.by = j.by
             /\ k.in = j.in /\ k.active = j.active /\ k.was = j.was /\ k.linked = j.linked
             /\ k.due = j.due /\ k.n = j.n /\ k.home = j.home
  BY DEF Work

LEMMA HandsOver ==
  ASSUME Stocked, NEW p \in Clerks, NEW j \in Work, Prepared(j), work' = [work EXCEPT ![p] = j]
  PROVE  Hands(p, j)
  BY DEF Hands, Stocked, CatalogueTyped

LEMMA OthersPrepared ==
  ASSUME Stocked, NEW p \in Clerks, NEW j, Hands(p, j)
  PROVE  /\ \A q \in Clerks : Prepared(work'[q])
         /\ \A q \in Clerks \ {p} :
               /\ work'[q].at = work[q].at /\ work'[q].id = work[q].id /\ work'[q].linked = work[q].linked
               /\ work'[q].due = work[q].due /\ work'[q].n = work[q].n
               /\ work[q].late => work'[q].late
<1>1. ASSUME NEW q \in Clerks \ {p}
      PROVE  /\ Prepared(work'[q])
             /\ work'[q].at = work[q].at /\ work'[q].id = work[q].id /\ work'[q].linked = work[q].linked
             /\ work'[q].due = work[q].due /\ work'[q].n = work[q].n
             /\ work[q].late => work'[q].late
  <2>1. PICK w \in Work : w = work[q] /\ Prepared(w)
    BY DEF Stocked, CatalogueTyped
  <2>2. CASE work'[q] = w
    BY <2>1, <2>2
  <2>3. CASE work'[q] = [w EXCEPT !.late = TRUE]
    <3>1. PICK k : k = [w EXCEPT !.late = TRUE]
      OBVIOUS
    <3>2. /\ k.late /\ k.at = w.at /\ k.id = w.id /\ k.new = w.new /\ k.by = w.by
          /\ k.in = w.in /\ k.was = w.was /\ k.linked = w.linked
          /\ k.due = w.due /\ k.n = w.n /\ k.home = w.home
      BY <3>1, LateKept
    <3>3. QED BY <2>1, <2>3, <3>1, <3>2 DEF Prepared
  <2>4. QED BY <2>1, <2>2, <2>3 DEF Hands
<1>2. QED BY <1>1 DEF Hands

\* Steps that leave the tables as they are.
LEMMA TablesKept ==
  ASSUME Stocked, NEW p \in Clerks, NEW j, Hands(p, j), UNCHANGED Data, edits' \in 0..MaxEdits,
         unsure' \subseteq Developers, cut' \subseteq Units
  PROVE  Stocked'
<1>1. CatalogueTyped'
  BY DEF Stocked, CatalogueTyped, Hands, Data
<1>2. CompoundKeys' /\ UnitKeys'
  BY DEF Stocked, CompoundKeys, UnitKeys, Data
<1>3. \A q \in Clerks : Prepared(work'[q])
  BY OthersPrepared
<1>4. QED BY <1>1, <1>2, <1>3 DEF Stocked

StillDue(j) == {j.due[i] : i \in DOMAIN j.due}

LEMMA Dues ==
  /\ \A j \in Work : StillDue(j) \subseteq Developers
  /\ \A j \in Work : j.due = <<>> => StillDue(j) = {}
  /\ \A j \in Work : j.due # <<>> => /\ Head(j.due) \in Developers /\ Tail(j.due) \in Seq(Developers)
                                     /\ \A d \in StillDue(j) : d = Head(j.due)
                                           \/ \E i \in DOMAIN Tail(j.due) : d = Tail(j.due)[i]
<1>1. ASSUME NEW j \in Work PROVE j.due \in Seq(Developers)
  BY DEF Work
<1>2. \A j \in Work : StillDue(j) \subseteq Developers /\ (j.due = <<>> => StillDue(j) = {})
  BY <1>1 DEF StillDue
<1>3. ASSUME NEW s \in Seq(Developers), s # <<>>
      PROVE  /\ Head(s) \in Developers /\ Tail(s) \in Seq(Developers)
             /\ \A i \in DOMAIN s : s[i] = Head(s) \/ \E k \in DOMAIN Tail(s) : s[i] = Tail(s)[k]
  <2>1. Head(s) \in Developers /\ Tail(s) \in Seq(Developers) /\ Len(s) \in Nat /\ Len(Tail(s)) = Len(s) - 1
    BY <1>3
  <2>2. ASSUME NEW i \in DOMAIN s, i # 1 PROVE \E k \in DOMAIN Tail(s) : s[i] = Tail(s)[k]
    <3>1. i - 1 \in 1..Len(s) - 1 /\ i \in 1..Len(s)
      BY <1>3, <2>1, <2>2
    <3>2. i - 1 \in DOMAIN Tail(s) /\ Tail(s)[i - 1] = s[i]
      BY <1>3, <2>1, <3>1
    <3>3. QED BY <3>2
  <2>3. s[1] = Head(s)
    BY <1>3
  <2>4. QED BY <2>1, <2>2, <2>3
<1>4. QED BY <1>1, <1>2, <1>3 DEF StillDue

LEMMA Ending ==
  ASSUME Stocked, NEW p \in Clerks, Ends(p)
  PROVE  Hands(p, NoWork)
  BY NoWorkTyped, HandsOver DEF Ends

\* The requests, and the removal of a listing.
Begun(p) ==
    \/ \E c \in Compounds :
          \/ \E d \in Developers, a \in Areas, active \in BOOLEAN : CreateCompound(p, c, d, a, active)
          \/ \E dto \in Patches : UpdateCompound(p, c, dto)
          \/ RemoveCompound(p, c)
          \/ \E u \in Units : CreateUnit(p, u, c) \/ MoveUnit(p, u, c)
    \/ \E x \in Parents : \/ CreateParent(p, x) \/ RemoveParent(p, x)
                          \/ \E active \in BOOLEAN : UpdateParent(p, x, active)

LEMMA Beginnings ==
  ASSUME Stocked, NEW p \in Clerks, Begun(p)
  PROVE  /\ UNCHANGED <<Data, unsure, cut>> /\ edits' \in 0..MaxEdits
         /\ work[p].at = "idle" /\ work[p].due = <<>>
         /\ \E j : Hands(p, j) /\ j.at \in {"relations", "write", "links", "find"} /\ j.due = <<>>
                   /\ work' = [work EXCEPT ![p] = j]
<1>0. /\ \A c \in Compounds : compound[c].here => compound[c].by \in Developers \ {Blank}
      /\ \A c \in Compounds : c # Blank
      /\ \A dto \in Patches : dto.by \in Developers \cup {Blank} /\ dto.in \in Areas \cup {Blank}
                              /\ dto.active \in BOOLEAN \cup {Blank}
      /\ \A d \in Developers \cup Areas : d # Blank
  BY DEF Stocked, CatalogueTyped, CompoundKeys, Compound
<1>1. ASSUME NEW j, Begins(p, j), j \in Work, Prepared(j), j.at \in {"relations", "write", "links", "find"}
      PROVE  /\ UNCHANGED <<Data, unsure, cut>> /\ edits' \in 0..MaxEdits
             /\ work[p].at = "idle" /\ work[p].due = <<>>
             /\ \E k : Hands(p, k) /\ k.at \in {"relations", "write", "links", "find"} /\ k.due = <<>>
                       /\ work' = [work EXCEPT ![p] = k]
  <2>1. UNCHANGED <<Data, unsure, cut>> /\ work' = [work EXCEPT ![p] = j] /\ work[p].at = "idle"
        /\ edits' \in 0..MaxEdits
    BY <1>1 DEF Begins, Stage, Stocked, CatalogueTyped
  <2>2. Prepared(work[p])
    BY DEF Stocked
  <2>3. j.due = <<>> /\ work[p].due = <<>>
    BY <1>1, <2>1, <2>2 DEF Prepared
  <2>4. Hands(p, j)
    BY <1>1, <2>1, HandsOver
  <2>5. QED BY <1>1, <2>1, <2>3, <2>4
<1> DEFINE Goal == /\ UNCHANGED <<Data, unsure, cut>> /\ edits' \in 0..MaxEdits
                   /\ work[p].at = "idle" /\ work[p].due = <<>>
                   /\ \E k : Hands(p, k) /\ k.at \in {"relations", "write", "links", "find"} /\ k.due = <<>>
                             /\ work' = [work EXCEPT ![p] = k]
<1>2. ASSUME NEW c \in Compounds, NEW d \in Developers, NEW a \in Areas, NEW active \in BOOLEAN,
             CreateCompound(p, c, d, a, active)
      PROVE  Goal
  <2>1. PICK j : j = [NoWork EXCEPT !.at = "relations", !.id = c, !.new = TRUE, !.by = d, !.in = a, !.active = active]
    OBVIOUS
  <2>2. /\ j \in Work /\ j.at = "relations" /\ j.id = c /\ j.new = TRUE /\ j.by = d /\ j.in = a
        /\ j.was = Blank /\ j.due = <<>> /\ j.home = Blank
    BY <1>0, <2>1, NoWorkTyped DEF Work, Stages
  <2>3. Prepared(j)
    BY <1>0, <2>2 DEF Prepared, Parents
  <2>4. QED BY <1>1, <1>2, <2>1, <2>2, <2>3 DEF CreateCompound
<1>3. ASSUME NEW c \in Compounds, NEW dto \in Patches, UpdateCompound(p, c, dto) PROVE Goal
  <2>1. PICK j : j = [NoWork EXCEPT !.at = "relations", !.id = c, !.by = dto.by, !.in = dto.in,
                                !.active = dto.active, !.was = compound[c].by]
    OBVIOUS
  <2>2. /\ j \in Work /\ j.at = "relations" /\ j.id = c /\ j.new = FALSE /\ j.by = dto.by /\ j.in = dto.in
        /\ j.was = compound[c].by /\ j.due = <<>> /\ j.home = Blank
    BY <1>0, <1>3, <2>1, NoWorkTyped DEF Work, Stages, UpdateCompound
  <2>3. Prepared(j)
    BY <1>0, <1>3, <2>2 DEF Prepared, Parents, UpdateCompound
  <2>4. QED BY <1>1, <1>3, <2>1, <2>2, <2>3 DEF UpdateCompound
<1>4. ASSUME NEW c \in Compounds, RemoveCompound(p, c) PROVE Goal
  <2>1. PICK j : j = [NoWork EXCEPT !.at = "links", !.id = c, !.was = compound[c].by]
    OBVIOUS
  <2>2. /\ j \in Work /\ j.at = "links" /\ j.id = c /\ j.new = FALSE /\ j.by = Blank /\ j.in = Blank
        /\ j.was = compound[c].by /\ j.due = <<>> /\ j.home = Blank
    BY <1>0, <1>4, <2>1, NoWorkTyped DEF Work, Stages, RemoveCompound
  <2>3. Prepared(j)
    BY <1>0, <1>4, <2>2 DEF Prepared, Parents, RemoveCompound
  <2>4. QED BY <1>1, <1>4, <2>1, <2>2, <2>3 DEF RemoveCompound
<1>5. ASSUME NEW c \in Compounds, NEW u \in Units, CreateUnit(p, u, c) \/ MoveUnit(p, u, c) PROVE Goal
  <2>1. ASSUME NEW j, Begins(p, j), j \in Work, j.at = "find", j.id = u, j.home = c, j.due = <<>>
        PROVE  Goal
    <3>1. Prepared(j)
      BY <1>0, <2>1 DEF Prepared
    <3>2. QED BY <1>1, <2>1, <3>1
  <2>2. CASE CreateUnit(p, u, c)
    <3>1. PICK j : j = [NoWork EXCEPT !.at = "find", !.id = u, !.new = TRUE, !.home = c]
      OBVIOUS
    <3>2. j \in Work /\ j.at = "find" /\ j.id = u /\ j.home = c /\ j.due = <<>>
      BY <3>1, NoWorkTyped DEF Work, Stages
    <3>3. QED BY <2>1, <2>2, <3>1, <3>2 DEF CreateUnit
  <2>3. CASE MoveUnit(p, u, c)
    <3>1. PICK j : j = [NoWork EXCEPT !.at = "find", !.id = u, !.home = c]
      OBVIOUS
    <3>2. j \in Work /\ j.at = "find" /\ j.id = u /\ j.home = c /\ j.due = <<>>
      BY <3>1, NoWorkTyped DEF Work, Stages
    <3>3. QED BY <2>1, <2>3, <3>1, <3>2 DEF MoveUnit
  <2>4. QED BY <1>5, <2>2, <2>3
<1>6. ASSUME NEW x \in Parents, CreateParent(p, x) PROVE Goal
  <2>1. PICK j : j = [NoWork EXCEPT !.at = "write", !.id = x, !.new = TRUE, !.active = TRUE]
    OBVIOUS
  <2>2. /\ j \in Work /\ j.at = "write" /\ j.id = x /\ j.new = TRUE /\ j.by = Blank /\ j.in = Blank
        /\ j.was = Blank /\ j.due = <<>> /\ j.home = Blank
    BY <1>0, <2>1, NoWorkTyped DEF Work, Stages
  <2>3. Prepared(j)
    BY <1>0, <2>2 DEF Prepared, Parents
  <2>4. QED BY <1>1, <1>6, <2>1, <2>2, <2>3 DEF CreateParent
<1>7. ASSUME NEW x \in Parents, NEW active \in BOOLEAN, UpdateParent(p, x, active) PROVE Goal
  <2>1. PICK j : j = [NoWork EXCEPT !.at = "write", !.id = x, !.active = active]
    OBVIOUS
  <2>2. /\ j \in Work /\ j.at = "write" /\ j.id = x /\ j.new = FALSE /\ j.by = Blank /\ j.in = Blank
        /\ j.was = Blank /\ j.due = <<>> /\ j.home = Blank
    BY <1>0, <2>1, NoWorkTyped DEF Work, Stages
  <2>3. Prepared(j)
    BY <1>0, <2>2 DEF Prepared, Parents
  <2>4. QED BY <1>1, <1>7, <2>1, <2>2, <2>3 DEF UpdateParent
<1>8. ASSUME NEW x \in Parents, RemoveParent(p, x) PROVE Goal
  <2>1. PICK j : j = [NoWork EXCEPT !.at = "links", !.id = x]
    OBVIOUS
  <2>2. /\ j \in Work /\ j.at = "links" /\ j.id = x /\ j.new = FALSE /\ j.by = Blank /\ j.in = Blank
        /\ j.was = Blank /\ j.due = <<>> /\ j.home = Blank
    BY <1>0, <2>1, NoWorkTyped DEF Work, Stages
  <2>3. Prepared(j)
    BY <1>0, <2>2 DEF Prepared, Parents
  <2>4. QED BY <1>1, <1>8, <2>1, <2>2, <2>3 DEF RemoveParent
<1>9. QED BY <1>2, <1>3, <1>4, <1>5, <1>6, <1>7, <1>8 DEF Begun

LEMMA PutKeeps ==
  ASSUME Stocked, NEW p \in Clerks, NEW c \in Compounds, NEW d \in Compound, NEW next \in Work,
         Prepared(next), PutCompound(p, c, d, next), d.here \/ d = NoCompound,
         d.here => /\ d.by # Blank /\ d.in # Blank /\ parent[d.by] # "none" /\ parent[d.in] # "none"
  PROVE  /\ Hands(p, next) /\ compound' = [compound EXCEPT ![c] = d]
         /\ unsure' \subseteq unsure \cup ({compound[c].by} \ {next.was})
         /\ unsure \subseteq unsure'
         /\ UNCHANGED parent => CompoundKeys'
<1>1. work \in [Clerks -> Work] /\ compound \in [Compounds -> Compound]
  BY DEF Stocked, CatalogueTyped
<1>2. ASSUME NEW j \in Work PROVE [j EXCEPT !.late = TRUE] \in Work
  BY LateKept
<1>3. Hands(p, next)
  BY <1>1, <1>2 DEF PutCompound, Hands
<1>4. compound' = [compound EXCEPT ![c] = d] /\ unsure' = unsure \cup ({compound[c].by} \ {next.was})
  BY DEF PutCompound
<1>5. UNCHANGED parent => CompoundKeys'
  BY <1>1, <1>4, Vacant DEF CompoundKeys, Stocked
<1>6. QED BY <1>3, <1>4, <1>5

\* The steps of a request that is under way.
Continues(p) ==
    \/ CheckRelations(p) \/ WriteCompound(p) \/ CountProjects(p) \/ PutProjects(p)
    \/ WriteParent(p) \/ CountLinks(p) \/ RemoveWhat(p) \/ RemoveListed(p)
    \/ FindCompound(p) \/ WriteUnit(p) \/ FailEdit(p)

LEMMA Throwing ==
  ASSUME Stocked, NEW p \in Clerks, Throws(p)
  PROVE  Hands(p, NoWork) /\ unsure' \subseteq Developers /\ unsure' = unsure \cup StillDue(work[p])
  BY Ending, Dues DEF Throws, StillDue, Stocked, CatalogueTyped

\* What a compound becomes, and whom it is counted for.
LEMMA CompoundWritten ==
  ASSUME Stocked, NEW p \in Clerks, Stage(p, "write"), work[p].id \in Compounds,
         compound[work[p].id].here # work[p].new
  PROVE  LET j == work[p]
             d == Patched(compound[j.id], j)
         IN  /\ d \in Compound /\ d.here /\ d.by \in Developers /\ d.in \in Areas
             /\ Synced(j) \in Seq(Developers) /\ Synced(j) # <<>>
             /\ \A x \in {compound[j.id].by, d.by} : \/ x = Blank
                                                   \/ \E i \in DOMAIN Synced(j) : Synced(j)[i] = x
                                                   \/ (x = compound[j.id].by /\ x # j.was)
<1>1. PICK j \in Work : j = work[p] /\ Prepared(j) /\ j.at = "write"
  BY DEF Stocked, CatalogueTyped, Stage
<1>2. PICK c \in Compound : c = compound[j.id]
  BY <1>1 DEF Stocked, CatalogueTyped
<1>3. IF c.here THEN c.by \in Developers /\ c.in \in Areas ELSE c.by = Blank /\ c.in = Blank
  BY <1>1, <1>2, Vacant DEF Stocked, CompoundKeys, Compound
<1>4. j.by \in Developers \cup {Blank} /\ j.in \in Areas \cup {Blank} /\ j.was \in Developers \cup {Blank}
      /\ j.new \in BOOLEAN /\ c.here \in BOOLEAN /\ c.active \in BOOLEAN /\ j.active \in BOOLEAN \cup {Blank}
  BY <1>1, <1>2 DEF Work, Compound
<1>5. IF j.new THEN j.by \in Developers /\ j.in \in Areas /\ j.was = Blank ELSE j.was \in Developers
  BY <1>1, <1>4 DEF Prepared
<1>6. c.here = ~j.new
  BY <1>1, <1>2, <1>4
<1>7. PICK d : d = Patched(c, j)
  OBVIOUS
<1>8. d.by = Named(j.by, c.by) /\ d.by \in Developers /\ d.in = Named(j.in, c.in) /\ d.in \in Areas /\ d.here
      /\ d \in Compound
  BY <1>3, <1>4, <1>5, <1>6, <1>7 DEF Patched, Named, Compound
<1>9. Named(j.by, j.was) \in Developers
  BY <1>4, <1>5 DEF Named
<1>10. CASE j.by # Blank /\ j.was \notin {Blank, j.by}
  <2>1. Synced(j) = <<j.by, j.was>>
    BY <1>10 DEF Synced
  <2>2. d.by = j.by /\ j.by \in Developers /\ j.was \in Developers
    BY <1>4, <1>8, <1>10 DEF Named
  <2>3. /\ Synced(j) \in Seq(Developers) /\ Synced(j) # <<>> /\ 1 \in DOMAIN Synced(j) /\ 2 \in DOMAIN Synced(j)
        /\ Synced(j)[1] = j.by /\ Synced(j)[2] = j.was
    BY <2>1, <2>2
  <2>4. \A x \in {c.by, d.by} : \/ x = Blank
                               \/ \E i \in DOMAIN Synced(j) : Synced(j)[i] = x
                               \/ (x = c.by /\ x # j.was)
    BY <2>2, <2>3
  <2>5. QED BY <1>1, <1>2, <1>7, <1>8, <2>3, <2>4
<1>11. CASE ~(j.by # Blank /\ j.was \notin {Blank, j.by})
  <2>1. Synced(j) = <<Named(j.by, j.was)>>
    BY <1>11 DEF Synced
  <2>2. d.by = Named(j.by, j.was) \/ (d.by = c.by /\ d.by # j.was)
    BY <1>8 DEF Named
  <2>3. c.by = Blank \/ c.by = Named(j.by, j.was) \/ c.by # j.was
    BY <1>11 DEF Named
  <2>4. /\ Synced(j) \in Seq(Developers) /\ Synced(j) # <<>> /\ 1 \in DOMAIN Synced(j)
        /\ Synced(j)[1] = Named(j.by, j.was)
    BY <1>9, <2>1
  <2>5. \A x \in {c.by, d.by} : \/ x = Blank
                               \/ \E i \in DOMAIN Synced(j) : Synced(j)[i] = x
                               \/ (x = c.by /\ x # j.was)
    BY <2>2, <2>3, <2>4
  <2>6. QED BY <1>1, <1>2, <1>7, <1>8, <2>4, <2>5
<1>12. QED BY <1>10, <1>11

-----------------------------------------------------------------------------
(* Counts, and the compounds of listings *)

\* A number in hand that is not marked late is still the count.
CountOf(j) == j.at = "put" /\ ~j.late => j.n = Running(Head(j.due))
\* A compound found without listings that is not marked late has none yet.
LinksOf(j) == j.at = "remove" /\ j.id \in Compounds /\ ~j.linked /\ ~j.late => LivesIn(j.id) = {}

Promised == CatalogueHolds /\ \A q \in Clerks : CountOf(work[q]) /\ LinksOf(work[q])

LEMMA PromiseKept ==
  ASSUME Stocked, Promised, NEW p \in Clerks, NEW j, Hands(p, j), CountOf(j)', LinksOf(j)',
         \A d \in Developers : \/ Running(d)' = Running(d)
                               \/ \A q \in Clerks \ {p} : work[q].at = "put" /\ Head(work[q].due) = d => work'[q].late,
         \A c \in Compounds : \/ LivesIn(c)' \subseteq LivesIn(c)
                              \/ \A q \in Clerks \ {p} : work[q].at = "remove" /\ work[q].id = c => work'[q].late,
         \A d \in Developers : parent'[d] # "none" /\ d \notin unsure' =>
            \/ projects'[d] = Running(d)' \/ d \in StillDue(j)
            \/ /\ parent[d] # "none" /\ d \notin unsure /\ projects'[d] = projects[d]
               /\ Running(d)' = Running(d) /\ d \notin StillDue(work[p]),
         ListingsKeepCompound'
  PROVE  Promised'
<1>1. /\ work' \in [Clerks -> Work] /\ work'[p] = j /\ work \in [Clerks -> Work]
      /\ \A q \in Clerks \ {p} :
               /\ work'[q].at = work[q].at /\ work'[q].id = work[q].id /\ work'[q].linked = work[q].linked
               /\ work'[q].due = work[q].due /\ work'[q].n = work[q].n
               /\ work[q].late => work'[q].late
  BY OthersPrepared DEF Hands, Stocked, CatalogueTyped
<1>2. ASSUME NEW q \in Clerks PROVE (CountOf(work[q]) /\ LinksOf(work[q]))'
  <2>1. CASE q = p
    BY <1>1, <2>1 DEF CountOf, LinksOf
  <2>2. CASE q # p
    <3>0. PICK w : w = work[q]
      OBVIOUS
    <3>1. w \in Work /\ Prepared(w) /\ CountOf(w) /\ LinksOf(w)
      BY <1>1, <3>0 DEF Stocked, Promised
    <3>2. PICK k : k = work'[q]
      OBVIOUS
    <3>3. /\ k.at = w.at /\ k.id = w.id /\ k.linked = w.linked /\ k.due = w.due /\ k.n = w.n
          /\ w.late => k.late
      BY <1>1, <2>2, <3>0, <3>2
    <3>4. CountOf(k)'
      <4> SUFFICES ASSUME k.at = "put", ~k.late PROVE k.n = Running(Head(k.due))'
        BY DEF CountOf
      <4>1. Head(w.due) \in Developers
        BY <3>1, <3>3, Dues DEF Prepared
      <4>2. PICK d \in Developers : d = Head(w.due)
        BY <4>1
      <4>3. Running(d)' = Running(d)
        BY <2>2, <3>0, <3>2, <3>3, <4>2
      <4>4. w.n = Running(d)
        BY <3>1, <3>3, <4>2 DEF CountOf
      <4>5. QED BY <3>3, <4>2, <4>3, <4>4
    <3>5. LinksOf(k)'
      BY <2>2, <3>0, <3>1, <3>2, <3>3 DEF LinksOf
    <3>6. QED BY <3>2, <3>4, <3>5
  <2>3. QED BY <2>1, <2>2
<1>3. ProjectsCounted'
  <2> SUFFICES ASSUME NEW d \in Developers, parent'[d] # "none", d \notin unsure'
               PROVE  \/ projects'[d] = Running(d)'
                      \/ \E q \in Clerks : d \in StillDue(work'[q])
    BY DEF ProjectsCounted, StillDue
  <2>1. CASE d \in StillDue(j)
    BY <1>1, <2>1
  <2>2. CASE /\ parent[d] # "none" /\ d \notin unsure /\ projects'[d] = projects[d]
             /\ Running(d)' = Running(d) /\ d \notin StillDue(work[p])
    <3>1. projects[d] = Running(d) \/ \E q \in Clerks : d \in StillDue(work[q])
      BY <2>2 DEF Promised, CatalogueHolds, ProjectsCounted, StillDue
    <3>2. \A q \in Clerks \ {p} : StillDue(work'[q]) = StillDue(work[q])
      BY <1>1 DEF StillDue
    <3>3. QED BY <2>2, <3>1, <3>2
  <2>3. QED BY <2>1, <2>2
<1>4. QED BY <1>2, <1>3 DEF Promised, CatalogueHolds

\* Steps that change no table.
LEMMA QuietStep ==
  ASSUME Stocked, Promised, NEW p \in Clerks, NEW j, Hands(p, j), UNCHANGED <<Data, cut>>, edits' \in 0..MaxEdits,
         CountOf(j), LinksOf(j), unsure \subseteq unsure', unsure' \subseteq Developers,
         \A d \in StillDue(work[p]) : d \in StillDue(j) \/ d \in unsure'
  PROVE  Stocked' /\ Promised'
<1>1. Stocked'
  BY TablesKept DEF Stocked, CatalogueTyped
<1>2. (\A d : Running(d)' = Running(d)) /\ (\A c : LivesIn(c)' = LivesIn(c))
  BY DEF Data, Running, Of, LivesIn
<1>3. CountOf(j)' /\ LinksOf(j)'
  BY <1>2 DEF CountOf, LinksOf
<1>4. ListingsKeepCompound'
  BY DEF Promised, CatalogueHolds, ListingsKeepCompound, Data
<1>5. \A d \in Developers : parent'[d] # "none" /\ d \notin unsure' =>
            \/ projects'[d] = Running(d)' \/ d \in StillDue(j)
            \/ /\ parent[d] # "none" /\ d \notin unsure /\ projects'[d] = projects[d]
               /\ Running(d)' = Running(d) /\ d \notin StillDue(work[p])
  BY <1>2 DEF Data
<1>6. QED BY <1>1, <1>2, <1>3, <1>4, <1>5, PromiseKept

LEMMA IdleInHand == CountOf(NoWork) /\ LinksOf(NoWork)
  BY NoWorkTyped DEF CountOf, LinksOf

LEMMA BegunKeeps ==
  ASSUME Stocked, Promised, NEW p \in Clerks, Begun(p)
  PROVE  Stocked' /\ Promised'
<1>1. PICK j : Hands(p, j) /\ j.at \in {"relations", "write", "links", "find"} /\ j.due = <<>>
  BY Beginnings
<1>2. UNCHANGED <<Data, unsure, cut>> /\ edits' \in 0..MaxEdits /\ work[p].due = <<>>
  BY Beginnings
<1>3. CountOf(j) /\ LinksOf(j)
  BY <1>1 DEF CountOf, LinksOf
<1>4. StillDue(work[p]) = {}
  BY <1>2 DEF StillDue
<1>5. unsure' \subseteq Developers
  BY <1>2 DEF Stocked, CatalogueTyped
<1>6. QED BY <1>1, <1>2, <1>3, <1>4, <1>5, QuietStep

\* A request that has nothing to count goes on, or ends.
LEMMA LooksUp ==
  ASSUME IsFiniteSet(Compounds), Stocked, Promised, NEW p \in Clerks,
         CheckRelations(p) \/ CountProjects(p) \/ CountLinks(p) \/ FindCompound(p) \/ FailEdit(p)
  PROVE  Stocked' /\ Promised'
<1>1. PICK w \in Work : w = work[p] /\ Prepared(w)
  BY DEF Stocked, CatalogueTyped
<1>2. UNCHANGED <<Data, cut>> /\ edits' \in 0..MaxEdits /\ unsure \subseteq Developers
  BY DEF CheckRelations, CountProjects, CountLinks, FindCompound, FailEdit, Stocked, CatalogueTyped
<1>3. CASE Ends(p) /\ unsure' = unsure /\ w.due = <<>>
  BY <1>1, <1>2, <1>3, Ending, IdleInHand, Dues, QuietStep
<1>4. ASSUME NEW label \in Stages, Moves(p, label), unsure' = unsure, w.at \notin {"count", "put"},
             label \notin {"count", "put", "remove"}, Prepared([w EXCEPT !.at = label])
      PROVE  Stocked' /\ Promised'
  <2>1. PICK j : j = [w EXCEPT !.at = label]
    OBVIOUS
  <2>2. j \in Work /\ j.at = label /\ Prepared(j) /\ j.due = <<>> /\ w.due = <<>>
    BY <1>1, <1>4, <2>1 DEF Work, Prepared
  <2>3. work' = [work EXCEPT ![p] = j]
    BY <1>1, <1>4, <2>1 DEF Moves
  <2>4. Hands(p, j) /\ CountOf(j) /\ LinksOf(j)
    BY <1>4, <2>2, <2>3, HandsOver DEF CountOf, LinksOf
  <2>5. QED BY <1>1, <1>2, <1>4, <2>2, <2>4, Dues, QuietStep
<1>5. CASE CheckRelations(p)
  <2>1. w.at = "relations" /\ unsure' = unsure /\ w.due = <<>> /\ w.at \notin {"count", "put"}
    BY <1>1, <1>5 DEF CheckRelations, Stage, Prepared
  <2>2. Prepared([w EXCEPT !.at = "write"])
    <3>1. PICK j : j = [w EXCEPT !.at = "write"]
      OBVIOUS
    <3>2. j \in Work /\ j.at = "write" /\ j.id = w.id /\ j.new = w.new /\ j.by = w.by /\ j.in = w.in
          /\ j.was = w.was /\ j.due = w.due
      BY <1>1, <3>1 DEF Work, Stages
    <3>3. QED BY <1>1, <2>1, <3>1, <3>2 DEF Prepared
  <2>3. CASE Moves(p, "write")
    BY <1>4, <2>1, <2>2, <2>3 DEF Stages
  <2>4. CASE Ends(p)
    BY <1>3, <2>1, <2>4
  <2>5. QED BY <1>5, <2>3, <2>4 DEF CheckRelations
<1>6. CASE FindCompound(p)
  <2>1. w.at = "find" /\ unsure' = unsure /\ w.due = <<>> /\ w.at \notin {"count", "put"}
    BY <1>1, <1>6 DEF FindCompound, Stage, Prepared
  <2>2. Prepared([w EXCEPT !.at = "insert"])
    <3>1. PICK j : j = [w EXCEPT !.at = "insert"]
      OBVIOUS
    <3>2. j \in Work /\ j.at = "insert" /\ j.id = w.id /\ j.home = w.home /\ j.due = w.due
      BY <1>1, <3>1 DEF Work, Stages
    <3>3. QED BY <1>1, <2>1, <3>1, <3>2 DEF Prepared
  <2>3. CASE Moves(p, "insert")
    BY <1>4, <2>1, <2>2, <2>3 DEF Stages
  <2>4. CASE Ends(p)
    BY <1>3, <2>1, <2>4
  <2>5. QED BY <1>6, <2>3, <2>4 DEF FindCompound
<1>7. CASE CountProjects(p)
  <2>1. PICK n \in Nat : n = Running(Head(w.due))
    BY RunningCounts
  <2>2. PICK j : j = [w EXCEPT !.at = "put", !.n = n, !.late = FALSE]
    OBVIOUS
  <2>3. w.at = "count" /\ work' = [work EXCEPT ![p] = j] /\ unsure' = unsure
    BY <1>1, <1>7, <2>1, <2>2 DEF CountProjects, Stage
  <2>4. j \in Work /\ j.at = "put" /\ j.due = w.due /\ j.n = n
    BY <1>1, <2>2 DEF Work, Stages
  <2>5. Prepared(j) /\ CountOf(j) /\ LinksOf(j)
    BY <1>1, <2>1, <2>3, <2>4 DEF Prepared, CountOf, LinksOf
  <2>6. StillDue(j) = StillDue(w)
    BY <2>4 DEF StillDue
  <2>7. QED BY <1>1, <1>2, <2>3, <2>4, <2>5, <2>6, HandsOver, QuietStep
<1>8. CASE CountLinks(p)
  <2>1. PICK l \in BOOLEAN : l = (LinkedTo(w.id) # {})
    OBVIOUS
  <2>2. PICK j : j = [w EXCEPT !.at = "remove", !.linked = l]
    OBVIOUS
  <2>3. w.at = "links" /\ work' = [work EXCEPT ![p] = j] /\ unsure' = unsure
    BY <1>1, <1>8, <2>1, <2>2 DEF CountLinks, Stage
  <2>4. j \in Work /\ j.at = "remove" /\ j.due = w.due /\ j.linked = l /\ j.id = w.id /\ j.new = w.new /\ j.was = w.was
    BY <1>1, <2>2 DEF Work, Stages
  <2>5. Prepared(j) /\ w.due = <<>>
    BY <1>1, <2>3, <2>4 DEF Prepared
  <2>6. CountOf(j) /\ LinksOf(j)
    BY <2>1, <2>4 DEF CountOf, LinksOf, LinkedTo
  <2>7. QED BY <1>1, <1>2, <2>3, <2>4, <2>5, <2>6, HandsOver, Dues, QuietStep
<1>9. CASE FailEdit(p)
  BY <1>1, <1>2, <1>9, Throwing, IdleInHand, QuietStep DEF FailEdit
<1>10. QED BY <1>5, <1>6, <1>7, <1>8, <1>9

LEMMA PutProjectsKeeps ==
  ASSUME Stocked, Promised, NEW p \in Clerks, PutProjects(p)
  PROVE  Stocked' /\ Promised'
<1>1. PICK w \in Work : w = work[p] /\ Prepared(w) /\ w.at = "put" /\ CountOf(w)
  BY DEF Stocked, CatalogueTyped, PutProjects, Stage, Promised
<1>2. PICK d \in Developers, rest \in Seq(Developers) : d = Head(w.due) /\ rest = Tail(w.due)
  BY <1>1, Dues DEF Prepared
<1>3. \A x \in StillDue(w) : x = d \/ \E i \in DOMAIN rest : x = rest[i]
  BY <1>1, <1>2, Dues DEF Prepared
<1>4. UNCHANGED <<parent, compound, unit, edits, cut>>
  BY DEF PutProjects
<1>5. CASE Throws(p) /\ UNCHANGED projects
  <2>1. edits' \in 0..MaxEdits
    BY <1>4 DEF Stocked, CatalogueTyped
  <2>2. QED BY <1>1, <1>4, <1>5, <2>1, Throwing, IdleInHand, QuietStep DEF Data
<1>6. CASE /\ projects' = [projects EXCEPT ![d] = w.n]
           /\ unsure' = IF w.late THEN unsure \cup {d} ELSE unsure \ {d}
           /\ IF rest = <<>> THEN Ends(p)
              ELSE work' = [work EXCEPT ![p].at = "count", ![p].due = rest]
  <2>1. PICK j \in Work : Hands(p, j) /\ CountOf(j) /\ LinksOf(j) /\ \A i \in DOMAIN rest : rest[i] \in StillDue(j)
    <3>1. CASE rest = <<>>
      BY <1>6, <3>1, Ending, IdleInHand, NoWorkTyped
    <3>2. CASE rest # <<>>
      <4>1. PICK j : j = [w EXCEPT !.at = "count", !.due = rest]
        OBVIOUS
      <4>2. j \in Work /\ j.at = "count" /\ j.due = rest
        BY <1>1, <4>1 DEF Work, Stages
      <4>3. Prepared(j) /\ CountOf(j) /\ LinksOf(j)
        BY <3>2, <4>2 DEF Prepared, CountOf, LinksOf
      <4>4. work' = [work EXCEPT ![p] = j]
        BY <1>1, <1>6, <3>2, <4>1
      <4>5. QED BY <4>2, <4>3, <4>4, HandsOver DEF StillDue
    <3>3. QED BY <3>1, <3>2
  <2>2. unsure' \subseteq Developers /\ projects' \in [Developers -> Nat]
    BY <1>1, <1>6 DEF Stocked, CatalogueTyped, Work
  <2>3. Stocked'
    <3>1. CatalogueTyped'
      BY <1>4, <2>1, <2>2 DEF Stocked, CatalogueTyped, Hands
    <3>2. CompoundKeys' /\ UnitKeys'
      BY <1>4 DEF Stocked, CompoundKeys, UnitKeys
    <3>3. QED BY <2>1, <3>1, <3>2, OthersPrepared DEF Stocked
  <2>4. (\A x : Running(x)' = Running(x)) /\ (\A c : LivesIn(c)' = LivesIn(c))
    BY <1>4 DEF Running, Of, LivesIn
  <2>5. CountOf(j)' /\ LinksOf(j)'
    BY <2>1, <2>4 DEF CountOf, LinksOf
  <2>6. ListingsKeepCompound'
    BY <1>4 DEF Promised, CatalogueHolds, ListingsKeepCompound
  <2>7. ASSUME NEW x \in Developers, parent'[x] # "none", x \notin unsure'
        PROVE  \/ projects'[x] = Running(x)' \/ x \in StillDue(j)
               \/ /\ parent[x] # "none" /\ x \notin unsure /\ projects'[x] = projects[x]
                  /\ Running(x)' = Running(x) /\ x \notin StillDue(work[p])
    <3>1. CASE x = d
      <4>1. ~w.late
        BY <1>6, <2>7, <3>1
      <4>2. w.n = Running(d)
        BY <1>1, <1>2, <4>1 DEF CountOf
      <4>3. projects'[d] = w.n
        BY <1>6 DEF Stocked, CatalogueTyped
      <4>4. QED BY <2>4, <3>1, <4>2, <4>3
    <3>2. CASE x # d
      <4>1. projects'[x] = projects[x] /\ x \notin unsure
        BY <1>6, <2>7, <3>2 DEF Stocked, CatalogueTyped
      <4>2. x \in StillDue(w) => x \in StillDue(j)
        BY <1>3, <2>1, <3>2
      <4>3. QED BY <1>1, <1>4, <2>4, <2>7, <4>1, <4>2
    <3>3. QED BY <3>1, <3>2
  <2>8. QED BY <2>1, <2>3, <2>4, <2>5, <2>6, <2>7, PromiseKept
<1>7. QED BY <1>1, <1>2, <1>5, <1>6 DEF PutProjects

\* A compound that is written leaves a count due for every developer it is, or was, of.
LEMMA PlacedKeeps ==
  ASSUME Stocked, Promised, NEW p \in Clerks, work[p].due = <<>>,
         NEW c \in Compounds, NEW d \in Compound, NEW next \in Work, Prepared(next), next.at = "count",
         PutCompound(p, c, d, next), d.here \/ d = NoCompound,
         d.here => /\ d.by # Blank /\ d.in # Blank /\ parent[d.by] # "none" /\ parent[d.in] # "none",
         \A x \in {compound[c].by, d.by} : x = Blank \/ x \in StillDue(next) \/ (x = compound[c].by /\ x # next.was),
         compound[c].by = Blank => next.was = Blank,
         UNCHANGED <<parent, projects, edits>>, unit' \in [Units -> Unit], UnitKeys', ListingsKeepCompound',
         \A k \in Compounds : LivesIn(k)' \subseteq LivesIn(k), cut' \subseteq Units
  PROVE  Stocked' /\ Promised'
<1>1. /\ Hands(p, next) /\ compound' = [compound EXCEPT ![c] = d] /\ CompoundKeys'
      /\ unsure' = unsure \cup ({compound[c].by} \ {next.was})
  BY PutKeeps DEF PutCompound
<1>2. unsure' \subseteq Developers
  BY <1>1 DEF Stocked, CatalogueTyped, Compound
<1>3. Stocked'
  <2>1. CatalogueTyped'
    BY <1>1, <1>2 DEF Stocked, CatalogueTyped, Hands
  <2>2. QED BY <1>1, <2>1, OthersPrepared DEF Stocked
<1>4. CountOf(next)' /\ LinksOf(next)'
  BY DEF CountOf, LinksOf
<1>5. ASSUME NEW x \in Developers, x \notin {compound[c].by, d.by} PROVE Running(x)' = Running(x)
  <2>1. {k \in Of(x) : compound[k].active}' = {k \in Of(x) : compound[k].active}
    BY <1>1, <1>5 DEF Of, Stocked, CatalogueTyped
  <2>2. QED BY <2>1 DEF Running
<1>6. \A x \in Developers : \/ Running(x)' = Running(x)
                            \/ \A q \in Clerks \ {p} : work[q].at = "put" /\ Head(work[q].due) = x => work'[q].late
  <2>1. ASSUME NEW x \in Developers, x \in {compound[c].by, d.by}, NEW q \in Clerks \ {p},
               work[q].at = "put", Head(work[q].due) = x
        PROVE  work'[q].late
    <3>1. x \in {compound[c].by, d.by} \ {Blank}
      BY <2>1
    <3>2. work'[q] = [work[q] EXCEPT !.late = TRUE]
      BY <2>1, <3>1 DEF PutCompound, Stage
    <3>3. work[q] \in Work
      BY DEF Stocked, CatalogueTyped
    <3>4. QED BY <3>2, <3>3, LateKept
  <2>2. QED BY <1>5, <2>1
<1>7. ASSUME NEW x \in Developers, parent'[x] # "none", x \notin unsure'
      PROVE  \/ projects'[x] = Running(x)' \/ x \in StillDue(next)
             \/ /\ parent[x] # "none" /\ x \notin unsure /\ projects'[x] = projects[x]
                /\ Running(x)' = Running(x) /\ x \notin StillDue(work[p])
  <2>1. CASE x \in {compound[c].by, d.by}
    BY <1>1, <1>7, <2>1
  <2>2. CASE x \notin {compound[c].by, d.by}
    <3>1. x \notin StillDue(work[p])
      BY DEF StillDue
    <3>2. QED BY <1>1, <1>5, <1>7, <2>2, <3>1
  <2>3. QED BY <2>1, <2>2
<1>8. QED BY <1>1, <1>3, <1>4, <1>6, <1>7, PromiseKept

LEMMA WriteCompoundKeeps ==
  ASSUME Stocked, Promised, NEW p \in Clerks, WriteCompound(p)
  PROVE  Stocked' /\ Promised'
<1>1. PICK w \in Work : w = work[p] /\ Prepared(w) /\ w.at = "write" /\ w.id \in Compounds /\ w.due = <<>>
  BY DEF Stocked, CatalogueTyped, WriteCompound, Stage, Prepared
<1>2. UNCHANGED <<parent, projects, unit, edits, cut>>
  BY DEF WriteCompound
<1>3. CASE Ends(p) /\ UNCHANGED <<compound, unsure>>
  BY <1>1, <1>2, <1>3, Ending, IdleInHand, Dues, QuietStep DEF Data, Stocked, CatalogueTyped
<1>4. ASSUME NEW d, d = Patched(compound[w.id], w),
             compound[w.id].here # w.new, parent[d.by] # "none", parent[d.in] # "none",
             PutCompound(p, w.id, d, [w EXCEPT !.at = "count", !.due = Synced(w)])
      PROVE  Stocked' /\ Promised'
  <2>1. /\ d \in Compound /\ d.here /\ d.by \in Developers /\ d.in \in Areas
        /\ Synced(w) \in Seq(Developers) /\ Synced(w) # <<>>
        /\ \A x \in {compound[w.id].by, d.by} : \/ x = Blank
                                                \/ \E i \in DOMAIN Synced(w) : Synced(w)[i] = x
                                                \/ (x = compound[w.id].by /\ x # w.was)
    BY <1>1, <1>4, CompoundWritten DEF Stage
  <2>2. PICK s \in Seq(Developers) : s = Synced(w)
    BY <2>1
  <2>3. PICK j : j = [w EXCEPT !.at = "count", !.due = s]
    OBVIOUS
  <2>4. j \in Work /\ j.at = "count" /\ j.due = s /\ j.was = w.was
    BY <1>1, <2>3 DEF Work, Stages
  <2>5. Prepared(j)
    BY <2>1, <2>2, <2>4 DEF Prepared
  <2>6. \A x \in {compound[w.id].by, d.by} : x = Blank \/ x \in StillDue(j) \/ (x = compound[w.id].by /\ x # j.was)
    BY <2>1, <2>2, <2>4 DEF StillDue
  <2>7. compound[w.id].by = Blank => j.was = Blank
    BY <1>1, <1>4, <2>4 DEF Prepared, Stocked, CatalogueTyped, CompoundKeys, Work, Compound
  <2>8. PutCompound(p, w.id, d, j)
    BY <1>4, <2>2, <2>3
  <2>9. /\ UnitKeys' /\ ListingsKeepCompound' /\ unit' \in [Units -> Unit] /\ cut' \subseteq Units
        /\ \A k \in Compounds : LivesIn(k)' \subseteq LivesIn(k)
    <3>1. compound' = [compound EXCEPT ![w.id] = d]
      BY <2>8 DEF PutCompound
    <3>2. UnitKeys'
      BY <1>2, <2>1, <3>1 DEF Stocked, CatalogueTyped, UnitKeys, Unit
    <3>3. QED BY <1>2, <3>2 DEF Promised, CatalogueHolds, ListingsKeepCompound, LivesIn, Stocked, CatalogueTyped
  <2>10. d.by # Blank /\ d.in # Blank
    BY <2>1
  <2>11. QED BY <1>1, <1>2, <1>4, <2>1, <2>4, <2>5, <2>6, <2>7, <2>8, <2>9, <2>10, PlacedKeeps
<1>5. QED BY <1>1, <1>3, <1>4 DEF WriteCompound

\* A developer or an area is there as long as a compound is of it.
LEMMA ParentKeeps ==
  ASSUME Stocked, Promised, NEW p \in Clerks, work[p].due = <<>>, Ends(p),
         UNCHANGED <<compound, unit, edits, cut>>,
         parent' \in [Parents -> {"none", "active", "inactive"}],
         \A x \in Parents : parent'[x] = "none" /\ parent[x] # "none" => CompoundsOf(x) = {},
         projects' \in [Developers -> Nat], unsure' \subseteq unsure,
         \A d \in Developers : IF parent[d] = "none" /\ parent'[d] # "none" THEN projects'[d] = 0
                               ELSE projects'[d] = projects[d] /\ (d \in unsure => d \in unsure')
  PROVE  Stocked' /\ Promised'
<1>1. Hands(p, NoWork)
  BY Ending
<1>2. CompoundKeys'
  <2>1. \A c \in Compounds : compound[c].here =>
           compound[c].by \in Parents /\ compound[c].in \in Parents
    BY DEF Stocked, CatalogueTyped, CompoundKeys, Compound, Parents
  <2>2. \A c \in Compounds : compound[c].here => c \in CompoundsOf(compound[c].by) /\ c \in CompoundsOf(compound[c].in)
    BY DEF CompoundsOf
  <2>3. \A c \in Compounds : compound[c].here => parent'[compound[c].by] # "none" /\ parent'[compound[c].in] # "none"
    BY <2>1, <2>2 DEF Stocked, CompoundKeys
  <2>4. QED BY <2>3 DEF Stocked, CompoundKeys
<1>3. Stocked'
  <2>1. CatalogueTyped'
    BY <1>1 DEF Stocked, CatalogueTyped, Hands
  <2>2. UnitKeys'
    BY DEF Stocked, UnitKeys
  <2>3. QED BY <1>1, <1>2, <2>1, <2>2, OthersPrepared DEF Stocked
<1>4. (\A d : Running(d)' = Running(d)) /\ (\A c : LivesIn(c)' = LivesIn(c))
  BY DEF Running, Of, LivesIn
<1>5. CountOf(NoWork)' /\ LinksOf(NoWork)'
  BY NoWorkTyped DEF CountOf, LinksOf
<1>6. ListingsKeepCompound'
  BY DEF Promised, CatalogueHolds, ListingsKeepCompound
<1>7. ASSUME NEW d \in Developers, parent'[d] # "none", d \notin unsure'
      PROVE  \/ projects'[d] = Running(d)' \/ d \in StillDue(NoWork)
             \/ /\ parent[d] # "none" /\ d \notin unsure /\ projects'[d] = projects[d]
                /\ Running(d)' = Running(d) /\ d \notin StillDue(work[p])
  <2>1. CASE parent[d] = "none"
    <3>1. {c \in Of(d) : compound[c].active} = {}
      BY <2>1 DEF Of, Stocked, CompoundKeys
    <3>2. Running(d) = 0
      BY <3>1, FS_EmptySet DEF Running
    <3>3. QED BY <1>4, <1>7, <2>1, <3>2
  <2>2. CASE parent[d] # "none"
    BY <1>4, <1>7, <2>2 DEF StillDue
  <2>3. QED BY <2>1, <2>2
<1>8. QED BY <1>1, <1>3, <1>4, <1>5, <1>6, <1>7, PromiseKept

LEMMA WriteParentKeeps ==
  ASSUME Stocked, Promised, NEW p \in Clerks, WriteParent(p)
  PROVE  Stocked' /\ Promised'
<1>1. PICK w \in Work : w = work[p] /\ Prepared(w) /\ w.at = "write" /\ w.id \in Parents /\ w.due = <<>>
                        /\ w.new \in BOOLEAN
  BY DEF Stocked, CatalogueTyped, WriteParent, Stage, Prepared, Work
<1>2. UNCHANGED <<compound, unit, edits, cut>> /\ Ends(p)
  BY DEF WriteParent
<1>3. PICK s \in {"active", "inactive"} : s = IF w.active THEN "active" ELSE "inactive"
  OBVIOUS
<1>4. parent' = IF (parent[w.id] = "none") = w.new THEN [parent EXCEPT ![w.id] = s] ELSE parent
  BY <1>1, <1>3 DEF WriteParent
<1>5. parent \in [Parents -> {"none", "active", "inactive"}] /\ projects \in [Developers -> Nat]
  BY DEF Stocked, CatalogueTyped
<1>6. parent' \in [Parents -> {"none", "active", "inactive"}]
      /\ \A x \in Parents : parent'[x] = "none" => parent[x] = "none"
  BY <1>1, <1>3, <1>4, <1>5
<1>7. CASE w.new /\ parent[w.id] = "none"
  <2>1. projects' = (IF w.id \in Developers THEN [projects EXCEPT ![w.id] = 0] ELSE projects)
        /\ unsure' = unsure \ {w.id}
    BY <1>1, <1>7 DEF WriteParent
  <2>2. parent' = [parent EXCEPT ![w.id] = s]
    BY <1>4, <1>7
  <2>3. \A d \in Developers : IF parent[d] = "none" /\ parent'[d] # "none" THEN projects'[d] = 0
                               ELSE projects'[d] = projects[d] /\ (d \in unsure => d \in unsure')
    <3>1. ASSUME NEW d \in Developers, d = w.id PROVE projects'[d] = 0 /\ parent[d] = "none" /\ parent'[d] # "none"
      BY <1>1, <1>3, <1>5, <1>7, <2>1, <2>2, <3>1
    <3>2. ASSUME NEW d \in Developers, d # w.id
          PROVE  projects'[d] = projects[d] /\ parent'[d] = parent[d] /\ (d \in unsure => d \in unsure')
      BY <1>1, <1>5, <1>7, <2>1, <2>2, <3>2 DEF Parents
    <3>3. QED BY <3>1, <3>2
  <2>4. projects' \in [Developers -> Nat] /\ unsure' \subseteq unsure
    BY <1>5, <2>1
  <2>5. QED BY <1>1, <1>2, <1>6, <2>3, <2>4, ParentKeeps
<1>8. CASE ~(w.new /\ parent[w.id] = "none")
  <2>1. projects' = projects /\ unsure' = unsure
    BY <1>1, <1>8 DEF WriteParent
  <2>2. \A d \in Developers : parent[d] = "none" => parent'[d] = "none"
    BY <1>1, <1>4, <1>5, <1>8 DEF Parents
  <2>3. QED BY <1>1, <1>2, <1>5, <1>6, <2>1, <2>2, ParentKeeps
<1>9. QED BY <1>7, <1>8

LEMMA RemoveWhatKeeps ==
  ASSUME Stocked, Promised, NEW p \in Clerks, RemoveWhat(p)
  PROVE  Stocked' /\ Promised'
<1>1. PICK w \in Work : w = work[p] /\ Prepared(w) /\ w.at = "remove" /\ w.id \in Parents /\ w.due = <<>>
  BY DEF Stocked, CatalogueTyped, RemoveWhat, Stage, Prepared
<1>2. UNCHANGED <<projects, compound, unit, edits, unsure, cut>> /\ Ends(p)
  BY DEF RemoveWhat
<1>3. \/ parent' = parent
      \/ parent' = [parent EXCEPT ![w.id] = "inactive"] /\ parent[w.id] # "none"
      \/ parent' = [parent EXCEPT ![w.id] = "none"] /\ CompoundsOf(w.id) = {}
  BY <1>1 DEF RemoveWhat
<1>4. parent \in [Parents -> {"none", "active", "inactive"}] /\ projects \in [Developers -> Nat]
  BY DEF Stocked, CatalogueTyped
<1>5. /\ parent' \in [Parents -> {"none", "active", "inactive"}]
      /\ \A x \in Parents : parent'[x] = "none" /\ parent[x] # "none" => CompoundsOf(x) = {}
      /\ \A x \in Parents : parent[x] = "none" => parent'[x] = "none"
  BY <1>1, <1>3, <1>4
<1>6. Developers \subseteq Parents
  BY DEF Parents
<1>7. QED BY <1>1, <1>2, <1>4, <1>5, <1>6, ParentKeeps

LEMMA RemoveListedKeeps ==
  ASSUME Stocked, Promised, NEW p \in Clerks, RemoveListed(p)
  PROVE  Stocked' /\ Promised'
<1>1. PICK w \in Work : /\ w = work[p] /\ Prepared(w) /\ w.at = "remove" /\ w.id \in Compounds /\ w.due = <<>>
                        /\ LinksOf(w) /\ ~w.new
  BY DEF Stocked, CatalogueTyped, RemoveListed, Stage, Prepared, Promised
<1>2. PICK c \in Compounds, d \in Compound : c = w.id /\ d = compound[c]
  BY <1>1 DEF Stocked, CatalogueTyped
<1>3. UNCHANGED <<parent, projects, edits>>
  BY DEF RemoveListed
<1>4. CASE ~d.here
  BY <1>1, <1>2, <1>3, <1>4, Ending, IdleInHand, Dues, QuietStep DEF RemoveListed, Data, Stocked, CatalogueTyped
<1>5. CASE d.here
  <2>1. w.was \in Developers
    BY <1>1 DEF Prepared, Work
  <2>2. PICK j : j = [w EXCEPT !.at = "count", !.due = <<w.was>>]
    OBVIOUS
  <2>3. <<w.was>> \in Seq(Developers) /\ <<w.was>> # <<>>
    BY <2>1
  <2>4. j \in Work /\ j.at = "count" /\ j.due = <<w.was>> /\ j.was = w.was
    BY <1>1, <2>2, <2>3 DEF Work, Stages
  <2>5. Prepared(j)
    BY <2>3, <2>4 DEF Prepared
  <2>6. w.was \in StillDue(j)
    <3>1. 1 \in DOMAIN <<w.was>> /\ <<w.was>>[1] = w.was
      OBVIOUS
    <3>2. QED BY <2>4, <3>1 DEF StillDue
  <2>7. /\ d.by # Blank /\ d.in # Blank /\ parent[d.by] # "none" /\ parent[d.in] # "none"
    BY <1>2, <1>5 DEF Stocked, CompoundKeys
  <2>8. CASE w.linked
    <3>1. PICK e : e = [d EXCEPT !.active = FALSE]
      OBVIOUS
    <3>2. e \in Compound /\ e.here /\ e.by = d.by /\ e.in = d.in
      BY <1>2, <1>5, <3>1 DEF Compound
    <3>3. PutCompound(p, c, e, j) /\ UNCHANGED <<unit, cut>>
      BY <1>1, <1>2, <1>5, <2>2, <2>8, <3>1 DEF RemoveListed
    <3>4. UnitKeys'
      <4>1. compound' = [compound EXCEPT ![c] = e]
        BY <3>3 DEF PutCompound
      <4>2. QED BY <3>2, <3>3, <4>1 DEF Stocked, CatalogueTyped, UnitKeys, Unit
    <3>5. /\ ListingsKeepCompound' /\ unit' \in [Units -> Unit] /\ cut' \subseteq Units
          /\ \A k \in Compounds : LivesIn(k)' \subseteq LivesIn(k)
      BY <3>3 DEF Promised, CatalogueHolds, ListingsKeepCompound, LivesIn, Stocked, CatalogueTyped
    <3>6. \A x \in {compound[c].by, e.by} : x = Blank \/ x \in StillDue(j) \/ (x = compound[c].by /\ x # j.was)
      BY <1>2, <2>4, <2>6, <3>2
    <3>7. compound[c].by # Blank
      BY <1>2, <2>7
    <3>8. QED BY <1>1, <1>3, <2>4, <2>5, <2>7, <3>2, <3>3, <3>4, <3>5, <3>6, <3>7, PlacedKeeps
  <2>9. CASE ~w.linked
    <3>1. /\ PutCompound(p, c, NoCompound, j)
          /\ unit' = [u \in Units |-> IF unit[u].compound = c
                         THEN [unit[u] EXCEPT !.compound = Blank] ELSE unit[u]]
          /\ cut' = cut \cup IF w.late THEN LivesIn(c) ELSE {}
      BY <1>1, <1>2, <1>5, <2>2, <2>9 DEF RemoveListed
    <3>2. \A u \in Units : /\ unit'[u] \in Unit /\ unit'[u].live = unit[u].live
                           /\ unit'[u].compound = IF unit[u].compound = c THEN Blank ELSE unit[u].compound
      <4>1. ASSUME NEW v \in Unit
            PROVE  /\ [v EXCEPT !.compound = Blank] \in Unit /\ [v EXCEPT !.compound = Blank].live = v.live
                   /\ [v EXCEPT !.compound = Blank].compound = Blank
        BY DEF Unit
      <4>2. QED BY <3>1, <4>1 DEF Stocked, CatalogueTyped
    <3>3. unit' \in [Units -> Unit] /\ cut' \subseteq Units
      BY <3>1, <3>2 DEF Stocked, CatalogueTyped, LivesIn
    <3>4. UnitKeys'
      <4>1. compound' = [compound EXCEPT ![c] = NoCompound]
        BY <3>1 DEF PutCompound
      <4>2. ASSUME NEW u \in Units, unit'[u].compound # Blank PROVE compound'[unit'[u].compound].here
        <5>1. unit[u].compound # c /\ unit'[u].compound = unit[u].compound /\ unit[u].compound \in Compounds
          BY <3>2, <4>2 DEF Stocked, CatalogueTyped, Unit
        <5>2. compound[unit[u].compound].here
          BY <4>2, <5>1 DEF Stocked, UnitKeys
        <5>3. QED BY <4>1, <5>1, <5>2 DEF Stocked, CatalogueTyped
      <4>3. QED BY <4>2 DEF UnitKeys
    <3>5. ListingsKeepCompound'
      <4> SUFFICES ASSUME NEW u \in Units, unit'[u].live, u \notin cut' PROVE unit'[u].compound # Blank
        BY DEF ListingsKeepCompound
      <4>1. unit[u].live /\ u \notin cut
        BY <3>1, <3>2
      <4>2. unit[u].compound # Blank
        BY <4>1 DEF Promised, CatalogueHolds, ListingsKeepCompound
      <4>3. unit[u].compound # c
        <5>1. CASE w.late
          BY <3>1, <4>1, <5>1 DEF LivesIn
        <5>2. CASE ~w.late
          BY <1>1, <1>2, <2>9, <4>1, <5>2 DEF LinksOf, LivesIn
        <5>3. QED BY <5>1, <5>2
      <4>4. QED BY <3>2, <4>2, <4>3
    <3>6. \A k \in Compounds : LivesIn(k)' \subseteq LivesIn(k)
      <4>1. ASSUME NEW k \in Compounds, NEW u \in Units, unit'[u].live, unit'[u].compound = k
            PROVE  unit[u].live /\ unit[u].compound = k
        BY <3>2, <4>1
      <4>2. QED BY <4>1 DEF LivesIn
    <3>7. \A x \in {compound[c].by, NoCompound.by} : x = Blank \/ x \in StillDue(j) \/ (x = compound[c].by /\ x # j.was)
      BY <1>2, <2>4, <2>6, Vacant
    <3>8. compound[c].by # Blank
      BY <1>2, <2>7
    <3>9. PICK e \in Compound : e = NoCompound /\ ~e.here
      BY Vacant
    <3>10. QED BY <1>1, <1>3, <2>4, <2>5, <3>1, <3>3, <3>4, <3>5, <3>6, <3>7, <3>8, <3>9, PlacedKeeps
  <2>10. QED BY <2>8, <2>9
<1>6. QED BY <1>4, <1>5

LEMMA WriteUnitKeeps ==
  ASSUME Stocked, Promised, NEW p \in Clerks, WriteUnit(p)
  PROVE  Stocked' /\ Promised'
<1>1. PICK w \in Work : w = work[p] /\ Prepared(w) /\ w.at = "insert" /\ w.id \in Units /\ w.due = <<>>
                        /\ w.home \in Compounds
  BY DEF Stocked, CatalogueTyped, WriteUnit, Stage, Prepared, Work
<1>2. PICK u \in Units, c \in Compounds : u = w.id /\ c = w.home
  BY <1>1
<1>3. UNCHANGED <<parent, projects, compound, edits, unsure>>
  BY DEF WriteUnit
<1>4. CASE Ends(p) /\ UNCHANGED <<unit, cut>>
  BY <1>1, <1>3, <1>4, Ending, IdleInHand, Dues, QuietStep DEF Data, Stocked, CatalogueTyped
<1>5. CASE /\ compound[c].here
           /\ unit' = [unit EXCEPT ![u] = [live |-> TRUE, compound |-> c]]
           /\ cut' = cut \ {u}
           /\ work' = [q \in Clerks |-> IF q = p THEN NoWork
                              ELSE IF Stage(q, "remove") /\ work[q].id = c
                                   THEN [work[q] EXCEPT !.late = TRUE] ELSE work[q]]
  <2>1. PICK v \in Unit : v = [live |-> TRUE, compound |-> c]
    BY DEF Unit
  <2>2. c # Blank /\ v.live /\ v.compound = c /\ unit' = [unit EXCEPT ![u] = v]
    BY <1>5, <2>1
  <2>3. Hands(p, NoWork)
    <3>1. \A q \in Clerks : work[q] \in Work /\ [work[q] EXCEPT !.late = TRUE] \in Work
      BY LateKept DEF Stocked, CatalogueTyped
    <3>2. QED BY <1>5, <3>1, NoWorkTyped DEF Hands
  <2>4. Stocked'
    <3>0. unit' \in [Units -> Unit] /\ cut' \subseteq Units
      BY <1>5, <2>2 DEF Stocked, CatalogueTyped
    <3>1. CatalogueTyped'
      BY <1>3, <2>3, <3>0 DEF Stocked, CatalogueTyped, Hands
    <3>2. CompoundKeys'
      BY <1>3 DEF Stocked, CompoundKeys
    <3>3. UnitKeys'
      BY <1>3, <1>5, <2>2 DEF Stocked, UnitKeys, CatalogueTyped
    <3>4. QED BY <2>3, <3>1, <3>2, <3>3, OthersPrepared DEF Stocked
  <2>5. \A d : Running(d)' = Running(d)
    BY <1>3 DEF Running, Of
  <2>6. \A k \in Compounds : \/ LivesIn(k)' \subseteq LivesIn(k)
                             \/ \A q \in Clerks \ {p} : work[q].at = "remove" /\ work[q].id = k => work'[q].late
    <3>1. ASSUME NEW k \in Compounds, k # c PROVE LivesIn(k)' \subseteq LivesIn(k)
      BY <2>2, <3>1 DEF LivesIn, Stocked, CatalogueTyped
    <3>2. ASSUME NEW q \in Clerks \ {p}, work[q].at = "remove", work[q].id = c PROVE work'[q].late
      <4>1. work'[q] = [work[q] EXCEPT !.late = TRUE] /\ work[q] \in Work
        BY <1>5, <3>2 DEF Stage, Stocked, CatalogueTyped
      <4>2. QED BY <4>1, LateKept
    <3>3. QED BY <3>1, <3>2
  <2>7. ListingsKeepCompound'
    BY <1>5, <2>2 DEF ListingsKeepCompound, Promised, CatalogueHolds, Stocked, CatalogueTyped
  <2>8. CountOf(NoWork)' /\ LinksOf(NoWork)'
    BY NoWorkTyped DEF CountOf, LinksOf
  <2>9. StillDue(work[p]) = {}
    BY <1>1 DEF StillDue
  <2>10. QED BY <1>3, <2>3, <2>4, <2>5, <2>6, <2>7, <2>8, <2>9, PromiseKept
<1>6. QED BY <1>1, <1>2, <1>4, <1>5 DEF WriteUnit

LEMMA RemoveUnitKeeps ==
  ASSUME Stocked, Promised, NEW u \in Units, RemoveUnit(u)
  PROVE  Stocked' /\ Promised'
<1>1. /\ unit[u].live /\ edits < MaxEdits /\ edits' = edits + 1
      /\ unit' = [unit EXCEPT ![u].live = FALSE]
      /\ UNCHANGED <<parent, projects, compound, work, unsure, cut>>
  BY DEF RemoveUnit
<1>2. PICK v : v = [unit[u] EXCEPT !.live = FALSE]
  OBVIOUS
<1>3. v \in Unit /\ ~v.live /\ v.compound = unit[u].compound /\ unit' = [unit EXCEPT ![u] = v]
  BY <1>1, <1>2 DEF Unit, Stocked, CatalogueTyped
<1>4. Stocked'
  <2>0. edits' \in 0..MaxEdits /\ unit' \in [Units -> Unit]
    <3>1. edits' \in 0..MaxEdits
      BY <1>1 DEF Stocked, CatalogueTyped
    <3>2. unit' \in [Units -> Unit]
      BY <1>3 DEF Stocked, CatalogueTyped
    <3>3. QED BY <3>1, <3>2
  <2>1. CatalogueTyped'
    BY <1>1, <2>0 DEF Stocked, CatalogueTyped
  <2>2. UnitKeys'
    BY <1>1, <1>3 DEF Stocked, UnitKeys, CatalogueTyped
  <2>3. QED BY <1>1, <2>1, <2>2 DEF Stocked, CompoundKeys, Prepared
<1>5. (\A d : Running(d)' = Running(d)) /\ \A c : LivesIn(c)' \subseteq LivesIn(c)
  BY <1>1, <1>3 DEF Running, Of, LivesIn, Stocked, CatalogueTyped
<1>6. \A q \in Clerks : (CountOf(work[q]) /\ LinksOf(work[q]))'
  <2>1. ASSUME NEW q \in Clerks PROVE (CountOf(work[q]) /\ LinksOf(work[q]))'
    <3>1. PICK w : w = work[q] /\ CountOf(w) /\ LinksOf(w)
      BY DEF Promised
    <3>2. CountOf(w)' /\ LinksOf(w)'
      BY <1>5, <3>1 DEF CountOf, LinksOf
    <3>3. work'[q] = w
      BY <1>1, <3>1
    <3>4. QED BY <3>2, <3>3
  <2>2. QED BY <2>1
<1>7. ProjectsCounted'
  BY <1>1, <1>5 DEF Promised, CatalogueHolds, ProjectsCounted
<1>8. ListingsKeepCompound'
  BY <1>1, <1>3 DEF Promised, CatalogueHolds, ListingsKeepCompound, Stocked, CatalogueTyped
<1>9. QED BY <1>4, <1>6, <1>7, <1>8 DEF Promised, CatalogueHolds

LEMMA NextCatalogue ==
  ASSUME IsFiniteSet(Compounds), Stocked, Promised, [CatalogueNext]_catalogueVars
  PROVE  Stocked' /\ Promised'
<1>1. CASE UNCHANGED catalogueVars
  <2>1. Stocked'
    BY <1>1 DEF catalogueVars, Stocked, CatalogueTyped, CompoundKeys, UnitKeys, Prepared
  <2>2. Promised'
    BY <1>1 DEF catalogueVars, Promised, CatalogueHolds, ProjectsCounted, ListingsKeepCompound, CountOf,
                LinksOf, Running, Of, LivesIn
  <2>3. QED BY <2>1, <2>2
<1>2. ASSUME NEW p \in Clerks, Continues(p) PROVE Stocked' /\ Promised'
  BY <1>2, LooksUp, PutProjectsKeeps, WriteCompoundKeeps, WriteParentKeeps, RemoveWhatKeeps,
     RemoveListedKeeps, WriteUnitKeeps DEF Continues
<1>3. CatalogueNext => (\E p \in Clerks : Begun(p) \/ Continues(p)) \/ \E u \in Units : RemoveUnit(u)
  BY DEF CatalogueNext, Begun, Continues
<1>4. QED BY <1>1, <1>2, <1>3, BegunKeeps, RemoveUnitKeeps

LEMMA InitCatalogue == IsFiniteSet(Compounds) /\ CatalogueInit => Stocked /\ Promised
<1> SUFFICES ASSUME IsFiniteSet(Compounds), CatalogueInit PROVE Stocked /\ Promised
  OBVIOUS
<1>1. CatalogueHolds
  BY Vacant DEF CatalogueInit, CatalogueHolds, ProjectsCounted, ListingsKeepCompound
<1>2. \A q \in Clerks : CountOf(work[q]) /\ LinksOf(work[q])
  BY IdleInHand DEF CatalogueInit
<1>3. QED BY <1>1, <1>2, InitStocked DEF Promised

\* Compounds, developers, areas and listings keep their types, and the foreign keys hold.
THEOREM CatalogueTypes ==
  ASSUME IsFiniteSet(Compounds)
  PROVE  CatalogueSpec => []CatalogueTypeOK
<1>1. CatalogueInit => Stocked /\ Promised
  BY InitCatalogue
<1>2. Stocked => CatalogueTypeOK
  BY DEF Stocked, CatalogueTyped, CompoundKeys, UnitKeys, CatalogueTypeOK
<1>3. Stocked /\ Promised /\ [CatalogueNext]_catalogueVars => (Stocked /\ Promised)'
  BY NextCatalogue
<1>4. QED BY <1>1, <1>2, <1>3, PTL DEF CatalogueSpec

\* Counts follow the compounds and listings keep theirs, but for what the model marks unsure or cut.
THEOREM CatalogueKeepsCounts ==
  ASSUME IsFiniteSet(Compounds)
  PROVE  CatalogueSpec => []CatalogueHolds
<1>1. CatalogueInit => Stocked /\ Promised
  BY InitCatalogue
<1>2. Promised => CatalogueHolds
  BY DEF Promised
<1>3. Stocked /\ Promised /\ [CatalogueNext]_catalogueVars => (Stocked /\ Promised)'
  BY NextCatalogue
<1>4. QED BY <1>1, <1>2, <1>3, PTL DEF CatalogueSpec

=============================================================================
