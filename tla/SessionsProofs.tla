--------------------------- MODULE SessionsProofs ---------------------------
(***************************************************************************)
(* Theorems about Sessions, for every set of users, pairs and handlers.    *)
(* TypeOK needs to know which request a handler at a given await carries   *)
(* (Shape); the two safety theorems need that a pair is minted by one      *)
(* handler only, and before any client holds it (MintedOnce).              *)
(***************************************************************************)
EXTENDS Sessions, TLAPS

VerifyLabels == {"checkDenied", "checkActive", "checkKnown"}
RetireLabels == {"deny", "unmark", "retireRow"}
MintLabels   == {"persist", "deny", "unmark", "retireRow", "respond"}
RevokeLabels == {"scan", "findLive", "denyLive"}

\* The request a handler carries, by operation, and the awaits it can be at.
ShapeOf(p) ==
    /\ req[p].op \in {"none", "login", "refresh", "logout", "password", "deactivate"}
    /\ req[p].op = "none" <=> pc[p] = "idle"
    /\ req[p].op = "login" =>
          /\ req[p].new \in Pairs /\ req[p].tok = None
          /\ pc[p] \in {"remember", "persist", "respond"}
    /\ req[p].op = "refresh" =>
          /\ req[p].tok \in Pairs
          /\ pc[p] \in VerifyLabels \cup {"checkUser", "remember"} \cup MintLabels \cup RevokeLabels
          /\ pc[p] \in {"remember"} \cup MintLabels => req[p].new \in Pairs
    /\ req[p].op = "logout" =>
          /\ req[p].new = None /\ req[p].acc \in Pairs
          /\ pc[p] \in VerifyLabels \cup RetireLabels \cup RevokeLabels \cup {"denyAccess"}
          /\ pc[p] \in VerifyLabels \cup RetireLabels => req[p].tok \in Pairs
    /\ req[p].op \in {"none", "password", "deactivate"} => req[p].new = None
    /\ req[p].op \in {"password", "deactivate"} => pc[p] \in {"writeUser"} \cup RevokeLabels

Shape == \A p \in Handlers : ShapeOf(p)

Typed == TypeOK /\ Shape

LEMMA InitTyped == Init => Typed
  BY SessionsAssumption
  DEF Init, Typed, TypeOK, Shape, ShapeOf, NoRequest, Request, Labels, AllOps

USE SessionsAssumption

\* Arrivals only touch the handler's own pc and req.
LEMMA ArriveTyped ==
  ASSUME Typed, NEW p \in Handlers, Arrive(p)
  PROVE  Typed'
<1>1. CASE \E u \in Users : Login(p, u)
  BY <1>1 DEF Login, Begin, Goto, FreshPairs, Typed, TypeOK, Shape, ShapeOf, Request, Labels,
              AllOps, redis, postgres, jwts, history, VerifyLabels, MintLabels, RevokeLabels,
              RetireLabels
<1>2. CASE \E u \in Users : ChangePassword(p, u)
  BY <1>2 DEF ChangePassword, Begin, Goto, Typed, TypeOK, Shape, ShapeOf, Request, Labels,
              AllOps, redis, postgres, jwts, history, VerifyLabels, MintLabels, RevokeLabels,
              RetireLabels
<1>3. CASE \E u \in Users : Deactivate(p, u)
  BY <1>3 DEF Deactivate, Begin, Goto, Typed, TypeOK, Shape, ShapeOf, Request, Labels,
              AllOps, redis, postgres, jwts, history, VerifyLabels, MintLabels, RevokeLabels,
              RetireLabels
<1>4. CASE \E j \in Pairs : Refresh(p, j)
  BY <1>4 DEF Refresh, Begin, Goto, FreshPairs, Typed, TypeOK, Shape, ShapeOf, Request, Labels,
              AllOps, redis, postgres, jwts, history, VerifyLabels, MintLabels, RevokeLabels,
              RetireLabels
<1>5. CASE \E a \in Pairs, j \in Pairs \cup {None} : Logout(p, j, a)
  BY <1>5 DEF Logout, AccessAccepted, PairsOf, Begin, Goto, Typed, TypeOK, Shape, ShapeOf,
              Request, Labels, AllOps, redis, postgres, jwts, history, VerifyLabels,
              MintLabels, RevokeLabels, RetireLabels
<1>6. QED BY <1>1, <1>2, <1>3, <1>4, <1>5 DEF Arrive

\* A handler that ends leaves a well-typed control state, and the others as they are.
LEMMA FinishTyped ==
  ASSUME Typed, NEW p \in Handlers, Finish(p)
  PROVE  /\ pc' \in [Handlers -> Labels]
         /\ req' \in [Handlers -> Request]
         /\ Shape'
  BY DEF Finish, Goto, Typed, TypeOK, Shape, ShapeOf, NoRequest, Request, Labels, AllOps,
         VerifyLabels, MintLabels, RevokeLabels, RetireLabels

\* One case per await of a handler.
LEMMA StepTyped ==
  ASSUME Typed, NEW p \in Handlers, Step(p)
  PROVE  Typed'
<1>1. CASE CheckDenied(p)
  BY <1>1 DEF CheckDenied, RedisCall, Continue, Finish, Goto, Typed, TypeOK, Shape, ShapeOf, Request,
              NoRequest, Labels, AllOps, redis, postgres, jwts, history, VerifyLabels, MintLabels,
              RevokeLabels, RetireLabels
<1>2. CASE CheckActive(p)
  BY <1>2 DEF CheckActive, RedisCall, Verified, Continue, Finish, Goto, Typed, TypeOK, Shape, ShapeOf, Request,
              NoRequest, Labels, AllOps, redis, postgres, jwts, history, VerifyLabels, MintLabels,
              RevokeLabels, RetireLabels
<1>3. CASE CheckKnown(p)
  <2>1. /\ Verified(p) \/ Rejected(p)
        /\ pc[p] = "checkKnown" /\ UNCHANGED <<redis, postgres, jwts, live, history>>
    BY <1>3 DEF CheckKnown
  <2>2. CASE Finish(p)
    BY <2>1, <2>2, FinishTyped DEF Typed, TypeOK, redis, postgres, jwts, history
  <2>3. CASE Verified(p)
    BY <2>1, <2>3 DEF Verified, Continue, Goto, Typed, TypeOK, Shape, ShapeOf,
                Request, NoRequest, Labels, AllOps, redis, postgres, jwts, history, VerifyLabels,
                MintLabels, RevokeLabels, RetireLabels
  <2>4. CASE req[p].op = "logout" /\ Continue(p, "denyAccess")
    BY <2>1, <2>4 DEF Continue, Goto, Typed, TypeOK, Shape, ShapeOf,
                Request, NoRequest, Labels, AllOps, redis, postgres, jwts, history, VerifyLabels,
                MintLabels, RevokeLabels, RetireLabels
  <2>5. QED BY <2>1, <2>2, <2>3, <2>4 DEF Rejected
<1>4. CASE CheckUser(p)
  <2>1. /\ (req[p].new # None /\ Continue(p, "remember")) \/ Finish(p)
        /\ pc[p] = "checkUser" /\ UNCHANGED <<redis, postgres, jwts, live, history>>
    BY <1>4 DEF CheckUser
  <2>2. CASE Finish(p)
    BY <2>1, <2>2, FinishTyped DEF Typed, TypeOK, redis, postgres, jwts, history
  <2>3. CASE req[p].new # None /\ Continue(p, "remember")
    BY <2>1, <2>3 DEF Continue, Goto, Typed, TypeOK, Shape, ShapeOf,
                Request, NoRequest, Labels, AllOps, redis, postgres, jwts, history, VerifyLabels,
                MintLabels, RevokeLabels, RetireLabels
  <2>4. QED BY <2>1, <2>2, <2>3
<1>5. CASE Remember(p)
  BY <1>5 DEF Remember, RedisCall, Continue, Finish, Goto, Typed, TypeOK, Shape, ShapeOf, Request,
              NoRequest, Labels, AllOps, redis, postgres, jwts, history, VerifyLabels, MintLabels,
              RevokeLabels, RetireLabels
<1>6. CASE Persist(p)
  BY <1>6 DEF Persist, PostgresCall, Continue, Finish, Goto, Typed, TypeOK, Shape, ShapeOf, Request,
              NoRequest, Labels, AllOps, redis, postgres, jwts, history, VerifyLabels, MintLabels,
              RevokeLabels, RetireLabels
<1>7. CASE Respond(p)
  BY <1>7 DEF Respond, Continue, Finish, Goto, Typed, TypeOK, Shape, ShapeOf, Request,
              NoRequest, Labels, AllOps, redis, postgres, jwts, history, VerifyLabels, MintLabels,
              RevokeLabels, RetireLabels
<1>8. CASE Deny(p)
  BY <1>8 DEF Deny, RedisCall, Continue, Finish, Goto, Typed, TypeOK, Shape, ShapeOf, Request,
              NoRequest, Labels, AllOps, redis, postgres, jwts, history, VerifyLabels, MintLabels,
              RevokeLabels, RetireLabels
<1>9. CASE Unmark(p)
  BY <1>9 DEF Unmark, RedisCall, Continue, Finish, Goto, Typed, TypeOK, Shape, ShapeOf, Request,
              NoRequest, Labels, AllOps, redis, postgres, jwts, history, VerifyLabels, MintLabels,
              RevokeLabels, RetireLabels
<1>10. CASE RetireRow(p)
  <2>1. /\ \/ /\ row' = [row EXCEPT ![req[p].tok] = "revoked"]
              /\ replacedBy' = [replacedBy EXCEPT ![req[p].tok] = req[p].new]
           \/ UNCHANGED <<row, replacedBy>>
        /\ pc[p] = "retireRow"
        /\ Continue(p, IF req[p].op = "refresh" THEN "respond" ELSE "denyAccess")
        /\ UNCHANGED <<redis, isActive, jwts, live, history>>
    BY <1>10 DEF RetireRow
  <2>2. QED
    BY <2>1 DEF Continue, Finish, Goto, Typed, TypeOK, Shape, ShapeOf,
                Request, NoRequest, Labels, AllOps, redis, postgres, jwts, history, VerifyLabels,
                MintLabels, RevokeLabels, RetireLabels
<1>11. CASE DenyAccess(p)
  <2>1. /\ accessDenied' = accessDenied \cup {req[p].acc} \/ UNCHANGED accessDenied
        /\ pc[p] = "denyAccess"
        /\ Finish(p)
        /\ UNCHANGED <<marker, denied, floored, postgres, jwts, live, history>>
    BY <1>11 DEF DenyAccess
  <2>2. req[p].op = "logout" /\ req[p].acc \in Pairs
    BY <2>1 DEF Typed, TypeOK, Shape, ShapeOf, VerifyLabels, MintLabels, RevokeLabels,
                RetireLabels, Request, AllOps
  <2>3. accessDenied' \subseteq Pairs
    BY <2>1, <2>2 DEF Typed, TypeOK
  <2>4. QED
    BY <2>1, <2>3, FinishTyped DEF Typed, TypeOK, redis, postgres, jwts, history
<1>12. CASE WriteUser(p)
  <2>1. /\ isActive' = [isActive EXCEPT ![req[p].usr] = FALSE] \/ UNCHANGED isActive
        /\ Continue(p, "scan") \/ Finish(p)
        /\ pc[p] = "writeUser"
        /\ UNCHANGED <<redis, row, replacedBy, jwts, live, history>>
    BY <1>12 DEF WriteUser
  <2>2. isActive' \in [Users -> BOOLEAN]
    BY <2>1 DEF Typed, TypeOK
  <2>3. CASE Finish(p)
    BY <2>1, <2>2, <2>3, FinishTyped DEF Typed, TypeOK, redis, jwts, history
  <2>4. CASE Continue(p, "scan")
    BY <2>1, <2>2, <2>4 DEF Continue, Goto, Typed, TypeOK, Shape, ShapeOf,
                Request, NoRequest, Labels, AllOps, redis, postgres, jwts, history, VerifyLabels,
                MintLabels, RevokeLabels, RetireLabels
  <2>5. QED BY <2>1, <2>3, <2>4
<1>13. CASE Scan(p)
  BY <1>13 DEF Scan, PairsOf, Continue, Finish, Goto, Typed, TypeOK, Shape, ShapeOf, Request,
              NoRequest, Labels, AllOps, redis, postgres, jwts, history, VerifyLabels, MintLabels,
              RevokeLabels, RetireLabels
<1>14. CASE FindLive(p)
  BY <1>14 DEF FindLive, PostgresCall, PairsOf, Continue, Finish, Goto, Typed, TypeOK, Shape, ShapeOf, Request,
              NoRequest, Labels, AllOps, redis, postgres, jwts, history, VerifyLabels, MintLabels,
              RevokeLabels, RetireLabels
<1>15. CASE RetireAll(p)
  <2>1. /\ row' \in [Pairs -> {"none", "live", "revoked"}]
        /\ condemned' \subseteq Pairs /\ doomed' \in [Handlers -> SUBSET Pairs]
        /\ pc[p] = "denyLive" /\ Rejected(p)
        /\ UNCHANGED <<redis, replacedBy, isActive, jwts, live, parent>>
    BY <1>15 DEF RetireAll, Typed, TypeOK
  <2>2. CASE Finish(p)
    BY <2>1, <2>2, FinishTyped DEF Typed, TypeOK, redis, jwts
  <2>3. CASE req[p].op = "logout" /\ Continue(p, "denyAccess")
    BY <2>1, <2>3 DEF Continue, Goto, Typed, TypeOK, Shape, ShapeOf,
                Request, NoRequest, Labels, AllOps, redis, postgres, jwts, history, VerifyLabels,
                MintLabels, RevokeLabels, RetireLabels
  <2>4. QED BY <2>1, <2>2, <2>3 DEF Rejected
<1>16. CASE \E j \in Pairs : DenyLive(p, j)
  BY <1>16 DEF DenyLive, RedisCall, Continue, Finish, Goto, Typed, TypeOK, Shape, ShapeOf, Request,
              NoRequest, Labels, AllOps, redis, postgres, jwts, history, VerifyLabels, MintLabels,
              RevokeLabels, RetireLabels
<1>17. QED BY <1>1, <1>2, <1>3, <1>4, <1>5, <1>6, <1>7, <1>8, <1>9, <1>10, <1>11, <1>12, <1>13, <1>14, <1>15, <1>16 DEF Step

LEMMA EnvironmentTyped ==
  ASSUME Typed, Environment
  PROVE  Typed'
<1>1. CASE \E u \in Users : Activate(u)
  BY <1>1 DEF Activate, Typed, TypeOK, Shape, ShapeOf, Request, AllOps,
              redis, postgres, jwts, history
<1>2. CASE \E j \in Pairs : Expire(j)
  BY <1>2 DEF Expire, Typed, TypeOK, Shape, ShapeOf, Request, AllOps,
              redis, postgres, jwts, history
<1>3. CASE \E j \in Pairs : ExpireAccess(j)
  BY <1>3 DEF ExpireAccess, Typed, TypeOK, Shape, ShapeOf, Request, AllOps,
              redis, postgres, jwts, history
<1>4. CASE \E j \in Pairs : LapseDenial(j)
  BY <1>4 DEF LapseDenial, Typed, TypeOK, Shape, ShapeOf, Request, AllOps,
              redis, postgres, jwts, history
<1>5. CASE Purge
  BY <1>5 DEF Purge, Typed, TypeOK, Shape, ShapeOf, Request, AllOps,
              redis, postgres, jwts, history
<1>6. QED BY <1>1, <1>2, <1>3, <1>4, <1>5 DEF Environment

LEMMA CrashTyped ==
  ASSUME Typed, NEW p \in Handlers, Crash(p)
  PROVE  Typed'
  BY DEF Crash, Continue, Finish, Goto, Typed, TypeOK, Shape, ShapeOf, Request,
              NoRequest, Labels, AllOps, redis, postgres, jwts, history, VerifyLabels, MintLabels,
              RevokeLabels, RetireLabels

LEMMA NextTyped == Typed /\ [Next]_vars => Typed'
<1> SUFFICES ASSUME Typed, [Next]_vars PROVE Typed'
  OBVIOUS
<1>1. CASE UNCHANGED vars
  BY <1>1 DEF vars, Typed, TypeOK, Shape, ShapeOf, Request, AllOps,
              redis, postgres, jwts, history
<1>2. ASSUME NEW p \in Handlers, Arrive(p) \/ Step(p) \/ Crash(p)
      PROVE  Typed'
  BY <1>2, ArriveTyped, StepTyped, CrashTyped
<1>3. CASE Environment
  BY <1>3, EnvironmentTyped
<1>4. QED BY <1>1, <1>2, <1>3 DEF Next

\* Every reachable state is well typed, and a handler's request fits the await it
\* is at: no await uses a field of a request that the operation does not set.
THEOREM TypeCorrect == Spec => [](TypeOK /\ Shape)
  BY InitTyped, NextTyped, PTL DEF Spec, Typed

-----------------------------------------------------------------------------
(* A pair is minted by one handler, which alone knows it until it answers. *)

Minting ==
    /\ \A j \in delivered : owner[j] \in Users
    /\ \A p \in Handlers :
          /\ req[p].op # "none" => req[p].usr \in Users
          /\ req[p].new \notin delivered
          /\ pc[p] \in MintLabels /\ req[p].new # None =>
                owner[req[p].new] \in Users /\ parent[req[p].new] = req[p].tok
    /\ \A p, q \in Handlers : p # q /\ req[p].new # None => req[p].new # req[q].new

LEMMA InitMinting == Init => Minting
  BY DEF Init, Minting, NoRequest, MintLabels

\* Ending a handler only forgets the pair it was minting.
LEMMA FinishMinting ==
  ASSUME Typed, Minting, NEW p \in Handlers, Finish(p),
         UNCHANGED <<owner, delivered, parent>>
  PROVE  Minting'
  BY DEF Finish, Goto, Minting, Typed, TypeOK, NoRequest, Request, MintLabels

\* Going on does not disturb it, unless it steps past "remember".
LEMMA ContinueMinting ==
  ASSUME Typed, Minting, NEW p \in Handlers, NEW label, Continue(p, label),
         label \in MintLabels => pc[p] \in MintLabels \/ req[p].new = None,
         UNCHANGED <<owner, delivered, parent>>
  PROVE  Minting'
  BY DEF Continue, Goto, Minting, Typed, TypeOK, MintLabels

LEMMA NextMinting == Typed /\ Minting /\ [Next]_vars => Minting'
<1> SUFFICES ASSUME Typed, Minting, [Next]_vars PROVE Minting'
  OBVIOUS
<1> USE DEF history, jwts, redis, postgres
<1>1. CASE UNCHANGED vars
  BY <1>1 DEF vars, Minting
<1>2. ASSUME NEW p \in Handlers, Arrive(p)
      PROVE  Minting'
  <2>1. CASE \E u \in Users : Login(p, u)
    BY <2>1 DEF Login, Begin, Goto, Typed, TypeOK, Request, Minting, FreshPairs, MintLabels
  <2>2. CASE \E u \in Users : ChangePassword(p, u)
    BY <2>2 DEF ChangePassword, Begin, Goto, Typed, TypeOK, Request, Minting, FreshPairs, MintLabels
  <2>3. CASE \E u \in Users : Deactivate(p, u)
    BY <2>3 DEF Deactivate, Begin, Goto, Typed, TypeOK, Request, Minting, FreshPairs, MintLabels
  <2>4. CASE \E j \in Pairs : Refresh(p, j)
    BY <2>4 DEF Refresh, Begin, Goto, Typed, TypeOK, Request, Minting, FreshPairs, MintLabels
  <2>5. CASE \E a \in Pairs, j \in Pairs \cup {None} : Logout(p, j, a)
    BY <2>5 DEF Logout, AccessAccepted, Begin, Goto, Typed, TypeOK, Request, Minting, FreshPairs, MintLabels
  <2>6. QED BY <1>2, <2>1, <2>2, <2>3, <2>4, <2>5 DEF Arrive
<1>3. ASSUME NEW p \in Handlers, Step(p)
      PROVE  Minting'
  <2>1. CASE CheckDenied(p)
    <3>1. Continue(p, "scan") \/ Continue(p, "checkActive")
      BY <2>1 DEF CheckDenied
    <3>2. QED BY <2>1, <3>1, ContinueMinting DEF CheckDenied, MintLabels
  <2>2. CASE CheckActive(p)
    <3>1. \/ req[p].op = "refresh" /\ Continue(p, "checkUser")
          \/ req[p].op # "refresh" /\ Continue(p, "deny")
          \/ Continue(p, "checkKnown") \/ Finish(p)
      BY <2>2 DEF CheckActive, Verified
    <3>2. req[p].op # "refresh" => req[p].new = None
      BY <2>2 DEF CheckActive, Typed, Shape, ShapeOf, MintLabels, VerifyLabels, RevokeLabels, RetireLabels
    <3>3. UNCHANGED <<owner, delivered, parent>>
      BY <2>2 DEF CheckActive
    <3>4. QED BY <3>1, <3>2, <3>3, ContinueMinting, FinishMinting DEF MintLabels
  <2>3. CASE CheckKnown(p)
    <3>1. \/ req[p].op = "refresh" /\ Continue(p, "checkUser")
          \/ req[p].op # "refresh" /\ Continue(p, "deny")
          \/ Continue(p, "denyAccess") \/ Finish(p)
      BY <2>3 DEF CheckKnown, Verified, Rejected
    <3>2. req[p].op # "refresh" => req[p].new = None
      BY <2>3 DEF CheckKnown, Typed, Shape, ShapeOf, MintLabels, VerifyLabels, RevokeLabels, RetireLabels
    <3>3. UNCHANGED <<owner, delivered, parent>>
      BY <2>3 DEF CheckKnown
    <3>4. QED BY <3>1, <3>2, <3>3, ContinueMinting, FinishMinting DEF MintLabels
  <2>4. CASE CheckUser(p)
    <3>1. Continue(p, "remember") \/ Finish(p)
      BY <2>4 DEF CheckUser
    <3>2. QED BY <2>4, <3>1, ContinueMinting, FinishMinting DEF CheckUser, MintLabels
  <2>5. CASE Remember(p)
    <3>1. req[p].new \in Pairs /\ req[p].usr \in Users
      BY <2>5 DEF Remember, Minting, Typed, Shape, ShapeOf, MintLabels, VerifyLabels, RevokeLabels, RetireLabels
    <3>2. /\ owner' = [owner EXCEPT ![req[p].new] = req[p].usr]
          /\ parent' = [parent EXCEPT ![req[p].new] = req[p].tok]
          /\ Continue(p, "persist") /\ UNCHANGED delivered
      BY <2>5 DEF Remember
    <3>3. QED BY <3>1, <3>2 DEF Continue, Goto, Typed, TypeOK, Minting, MintLabels
  <2>6. CASE Persist(p)
    BY <2>6, ContinueMinting DEF Persist, MintLabels
  <2>7. CASE Respond(p)
    <3>1. /\ delivered' = delivered \cup {req[p].new}
          /\ Finish(p) /\ UNCHANGED <<owner, parent>>
      BY <2>7 DEF Respond
    <3>2. owner[req[p].new] \in Users /\ req[p].new \in Pairs
      BY <2>7 DEF Respond, Minting, Typed, Shape, ShapeOf, MintLabels, VerifyLabels, RevokeLabels, RetireLabels
    <3>3. QED BY <3>1, <3>2 DEF Finish, Goto, Typed, TypeOK, Request, NoRequest, Minting, MintLabels
  <2>8. CASE Deny(p)
    BY <2>8, ContinueMinting DEF Deny, MintLabels
  <2>9. CASE Unmark(p)
    BY <2>9, ContinueMinting DEF Unmark, MintLabels
  <2>10. CASE RetireRow(p)
    BY <2>10, ContinueMinting DEF RetireRow, MintLabels
  <2>11. CASE DenyAccess(p)
    BY <2>11, FinishMinting DEF DenyAccess
  <2>12. CASE WriteUser(p)
    <3>1. Continue(p, "scan") \/ Finish(p)
      BY <2>12 DEF WriteUser
    <3>2. QED BY <2>12, <3>1, ContinueMinting, FinishMinting DEF WriteUser, MintLabels
  <2>13. CASE Scan(p)
    BY <2>13, ContinueMinting DEF Scan, MintLabels
  <2>14. CASE FindLive(p)
    BY <2>14, ContinueMinting DEF FindLive, MintLabels
  <2>15. CASE RetireAll(p)
    <3>1. Continue(p, "denyAccess") \/ Finish(p)
      BY <2>15 DEF RetireAll, Rejected
    <3>2. QED BY <2>15, <3>1, ContinueMinting, FinishMinting DEF RetireAll, MintLabels
  <2>16. CASE \E j \in Pairs : DenyLive(p, j)
    BY <2>16 DEF DenyLive, Minting
  <2>17. QED BY <1>3, <2>1, <2>2, <2>3, <2>4, <2>5, <2>6, <2>7, <2>8, <2>9, <2>10, <2>11, <2>12, <2>13, <2>14, <2>15, <2>16 DEF Step
<1>4. ASSUME NEW p \in Handlers, Crash(p)
      PROVE  Minting'
  BY <1>4, FinishMinting DEF Crash
<1>5. CASE Environment
  BY <1>5 DEF Environment, Activate, Expire, ExpireAccess, LapseDenial, Purge, Minting
<1>6. QED BY <1>1, <1>2, <1>3, <1>4, <1>5 DEF Next

-----------------------------------------------------------------------------
(* HeirReplacesParent, when Redis answers. *)

Spent == denied \cup floored \cup expired

\* The token a refresh pays with is denied before the answer can leave, so the
\* parent of a delivered pair is spent.
Rotation ==
    /\ \A k \in delivered : parent[k] # None => parent[k] \in Spent
    /\ \A p \in Handlers :
          pc[p] \in {"unmark", "retireRow", "respond"} /\ req[p].op = "refresh" =>
             req[p].tok \in Spent

\* A denylist entry lapses with its token, unless it was given whole seconds.
LEMMA SpentGrows == Typed /\ [Next]_vars => Spent \subseteq Spent'
<1> SUFFICES ASSUME Typed, [Next]_vars PROVE Spent \subseteq Spent'
  OBVIOUS
<1> USE DEF Spent, redis, jwts
<1>1. CASE UNCHANGED vars
  BY <1>1 DEF vars
<1>2. ASSUME NEW p \in Handlers, Arrive(p) PROVE Spent \subseteq Spent'
  BY <1>2 DEF Arrive, Login, ChangePassword, Deactivate, Refresh, Logout, Begin
<1>3. ASSUME NEW p \in Handlers, Step(p) PROVE Spent \subseteq Spent'
  BY <1>3 DEF Step, CheckDenied, CheckActive, CheckKnown, CheckUser, Remember, Persist,
              Respond, Deny, Unmark, RetireRow, DenyAccess, WriteUser, Scan, FindLive,
              DenyLive, RetireAll
<1>4. ASSUME NEW p \in Handlers, Crash(p) PROVE Spent \subseteq Spent'
  BY <1>4 DEF Crash
<1>5. CASE Environment
  BY <1>5 DEF Environment, Activate, Expire, ExpireAccess, LapseDenial, Purge
<1>6. QED BY <1>1, <1>2, <1>3, <1>4, <1>5 DEF Next

LEMMA NextRotation ==
  ASSUME ~RedisMayFail
  PROVE  Typed /\ Minting /\ Rotation /\ [Next]_vars => Rotation'
<1> SUFFICES ASSUME Typed, Minting, Rotation, [Next]_vars PROVE Rotation'
  OBVIOUS
<1>0. Spent \subseteq Spent'
  BY SpentGrows
<1> USE DEF history, jwts, redis, postgres
<1>1. CASE UNCHANGED vars
  BY <1>1 DEF vars, Rotation, Spent
<1>2. ASSUME NEW p \in Handlers, Arrive(p) PROVE Rotation'
  BY <1>0, <1>2 DEF Arrive, Login, ChangePassword, Deactivate, Refresh, Logout, Begin, Goto,
                    Rotation, Typed, TypeOK
<1>3. ASSUME NEW p \in Handlers, Step(p) PROVE Rotation'
  <2> USE DEF Continue, Goto, Typed, TypeOK
  <2>1. CASE CheckDenied(p)
    BY <1>0, <2>1 DEF CheckDenied, Finish, NoRequest, Request, Rotation
  <2>2. CASE CheckActive(p)
    BY <1>0, <2>2 DEF CheckActive, Verified, Finish, NoRequest, Request, Rotation
  <2>3. CASE CheckKnown(p)
    BY <1>0, <2>3 DEF CheckKnown, Verified, Rejected, Finish, NoRequest, Request, Rotation
  <2>4. CASE CheckUser(p)
    BY <1>0, <2>4 DEF CheckUser, Finish, NoRequest, Request, Rotation
  <2>5. CASE Remember(p)
    BY <1>0, <2>5 DEF Remember, Minting, Shape, ShapeOf, Finish, NoRequest, Request, Rotation
  <2>6. CASE Persist(p)
    BY <1>0, <2>6 DEF Persist, Finish, NoRequest, Request, Rotation
  <2>7. CASE Respond(p)
    <3>1. /\ delivered' = delivered \cup {req[p].new} /\ Finish(p)
          /\ pc[p] = "respond" /\ UNCHANGED parent
      BY <2>7 DEF Respond
    <3>2. parent[req[p].new] = req[p].tok
      BY <3>1 DEF Minting, Shape, ShapeOf, MintLabels, VerifyLabels, RevokeLabels, RetireLabels
    <3>3. req[p].tok # None => req[p].op = "refresh"
      BY <3>1 DEF Shape, ShapeOf, MintLabels, VerifyLabels, RevokeLabels, RetireLabels
    <3>4. QED BY <1>0, <3>1, <3>2, <3>3 DEF Finish, NoRequest, Request, Rotation
  <2>8. CASE Deny(p)
    <3>1. req[p].tok \in Spent'
      BY <2>8 DEF Deny, RedisCall, Spent
    <3>2. Continue(p, "unmark") /\ UNCHANGED <<delivered, parent>>
      BY <2>8 DEF Deny
    <3>3. QED BY <1>0, <3>1, <3>2 DEF Rotation
  <2>9. CASE Unmark(p)
    BY <1>0, <2>9 DEF Unmark, Finish, NoRequest, Request, Rotation
  <2>10. CASE RetireRow(p)
    BY <1>0, <2>10 DEF RetireRow, Finish, NoRequest, Request, Rotation
  <2>11. CASE DenyAccess(p)
    BY <1>0, <2>11 DEF DenyAccess, Finish, NoRequest, Request, Rotation
  <2>12. CASE WriteUser(p)
    BY <1>0, <2>12 DEF WriteUser, Finish, NoRequest, Request, Rotation
  <2>13. CASE Scan(p)
    BY <1>0, <2>13 DEF Scan, Finish, NoRequest, Request, Rotation
  <2>14. CASE FindLive(p)
    BY <1>0, <2>14 DEF FindLive, Finish, NoRequest, Request, Rotation
  <2>15. CASE \E j \in Pairs : DenyLive(p, j)
    BY <1>0, <2>15 DEF DenyLive, Rotation
  <2>16. CASE RetireAll(p)
    BY <1>0, <2>16 DEF RetireAll, Rejected, Finish, NoRequest, Request, Rotation
  <2>17. QED BY <1>3, <2>1, <2>2, <2>3, <2>4, <2>5, <2>6, <2>7, <2>8, <2>9, <2>10, <2>11, <2>12, <2>13, <2>14, <2>15, <2>16 DEF Step
<1>4. ASSUME NEW p \in Handlers, Crash(p) PROVE Rotation'
  BY <1>0, <1>4 DEF Crash, Finish, Goto, NoRequest, Rotation, Typed, TypeOK
<1>5. CASE Environment
  BY <1>0, <1>5 DEF Environment, Activate, Expire, ExpireAccess, LapseDenial, Purge, Rotation
<1>6. QED BY <1>1, <1>2, <1>3, <1>4, <1>5 DEF Next

\* TokenService.rotate: with Redis answering, no reachable state has a client that
\* holds the new pair of a refresh while the token it paid with is still accepted;
\* Postgres errors, crashes and racing handlers included.
THEOREM RotationIsSafe == ~RedisMayFail => (Spec => []HeirReplacesParent)
<1> SUFFICES ASSUME ~RedisMayFail PROVE Spec => []HeirReplacesParent
  OBVIOUS
<1>1. Init => Rotation
  BY DEF Init, Rotation
<1>2. Typed /\ Minting /\ Rotation /\ [Next]_vars => Rotation'
  BY NextRotation
<1>3. Rotation => HeirReplacesParent
  BY DEF Rotation, Spent, HeirReplacesParent, Usable, Lapsed
<1>4. Spec => []Typed
  BY TypeCorrect, PTL DEF Typed
<1>5. Spec => []Minting
  BY <1>4, InitMinting, NextMinting, PTL DEF Spec
<1>6. QED BY <1>1, <1>2, <1>3, <1>4, <1>5, PTL DEF Spec

-----------------------------------------------------------------------------
(* RevocationIsFinal, when both stores answer. *)

\* The rows a revocation found are of its user: an owner is written once, when the pair
\* is minted, and no other handler mints it.
Found ==
    \A p \in Handlers :
       /\ req[p].new # None /\ pc[p] \notin MintLabels => owner[req[p].new] = None
       /\ \A j \in live[p] : pc[p] = "denyLive" /\ owner[j] = req[p].usr /\ owner[j] # None

LEMMA InitFound == Init => Found
  BY DEF Init, Found, NoRequest

LEMMA NextFound == Typed /\ Minting /\ Found /\ [Next]_vars => Found'
<1> SUFFICES ASSUME Typed, Minting, Found, [Next]_vars PROVE Found'
  OBVIOUS
<1> USE DEF history, jwts, redis, postgres
<1>1. CASE UNCHANGED vars
  BY <1>1 DEF vars, Found
<1>2. ASSUME NEW p \in Handlers, Arrive(p) PROVE Found'
  <2> USE DEF Begin, Goto, Typed, TypeOK, Request, Found, MintLabels
  <2>1. CASE \E u \in Users : Login(p, u)
    BY <2>1 DEF Login, FreshPairs
  <2>2. CASE \E u \in Users : ChangePassword(p, u)
    BY <2>2 DEF ChangePassword
  <2>3. CASE \E u \in Users : Deactivate(p, u)
    BY <2>3 DEF Deactivate
  <2>4. CASE \E j \in Pairs : Refresh(p, j)
    BY <2>4 DEF Refresh, FreshPairs
  <2>5. CASE \E a \in Pairs, j \in Pairs \cup {None} : Logout(p, j, a)
    BY <2>5 DEF Logout
  <2>6. QED BY <1>2, <2>1, <2>2, <2>3, <2>4, <2>5 DEF Arrive
<1>3. ASSUME NEW p \in Handlers, Step(p) PROVE Found'
  <2> USE DEF Continue, Finish, Goto, NoRequest, Typed, TypeOK, Found
  <2>1. CASE CheckDenied(p) \/ CheckActive(p) \/ CheckUser(p)
    BY <2>1 DEF CheckDenied, CheckActive, CheckUser, Verified, MintLabels, Shape, ShapeOf
  <2>2. CASE CheckKnown(p)
    BY <2>2 DEF CheckKnown, Verified, Rejected, MintLabels, Shape, ShapeOf
  <2>3. CASE Remember(p)
    <3>1. /\ owner' = [owner EXCEPT ![req[p].new] = req[p].usr]
          /\ Continue(p, "persist") /\ UNCHANGED live /\ pc[p] = "remember"
      BY <2>3 DEF Remember
    <3>2. req[p].new \in Pairs /\ owner[req[p].new] = None
      BY <3>1 DEF Shape, ShapeOf, MintLabels, VerifyLabels, RevokeLabels, RetireLabels
    <3>3. \A q \in Handlers \ {p} : req[q].new # req[p].new
      BY <3>2 DEF Minting
    <3>4. QED BY <3>1, <3>2, <3>3 DEF MintLabels
  <2>4. CASE Persist(p) \/ Deny(p) \/ Unmark(p) \/ RetireRow(p) \/ Respond(p) \/ DenyAccess(p)
    BY <2>4 DEF Persist, Deny, Unmark, RetireRow, Respond, DenyAccess, MintLabels, Shape, ShapeOf,
                VerifyLabels, RevokeLabels, RetireLabels
  <2>5. CASE WriteUser(p) \/ Scan(p)
    BY <2>5 DEF WriteUser, Scan, MintLabels
  <2>6. CASE FindLive(p)
    <3>1. req[p].usr \in Users
      BY <2>6 DEF FindLive, Minting, Shape, ShapeOf
    <3>2. /\ live' = [live EXCEPT ![p] = live'[p]] /\ live'[p] \subseteq PairsOf(req[p].usr)
          /\ Continue(p, "denyLive") /\ UNCHANGED owner /\ pc[p] = "findLive"
      BY <2>6 DEF FindLive
    <3>3. QED BY <3>1, <3>2 DEF PairsOf, MintLabels
  <2>7. CASE \E j \in Pairs : DenyLive(p, j)
    BY <2>7 DEF DenyLive
  <2>8. CASE RetireAll(p)
    BY <2>8 DEF RetireAll, Rejected, MintLabels, Shape, ShapeOf
  <2>9. QED BY <1>3, <2>1, <2>2, <2>3, <2>4, <2>5, <2>6, <2>7, <2>8 DEF Step
<1>4. ASSUME NEW p \in Handlers, Crash(p) PROVE Found'
  BY <1>4 DEF Crash, Finish, Goto, NoRequest, Typed, TypeOK, Found
<1>5. CASE Environment
  BY <1>5 DEF Environment, Activate, Expire, ExpireAccess, LapseDenial, Purge, Found
<1>6. QED BY <1>1, <1>2, <1>3, <1>4, <1>5 DEF Next

\* Past its SCAN, the sessions a revocation has to end have no marker; they have an
\* owner, so no handler will write one again; and whoever was to insert the row of one
\* that it ended has done so.
Revocation ==
    /\ \A p \in Handlers :
          pc[p] \in {"findLive", "denyLive"} =>
             \A j \in doomed[p] : j \notin marker /\ owner[j] = req[p].usr /\ owner[j] \in Users
    /\ \A j \in condemned : /\ j \notin marker /\ row[j] # "live"
                            /\ owner[j] \in Users /\ ~Persisting(j)

\* A handler that goes on to a check, or ends, disturbs no revocation.
LEMMA QuietRevocation ==
  ASSUME Typed, Revocation, NEW p \in Handlers,
         Finish(p) \/ \E label \in VerifyLabels \cup {"checkUser", "remember", "deny", "denyAccess"} :
                        Continue(p, label),
         UNCHANGED <<marker, row, owner, doomed, condemned>>
  PROVE  Revocation'
<1>1. CASE Finish(p)
  BY <1>1 DEF Finish, Goto, NoRequest, Revocation, Persisting, Typed, TypeOK
<1>2. CASE \E label \in VerifyLabels \cup {"checkUser", "remember", "deny", "denyAccess"} :
              Continue(p, label)
  BY <1>2 DEF Continue, Goto, VerifyLabels, Revocation, Persisting, Typed, TypeOK
<1>3. QED BY <1>1, <1>2

LEMMA NextRevocation ==
  ASSUME ~RedisMayFail, ~PostgresMayFail
  PROVE  Typed /\ Minting /\ Found /\ Revocation /\ [Next]_vars => Revocation'
<1> SUFFICES ASSUME Typed, Minting, Found, Revocation, [Next]_vars PROVE Revocation'
  OBVIOUS
<1> USE DEF history, jwts, redis, postgres, Persisting
<1>1. CASE UNCHANGED vars
  BY <1>1 DEF vars, Revocation
<1>2. ASSUME NEW p \in Handlers, Arrive(p) PROVE Revocation'
  BY <1>2 DEF Arrive, Login, ChangePassword, Deactivate, Refresh, Logout, Begin, Goto,
              Revocation, Typed, TypeOK
<1>3. ASSUME NEW p \in Handlers, Step(p) PROVE Revocation'
  <2> USE DEF Continue, Goto, Typed, TypeOK
  <2>1. CASE CheckDenied(p)
    BY <2>1 DEF CheckDenied, Finish, NoRequest, Request, Revocation
  <2>2. CASE CheckActive(p)
    BY <2>2 DEF CheckActive, Verified, Finish, NoRequest, Request, Revocation
  <2>3. CASE CheckKnown(p)
    <3>1. Finish(p) \/ \E label \in {"checkUser", "deny", "denyAccess"} : Continue(p, label)
      BY <2>3 DEF CheckKnown, Verified, Rejected
    <3>2. UNCHANGED <<marker, row, owner, doomed, condemned>>
      BY <2>3 DEF CheckKnown
    <3>3. QED BY <3>1, <3>2, QuietRevocation
  <2>4. CASE CheckUser(p)
    <3>1. Finish(p) \/ Continue(p, "remember")
      BY <2>4 DEF CheckUser
    <3>2. UNCHANGED <<marker, row, owner, doomed, condemned>>
      BY <2>4 DEF CheckUser
    <3>3. QED BY <3>1, <3>2, QuietRevocation
  <2>5. CASE Remember(p)
    <3>1. /\ owner' = [owner EXCEPT ![req[p].new] = req[p].usr]
          /\ marker' = marker \cup {req[p].new} /\ pc[p] = "remember"
          /\ Continue(p, "persist") /\ UNCHANGED <<row, doomed, condemned>>
      BY <2>5 DEF Remember, RedisCall
    <3>2. req[p].new \in Pairs /\ owner[req[p].new] = None
      BY <3>1 DEF Found, Shape, ShapeOf, MintLabels, VerifyLabels, RevokeLabels, RetireLabels
    <3>3. \A q \in Handlers : \A j \in doomed[q] :
             pc[q] \in {"findLive", "denyLive"} => j # req[p].new
      BY <3>2, SessionsAssumption DEF Revocation
    <3>4. req[p].new \notin condemned
      BY <3>2, SessionsAssumption DEF Revocation
    <3>5. QED BY <3>1, <3>2, <3>3, <3>4 DEF Revocation
  <2>6. CASE Persist(p)
    <3>1. /\ pc[p] = "persist" /\ \A j \in Pairs : j # req[p].new => row'[j] = row[j]
          /\ \E label \in {"respond", "deny"} : Continue(p, label)
          /\ UNCHANGED <<marker, owner, doomed, condemned>>
      BY <2>6 DEF Persist
    <3>2. req[p].new \notin condemned
      BY <3>1 DEF Revocation
    <3>3. QED BY <3>1, <3>2 DEF Revocation
  <2>7. CASE Respond(p)
    BY <2>7 DEF Respond, Finish, NoRequest, Request, Revocation
  <2>8. CASE Deny(p)
    BY <2>8 DEF Deny, Finish, NoRequest, Request, Revocation
  <2>9. CASE Unmark(p)
    BY <2>9 DEF Unmark, Finish, NoRequest, Request, Revocation
  <2>10. CASE RetireRow(p)
    BY <2>10 DEF RetireRow, Finish, NoRequest, Request, Revocation
  <2>11. CASE DenyAccess(p)
    BY <2>11 DEF DenyAccess, Finish, NoRequest, Request, Revocation
  <2>12. CASE WriteUser(p)
    BY <2>12 DEF WriteUser, Finish, NoRequest, Request, Revocation
  <2>13. CASE Scan(p)
    <3>1. /\ marker' = marker \ PairsOf(req[p].usr)
          /\ doomed' = [doomed EXCEPT ![p] = PairsOf(req[p].usr)]
          /\ Continue(p, "findLive") /\ UNCHANGED <<owner, row, condemned>> /\ pc[p] = "scan"
      BY <2>13 DEF Scan
    <3>2. req[p].usr \in Users
      BY <3>1 DEF Minting, Shape, ShapeOf
    <3>3. QED BY <3>1, <3>2 DEF PairsOf, Revocation
  <2>14. CASE FindLive(p)
    BY <2>14 DEF FindLive, Finish, NoRequest, Request, Revocation
  <2>15. CASE \E j \in Pairs : DenyLive(p, j)
    BY <2>15 DEF DenyLive, Revocation
  <2>16. CASE RetireAll(p)
    <3>1. /\ pc[p] = "denyLive"
          /\ row' = [j \in Pairs |-> IF owner[j] = req[p].usr /\ row[j] = "live"
                                     THEN "revoked" ELSE row[j]]
          /\ condemned' = condemned \cup {j \in doomed[p] : ~Persisting(j)}
          /\ doomed' = [doomed EXCEPT ![p] = {}]
          /\ Continue(p, "denyAccess") \/ Finish(p)
          /\ UNCHANGED <<marker, owner>>
      BY <2>16 DEF RetireAll, Rejected, PostgresCall
    <3>2. /\ \A q \in Handlers : q # p => pc'[q] = pc[q] /\ req'[q] = req[q] /\ doomed'[q] = doomed[q]
          /\ pc'[p] \in {"denyAccess", "idle"}
      BY <3>1 DEF Finish
    <3>3. \A j \in condemned' : /\ j \notin marker /\ row'[j] # "live"
                               /\ owner[j] \in Users /\ ~Persisting(j)
      BY <3>1 DEF Revocation
    <3>4. \A j \in condemned' : ~Persisting(j)'
      BY <3>2, <3>3
    <3>5. QED BY <3>1, <3>2, <3>3, <3>4 DEF Revocation
  <2>17. QED BY <1>3, <2>1, <2>2, <2>3, <2>4, <2>5, <2>6, <2>7, <2>8, <2>9, <2>10, <2>11, <2>12, <2>13, <2>14, <2>15, <2>16 DEF Step
<1>4. ASSUME NEW p \in Handlers, Crash(p) PROVE Revocation'
  BY <1>4 DEF Crash, Finish, Goto, NoRequest, Revocation, Typed, TypeOK
<1>5. CASE Environment
  BY <1>5 DEF Environment, Activate, Expire, ExpireAccess, LapseDenial, Purge, Revocation, Typed, TypeOK
<1>6. QED BY <1>1, <1>2, <1>3, <1>4, <1>5 DEF Next

\* TokenService.revokeAllSessions: with both stores answering, a session that was
\* remembered when a revocation swept the markers of its user, and stored when it had
\* retired the rows, is refused from then on, whatever logins, refreshes and other
\* revocations it raced.
THEOREM RevocationIsSafe ==
  ~RedisMayFail /\ ~PostgresMayFail => (Spec => []RevocationIsFinal)
<1> SUFFICES ASSUME ~RedisMayFail, ~PostgresMayFail PROVE Spec => []RevocationIsFinal
  OBVIOUS
<1>1. Init => Revocation
  BY DEF Init, Revocation
<1>2. Typed /\ Minting /\ Found /\ Revocation /\ [Next]_vars => Revocation'
  BY NextRevocation
<1>3. Revocation => RevocationIsFinal
  BY DEF Revocation, RevocationIsFinal, Usable
<1>4. Spec => []Typed
  BY TypeCorrect, PTL DEF Typed
<1>5. Spec => []Minting
  BY <1>4, InitMinting, NextMinting, PTL DEF Spec
<1>6. Spec => []Found
  BY <1>4, <1>5, InitFound, NextFound, PTL DEF Spec
<1>7. QED BY <1>1, <1>2, <1>3, <1>4, <1>5, <1>6, PTL DEF Spec

-----------------------------------------------------------------------------
(* DeadStaysDead, and EndedForCause: what a step adds to the stores, and    *)
(* what it takes away.  Both hold whatever the stores do.                   *)

\* A marker or a live row appears only for a pair that a handler is minting.
Births ==
    /\ delivered \subseteq delivered' /\ accessExpired \subseteq accessExpired'
    /\ accessDenied \subseteq accessDenied' \cup accessExpired'
    /\ expired \subseteq expired'
    /\ denied \subseteq denied' \cup expired' \cup floored'
    /\ "expire" \notin Ops => denied \subseteq denied'
    /\ \A j \in Pairs :
          \/ \E p \in Handlers : req[p].new = j
          \/ /\ j \in marker' => j \in marker
             /\ row'[j] = "live" => row[j] = "live"

LEMMA NextBirths == Typed /\ [Next]_vars => Births
<1> SUFFICES ASSUME Typed, [Next]_vars PROVE Births
  OBVIOUS
<1> USE DEF history, jwts, redis, postgres, Births
<1>1. CASE UNCHANGED vars
  BY <1>1 DEF vars
<1>2. ASSUME NEW p \in Handlers, Arrive(p) PROVE Births
  BY <1>2 DEF Arrive, Login, ChangePassword, Deactivate, Refresh, Logout, Begin
<1>3. ASSUME NEW p \in Handlers, Step(p) PROVE Births
  <2>1. CASE CheckDenied(p) \/ CheckActive(p) \/ CheckKnown(p) \/ CheckUser(p)
             \/ WriteUser(p) \/ FindLive(p) \/ Deny(p) \/ (\E j \in Pairs : DenyLive(p, j))
             \/ DenyAccess(p) \/ Unmark(p) \/ Scan(p) \/ Respond(p)
    BY <2>1 DEF CheckDenied, CheckActive, CheckKnown, CheckUser, WriteUser, FindLive, Deny,
                DenyLive, DenyAccess, Unmark, Scan, Respond
  <2>2. CASE Remember(p)
    BY <2>2 DEF Remember
  <2>3. CASE Persist(p)
    BY <2>3 DEF Persist, Typed, TypeOK
  <2>4. CASE RetireRow(p) \/ RetireAll(p)
    BY <2>4 DEF RetireRow, RetireAll, Typed, TypeOK
  <2>5. QED BY <1>3, <2>1, <2>2, <2>3, <2>4 DEF Step
<1>4. ASSUME NEW p \in Handlers, Crash(p) PROVE Births
  BY <1>4 DEF Crash
<1>5. CASE Environment
  BY <1>5 DEF Environment, Activate, Expire, ExpireAccess, LapseDenial, Purge, Typed, TypeOK
<1>6. QED BY <1>1, <1>2, <1>3, <1>4, <1>5 DEF Next

\* No late insert, marker, denial or purge of any handler brings a refused token back,
\* whatever Redis, Postgres and crashes do: what is minted is minted before a client holds
\* it, and a denylist entry lapses with its token, but for one of revokeAllSessions.
THEOREM DeadSessionsStayDead == Spec => DeadStaysDead
<1> DEFINE Keeps == \A j \in delivered :
                      /\ ~Usable(j) /\ Usable(j)' => j \in denied /\ Lapsed(j)'
                      /\ ~AccessAccepted(j) => ~AccessAccepted(j)'
<1>1. Typed /\ Minting /\ [Next]_vars => Keeps
  <2> SUFFICES ASSUME Typed, Minting, [Next]_vars, NEW j \in delivered
               PROVE  /\ ~Usable(j) /\ Usable(j)' => j \in denied /\ Lapsed(j)'
                      /\ ~AccessAccepted(j) => ~AccessAccepted(j)'
    OBVIOUS
  <2>1. Births /\ j \in Pairs
    BY NextBirths DEF Typed, TypeOK
  <2>2. \A p \in Handlers : req[p].new # j
    BY DEF Minting
  <2>3. ~Usable(j) /\ Usable(j)' => j \in denied /\ Lapsed(j)'
    BY <2>1, <2>2 DEF Births, Usable, Lapsed
  <2>4. ~AccessAccepted(j) => ~AccessAccepted(j)'
    BY <2>1 DEF Births, AccessAccepted
  <2>5. QED BY <2>3, <2>4
<1>2. Spec => []Typed
  BY TypeCorrect, PTL DEF Typed
<1>3. Spec => []Minting
  BY <1>2, InitMinting, NextMinting, PTL DEF Spec
<1> HIDE DEF Keeps
<1>4. Typed /\ Minting /\ [Next]_vars => [Keeps]_vars
  BY <1>1
<1>5. Spec => [][Keeps]_vars
  BY <1>2, <1>3, <1>4, PTL DEF Spec
<1>6. QED BY <1>5 DEF Keeps, DeadStaysDead

\* What may take a session's last proof away.
Cause(j) ==
    \/ j \in expired'
    \/ \E p \in Handlers :
          \/ pc[p] \in {"deny", "unmark", "retireRow"} /\ req[p].tok = j
          \/ pc[p] \in {"scan", "denyLive"} /\ req[p].usr = owner[j]

LEMMA NextCause ==
  ASSUME Typed, Found, [Next]_vars, NEW j \in Pairs, Usable(j), ~Usable(j)'
  PROVE  Cause(j)
<1> USE DEF history, jwts, redis, postgres, Usable, Cause
<1>1. CASE UNCHANGED vars
  BY <1>1 DEF vars
<1>2. ASSUME NEW p \in Handlers, Arrive(p) PROVE Cause(j)
  BY <1>2 DEF Arrive, Login, ChangePassword, Deactivate, Refresh, Logout, Begin
<1>3. ASSUME NEW p \in Handlers, Step(p) PROVE Cause(j)
  <2>1. CASE CheckDenied(p) \/ CheckActive(p) \/ CheckKnown(p) \/ CheckUser(p)
             \/ WriteUser(p) \/ FindLive(p) \/ DenyAccess(p) \/ Respond(p) \/ Remember(p)
    BY <2>1 DEF CheckDenied, CheckActive, CheckKnown, CheckUser, WriteUser, FindLive,
                DenyAccess, Respond, Remember
  <2>2. CASE Persist(p)
    BY <2>2 DEF Persist, Typed, TypeOK
  <2>3. CASE Deny(p)
    BY <2>3 DEF Deny
  <2>4. CASE Unmark(p)
    BY <2>4 DEF Unmark
  <2>5. CASE RetireRow(p)
    BY <2>5 DEF RetireRow, Typed, TypeOK
  <2>6. CASE Scan(p)
    BY <2>6 DEF Scan, PairsOf
  <2>7. CASE \E i \in Pairs : DenyLive(p, i)
    BY <2>7 DEF DenyLive, Found
  <2>8. CASE RetireAll(p)
    BY <2>8 DEF RetireAll, Typed, TypeOK
  <2>9. QED BY <1>3, <2>1, <2>2, <2>3, <2>4, <2>5, <2>6, <2>7, <2>8 DEF Step
<1>4. ASSUME NEW p \in Handlers, Crash(p) PROVE Cause(j)
  BY <1>4 DEF Crash
<1>5. CASE Environment
  BY <1>5 DEF Environment, Activate, Expire, ExpireAccess, LapseDenial, Purge, Typed, TypeOK
<1>6. QED BY <1>1, <1>2, <1>3, <1>4, <1>5 DEF Next

\* A session ends because its own token was rotated or logged out, because the sessions of
\* its user are being revoked, or because it expired: the keys and rows a handler deletes
\* are those of the token or of the user it was called for.
THEOREM SessionsEndForCause == Spec => EndedForCause
<1> DEFINE Ends == \A j \in delivered : Usable(j) /\ ~Usable(j)' => Cause(j)
<1>1. Typed /\ Found /\ [Next]_vars => Ends
  BY NextCause DEF Typed, TypeOK
<1>2. Spec => []Typed
  BY TypeCorrect, PTL DEF Typed
<1>3. Spec => []Minting
  BY <1>2, InitMinting, NextMinting, PTL DEF Spec
<1>4. Spec => []Found
  BY <1>2, <1>3, InitFound, NextFound, PTL DEF Spec
<1> HIDE DEF Ends
<1>5. Typed /\ Found /\ [Next]_vars => [Ends]_vars
  BY <1>1
<1>6. Spec => [][Ends]_vars
  BY <1>2, <1>4, <1>5, PTL DEF Spec
<1>7. QED BY <1>6 DEF Ends, Cause, EndedForCause


-----------------------------------------------------------------------------
(* One request at a time: Sessions implements SingleUseSessions.            *)

\* What a handler with nobody beside it knows: the token it goes on with is in force up
\* to its denial, and the pair it mints is in force before the client has it.
Undisturbed ==
    /\ expired = {}
    /\ \A j \in denied : owner[j] # None
    /\ \A p \in Handlers :
          /\ req[p].tok # None => req[p].tok \in delivered
          /\ pc[p] \in {"checkActive", "checkKnown"} => req[p].tok \notin denied
          /\ pc[p] \in {"checkUser", "remember", "persist", "deny"} /\ req[p].tok # None =>
                Usable(req[p].tok)
          /\ pc[p] \in MintLabels /\ req[p].new # None => req[p].new \in marker \ denied

LEMMA NextUndisturbed ==
  ASSUME NEW h, Handlers = {h}, ~RedisMayFail, "expire" \notin Ops
  PROVE  Typed /\ Minting /\ Found /\ Undisturbed /\ [Next]_vars => Undisturbed'
<1> SUFFICES ASSUME Typed, Minting, Found, Undisturbed, [Next]_vars PROVE Undisturbed'
  OBVIOUS
<1> USE DEF history, jwts, redis, postgres
<1>1. CASE UNCHANGED vars
  BY <1>1 DEF vars, Undisturbed, Usable
<1>2. CASE Arrive(h)
  <2> USE DEF Begin, Goto, Typed, TypeOK, Request, MintLabels, Undisturbed, Usable
  <2>1. CASE \E u \in Users : Login(h, u)
    BY <2>1 DEF Login, FreshPairs
  <2>2. CASE \E u \in Users : ChangePassword(h, u)
    BY <2>2 DEF ChangePassword
  <2>3. CASE \E u \in Users : Deactivate(h, u)
    BY <2>3 DEF Deactivate
  <2>4. CASE \E j \in Pairs : Refresh(h, j)
    BY <2>4 DEF Refresh
  <2>5. CASE \E a \in Pairs, j \in Pairs \cup {None} : Logout(h, j, a)
    BY <2>5 DEF Logout
  <2>6. QED BY <1>2, <2>1, <2>2, <2>3, <2>4, <2>5 DEF Arrive
<1>3. CASE Step(h)
  <2> USE DEF Continue, Finish, Goto, NoRequest, Typed, TypeOK, Undisturbed, Usable
  <2>1. CASE CheckDenied(h)
    BY <2>1 DEF CheckDenied, RedisCall, MintLabels
  <2>2. CASE CheckActive(h)
    BY <2>2 DEF CheckActive, RedisCall, Verified, MintLabels, Shape, ShapeOf, VerifyLabels,
                RevokeLabels, RetireLabels
  <2>3. CASE CheckKnown(h)
    BY <2>3 DEF CheckKnown, Verified, Rejected, MintLabels, Shape, ShapeOf, VerifyLabels,
                RevokeLabels, RetireLabels
  <2>4. CASE CheckUser(h)
    BY <2>4 DEF CheckUser, MintLabels
  <2>5. CASE Remember(h)
    <3>1. req[h].new \in Pairs /\ req[h].new \notin denied
      BY <2>5 DEF Remember, Found, Shape, ShapeOf, MintLabels, VerifyLabels, RevokeLabels,
                  RetireLabels
    <3>2. req[h].new # req[h].tok
      BY <3>1, SessionsAssumption DEF Minting
    <3>3. QED BY <2>5, <3>1, <3>2 DEF Remember, RedisCall, MintLabels, Minting
  <2>6. CASE Persist(h)
    BY <2>6 DEF Persist, MintLabels
  <2>7. CASE Respond(h)
    BY <2>7 DEF Respond, MintLabels
  <2>8. CASE Deny(h)
    <3>1. req[h].tok \in delivered /\ req[h].tok # req[h].new
      BY <2>8 DEF Deny, Shape, ShapeOf, VerifyLabels, RevokeLabels, RetireLabels, MintLabels,
                  Minting
    <3>2. QED BY <2>8, <3>1 DEF Deny, RedisCall, MintLabels, Minting
  <2>9. CASE Unmark(h)
    BY <2>9 DEF Unmark, MintLabels, Minting
  <2>10. CASE RetireRow(h)
    BY <2>10 DEF RetireRow, MintLabels
  <2>11. CASE DenyAccess(h)
    BY <2>11 DEF DenyAccess, MintLabels
  <2>12. CASE WriteUser(h)
    BY <2>12 DEF WriteUser, MintLabels
  <2>13. CASE Scan(h)
    BY <2>13 DEF Scan, MintLabels
  <2>14. CASE FindLive(h)
    BY <2>14 DEF FindLive, MintLabels
  <2>15. CASE \E j \in Pairs : DenyLive(h, j)
    BY <2>15 DEF DenyLive, Found, MintLabels
  <2>16. CASE RetireAll(h)
    BY <2>16 DEF RetireAll, Rejected, MintLabels
  <2>17. QED BY <1>3, <2>1, <2>2, <2>3, <2>4, <2>5, <2>6, <2>7, <2>8, <2>9, <2>10, <2>11, <2>12,
                <2>13, <2>14, <2>15, <2>16 DEF Step
<1>4. CASE Crash(h)
  BY <1>4 DEF Crash, Finish, Goto, NoRequest, Typed, TypeOK, Undisturbed, Usable, MintLabels
<1>5. CASE Environment
  BY <1>5 DEF Environment, Activate, Expire, ExpireAccess, LapseDenial, Purge, Undisturbed, Usable
<1>6. QED BY <1>1, <1>2, <1>3, <1>4, <1>5 DEF Next

\* The three sets of SingleUseSessions, as Sessions has them.
Alive == {j \in delivered : Usable(j)}
Ended == {j \in delivered : ~Usable(j)}
Due   == {j \in Pairs : \E p \in Handlers : /\ pc[p] \in {"unmark", "retireRow", "respond"}
                                            /\ req[p].op = "refresh" /\ req[p].tok = j}

\* A step that hands out no pair and settles none can only end sessions.
LEMMA EndsOnly ==
  ASSUME "expire" \notin Ops, Typed, Minting, [Next]_vars, delivered' = delivered, Due' = Due
  PROVE  [Abstract!Next]_(Abstract!vars)
<1>1. \A j \in delivered : ~Usable(j) => ~Usable(j)'
  BY NextBirths DEF Births, Minting, Usable, Typed, TypeOK
<1> DEFINE S == Alive \ Alive'
<1>2. Alive' = Alive \ S /\ Ended' = Ended \cup S /\ S \subseteq Alive
  BY <1>1 DEF Alive, Ended
<1>3. S \in SUBSET Pairs
  BY DEF Alive, Typed, TypeOK
<1> HIDE DEF S
<1>4. CASE S = {}
  BY <1>2, <1>4 DEF Abstract!vars, Alive, Ended, Due
<1>5. CASE S # {}
  <2>1. Abstract!End(S)
    BY <1>2, <1>5 DEF Abstract!End, Alive, Ended, Due
  <2>2. QED BY <2>1, <1>3 DEF Abstract!Next
<1>6. QED BY <1>4, <1>5


\* The step of a lone handler, by what the abstract token machine sees of it.
LEMMA SerialSimulation ==
  ASSUME NEW h, Handlers = {h}, ~RedisMayFail, "expire" \notin Ops
  PROVE  Typed /\ Minting /\ Found /\ Undisturbed /\ [Next]_vars
            => [Abstract!Next]_(Abstract!vars)
<1> SUFFICES ASSUME Typed, Minting, Found, Undisturbed, [Next]_vars
             PROVE  [Abstract!Next]_(Abstract!vars)
  OBVIOUS
<1> USE DEF history, jwts, redis, postgres
<1> DEFINE Owing == pc[h] \in {"unmark", "retireRow", "respond"} /\ req[h].op = "refresh"
<1>0. /\ Due = IF Owing THEN {req[h].tok} ELSE {}
      /\ Due' = IF Owing' THEN {req'[h].tok} ELSE {}
  <2>1. Owing => req[h].tok \in Pairs
    BY DEF Typed, Shape, ShapeOf
  <2>2. Owing' => req'[h].tok \in Pairs
    <3>1. Typed'
      BY NextTyped DEF Typed
    <3>2. QED BY <3>1 DEF Typed, Shape, ShapeOf
  <2>3. QED BY <2>1, <2>2 DEF Due
<1>1. CASE UNCHANGED vars
  BY <1>1, EndsOnly DEF vars, Due
<1>2. CASE Arrive(h)
  <2>1. ~Owing /\ ~Owing' /\ delivered' = delivered
    BY <1>2 DEF Arrive, Login, ChangePassword, Deactivate, Refresh, Logout, Begin, Goto, Typed,
                TypeOK
  <2>2. QED BY <1>0, <2>1, EndsOnly
<1>3. CASE Environment
  <2>1. UNCHANGED <<pc, req, delivered>>
    BY <1>3 DEF Environment, Activate, Expire, ExpireAccess, LapseDenial, Purge
  <2>2. QED BY <2>1, EndsOnly DEF Due
<1>4. CASE Crash(h)
  <2>1. ~Owing' /\ UNCHANGED <<delivered, marker, denied, expired, row>>
    BY <1>4 DEF Crash, Finish, Goto, NoRequest, Typed, TypeOK
  <2>2. CASE Owing
    <3>1. PICK i \in Pairs : i = req[h].tok
      BY <2>2 DEF Typed, Shape, ShapeOf
    <3>2. Due = {i} /\ Due' = {} /\ Alive' = Alive /\ Ended' = Ended
      BY <1>0, <2>1, <2>2, <3>1 DEF Alive, Ended, Usable
    <3>3. Abstract!Forfeit(i)
      BY <3>2 DEF Abstract!Forfeit, Alive, Ended, Due
    <3>4. QED BY <3>3 DEF Abstract!Next
  <2>3. CASE ~Owing
    BY <1>0, <2>1, <2>3, EndsOnly
  <2>4. QED BY <2>2, <2>3
<1>5. CASE Deny(h)
  <2>1. /\ pc[h] = "deny" /\ Continue(h, "unmark")
        /\ denied' = denied \cup {req[h].tok}
        /\ UNCHANGED <<delivered, marker, expired, row>>
    BY <1>5 DEF Deny, RedisCall, Undisturbed
  <2>2. ~Owing /\ req[h].op \in {"refresh", "logout"} /\ req[h].tok \in Pairs
        /\ (Owing' <=> req[h].op = "refresh") /\ UNCHANGED req
    BY <2>1 DEF Continue, Goto, Shape, ShapeOf, Typed, TypeOK, VerifyLabels, RevokeLabels,
                RetireLabels, MintLabels
  <2>3. CASE req[h].op = "logout"
    BY <1>0, <2>1, <2>2, <2>3, EndsOnly
  <2>4. CASE req[h].op = "refresh"
    <3>1. PICK i \in Pairs : i = req[h].tok
      BY <2>2
    <3>2. i \in Alive
      BY <2>1, <2>2, <3>1, SessionsAssumption DEF Undisturbed, Alive
    <3>3. Alive' = Alive \ {i} /\ Ended' = Ended \cup {i}
      BY <2>1, <3>1, <3>2 DEF Alive, Ended, Usable
    <3>4. Due = {} /\ Due' = {i}
      BY <1>0, <2>2, <2>4, <3>1
    <3>5. Abstract!Spend(i)
      BY <3>2, <3>3, <3>4 DEF Abstract!Spend, Alive, Ended, Due
    <3>6. QED BY <3>5 DEF Abstract!Next
  <2>5. QED BY <2>2, <2>3, <2>4
<1>6. CASE Respond(h)
  <2>0. PICK k \in Pairs : k = req[h].new
    BY <1>6 DEF Respond, Shape, ShapeOf, Typed, TypeOK, VerifyLabels, RevokeLabels, RetireLabels,
                MintLabels
  <2>1. /\ pc[h] = "respond" /\ ~Owing'
        /\ delivered' = delivered \cup {k}
        /\ UNCHANGED <<denied, marker, expired, row>>
    BY <1>6, <2>0 DEF Respond, Finish, Goto, NoRequest, Typed, TypeOK
  <2>2. /\ req[h].op \in {"login", "refresh"} /\ k \notin delivered
        /\ Owing <=> req[h].op = "refresh"
    BY <2>0, <2>1 DEF Shape, ShapeOf, Typed, TypeOK, VerifyLabels, RevokeLabels, RetireLabels,
                MintLabels, Minting
  <2>3. Usable(k)
    BY <2>0, <2>1, SessionsAssumption DEF Undisturbed, Usable, MintLabels
  <2>4. Alive' = Alive \cup {k} /\ Ended' = Ended /\ k \notin Alive \cup Ended
    BY <2>1, <2>2, <2>3 DEF Alive, Ended, Usable
  <2>5. CASE req[h].op = "login"
    <3>1. Abstract!Start(k)
      BY <1>0, <2>1, <2>2, <2>4, <2>5 DEF Abstract!Start, Abstract!Unused, Alive, Ended, Due
    <3>2. QED BY <2>2, <3>1 DEF Abstract!Next
  <2>6. CASE req[h].op = "refresh"
    <3>1. PICK i \in Pairs : i = req[h].tok
      BY <2>6 DEF Typed, Shape, ShapeOf
    <3>2. Due = {i} /\ Due' = {}
      BY <1>0, <2>1, <2>2, <2>6, <3>1
    <3>3. Abstract!Grant(i, k)
      BY <2>4, <3>2 DEF Abstract!Grant, Abstract!Unused, Alive, Ended, Due
    <3>4. QED BY <2>2, <3>3 DEF Abstract!Next
  <2>7. QED BY <2>2, <2>5, <2>6
<1>7. CASE Unmark(h) \/ RetireRow(h)
  <2>1. /\ pc[h] \in {"unmark", "retireRow"} /\ UNCHANGED <<req, delivered>>
        /\ req[h].op = "refresh" => pc'[h] \in {"retireRow", "respond"}
    BY <1>7 DEF Unmark, RetireRow, Continue, Goto, Typed, TypeOK
  <2>2. Due' = Due
    BY <1>0, <2>1
  <2>3. QED BY <2>1, <2>2, EndsOnly
<1>8. CASE \/ CheckDenied(h) \/ CheckActive(h) \/ CheckKnown(h) \/ CheckUser(h)
           \/ Remember(h) \/ Persist(h) \/ DenyAccess(h) \/ WriteUser(h) \/ Scan(h)
           \/ FindLive(h) \/ RetireAll(h) \/ \E j \in Pairs : DenyLive(h, j)
  <2>1. ~Owing /\ delivered' = delivered
    BY <1>8 DEF CheckDenied, CheckActive, CheckKnown, CheckUser, Remember, Persist, DenyAccess,
                WriteUser, Scan, FindLive, RetireAll, DenyLive
  <2>2. ~Owing'
    <3> USE DEF Continue, Finish, Goto, NoRequest, Typed, TypeOK
    <3>1. CASE CheckDenied(h) \/ CheckActive(h) \/ CheckKnown(h) \/ CheckUser(h)
      BY <3>1 DEF CheckDenied, CheckActive, CheckKnown, CheckUser, Verified, Rejected
    <3>2. CASE Remember(h) \/ Persist(h) \/ DenyAccess(h)
      BY <3>2 DEF Remember, Persist, DenyAccess
    <3>3. CASE WriteUser(h) \/ Scan(h) \/ FindLive(h) \/ RetireAll(h)
      BY <3>3 DEF WriteUser, Scan, FindLive, RetireAll, Rejected
    <3>4. CASE \E j \in Pairs : DenyLive(h, j)
      BY <2>1, <3>4 DEF DenyLive
    <3>5. QED BY <1>8, <3>1, <3>2, <3>3, <3>4
  <2>3. QED BY <1>0, <2>1, <2>2, EndsOnly
<1>9. QED
  BY <1>1, <1>2, <1>3, <1>4, <1>5, <1>6, <1>7, <1>8 DEF Next, Step

\* With one request at a time, Redis answering and nothing expiring, every behaviour of the
\* token service is one of SingleUseSessions: a refresh spends its token before it grants
\* the heir, a lost answer forfeits it, and every other end of a session is an End.
\* Postgres may refuse any write, and the process may die between any two steps.
THEOREM SerialSessionsImplement ==
  ASSUME NEW h, Handlers = {h}, ~RedisMayFail, "expire" \notin Ops
  PROVE  Spec => ImplementsSingleUse
<1>1. Init => Abstract!Init /\ Undisturbed
  BY SessionsAssumption DEF Init, Abstract!Init, Undisturbed, NoRequest, MintLabels
<1>2. Typed /\ Minting /\ Found /\ Undisturbed /\ [Next]_vars => [Abstract!Next]_(Abstract!vars)
  BY SerialSimulation
<1>3. Typed /\ Minting /\ Found /\ Undisturbed /\ [Next]_vars => Undisturbed'
  BY NextUndisturbed
<1>4. Spec => []Typed
  BY TypeCorrect, PTL DEF Typed
<1>5. Spec => []Minting
  BY <1>4, InitMinting, NextMinting, PTL DEF Spec
<1>6. Spec => []Found
  BY <1>4, <1>5, InitFound, NextFound, PTL DEF Spec
<1>7. Spec => []Undisturbed
  BY <1>1, <1>3, <1>4, <1>5, <1>6, PTL DEF Spec
<1>8. Spec => Abstract!Spec
  BY <1>1, <1>2, <1>4, <1>5, <1>6, <1>7, PTL DEF Spec, Abstract!Spec
<1>9. QED BY <1>8 DEF ImplementsSingleUse

=============================================================================
