---------------------------- MODULE MarketProofs ----------------------------
(***************************************************************************)
(* Of Leads: that the pipeline moves only as it may and keeps whom to      *)
(* call.  Of Finance: that a schedule repays what is owed to the piastre,  *)
(* and that its last payment is the regular one but for rounding.  Of      *)
(* RateLimits: that no counter or window lets more through than the limit, *)
(* and that fewer others than the limit are in what refuses a call.        *)
(***************************************************************************)
EXTENDS Leads, Finance, RateLimits, FiniteSetTheorems, WellFoundedInduction, TLAPS

-----------------------------------------------------------------------------
\* Leads: the pipeline holds, the contact is kept, and every move is legal.

Shape ==
    \A p \in Handlers :
       /\ pc[p] # "idle" => req[p].id \in Leads
       /\ pc[p] = "bump" => req[p].property \in Properties
       /\ pc[p] = "write" => existing[p] \in Lead

Typed == TypeOK /\ Shape

\* A lead has one creator; an update holds a status the lead has had, from which
\* its move is allowed, and a first contact it saw is still on the lead.
LeadHistory(l) ==
    /\ Exists(l) => lead[l].status \in been[l]
    /\ "won" \in been[l] => been[l] \cap {"viewing", "negotiating"} # {}
    /\ Exists(l) /\ "contacted" \in been[l] => lead[l].contactedAt > 0

Creator(p) ==
    pc[p] = "create" => /\ been[req[p].id] = {}
                        /\ \A q \in Handlers \ {p} : req[q].id # req[p].id

Holds(p) ==
    pc[p] \in {"checkAgent", "write"} =>
       /\ existing[p] \in Lead
       /\ existing[p].status \in been[req[p].id]
       /\ Allowed(existing[p].status, req[p].status)
       /\ Exists(req[p].id) /\ existing[p].contactedAt > 0 => lead[req[p].id].contactedAt > 0

History == (\A l \in Leads : LeadHistory(l)) /\ (\A p \in Handlers : Creator(p) /\ Holds(p))

USE LeadsAssumption

LEMMA Records == NoLead \notin Lead /\ "new" \in Statuses
<1>1. NoLead.status \notin Statuses /\ "new" \in Statuses
  BY DEF NoLead, Statuses
<1>2. QED BY <1>1 DEF Lead

\* The fields an update writes.
LEMMA WrittenFields ==
  ASSUME Typed, NEW p \in Handlers, NEW d \in Lead
  PROVE  /\ Written(p, d) \in Lead
         /\ Written(p, d).status = IF req[p].status = None THEN d.status ELSE req[p].status
         /\ Written(p, d).contactedAt = IF Stamped(p) THEN clock + 1 ELSE d.contactedAt
<1> DEFINE s == IF req[p].status = None THEN d.status ELSE req[p].status
           a == IF req[p].agent = None THEN d.agent ELSE req[p].agent
           c == IF Stamped(p) THEN clock + 1 ELSE d.contactedAt
<1>1. /\ d.status \in Statuses /\ d.agent \in Users \cup {Null} /\ d.contactedAt \in Nat
      /\ d.property \in Properties \cup {Null}
      /\ d = [status |-> d.status, agent |-> d.agent, contactedAt |-> d.contactedAt,
              property |-> d.property]
  BY DEF Lead
<1>2. /\ req[p].status \in Statuses \cup {None} /\ req[p].agent \in Users \cup {None, Null}
      /\ clock \in Nat
  BY DEF Typed, TypeOK, Request
<1>3. s \in Statuses /\ a \in Users \cup {Null} /\ c \in Nat
  BY <1>1, <1>2
<1>4. Written(p, d) = [d EXCEPT !.status = s, !.agent = a, !.contactedAt = c]
  BY DEF Written
<1> HIDE DEF s, a, c
<1>5. Written(p, d) = [status |-> s, agent |-> a, contactedAt |-> c, property |-> d.property]
  BY <1>1, <1>4
<1>6. QED BY <1>1, <1>3, <1>5 DEF Lead, s, a, c

LEMMA InitInv == Init => Typed /\ History
  BY DEF Init, Typed, TypeOK, Shape, History, LeadHistory, Creator, Holds, NoRequest, Request, NoLead, Labels,
         Exists

\* A step of p on lead l that keeps l's history leaves the other handlers' alone.
LEMMA OthersHistory ==
  ASSUME Typed, History, NEW p \in Handlers, NEW l \in Leads,
         \A m \in Leads \ {l} : lead'[m] = lead[m] /\ been'[m] = been[m],
         LeadHistory(l)', been[l] \subseteq been'[l],
         Exists(l)' /\ Exists(l) /\ lead[l].contactedAt > 0 => lead'[l].contactedAt > 0,
         Exists(l)' /\ ~Exists(l) => been[l] = {},
         been[l] = {} => been'[l] = {} \/ \A q \in Handlers \ {p} : req[q].id # l,
         \A q \in Handlers \ {p} : pc'[q] = pc[q] /\ req'[q] = req[q] /\ existing'[q] = existing[q],
         req'[p].id \in {req[p].id, None} \/ been[req'[p].id] # {}
           \/ \A q \in Handlers : req[q].id # req'[p].id,
         Creator(p)', Holds(p)'
  PROVE  History'
<1>1. \A m \in Leads : LeadHistory(m)'
  BY DEF History, LeadHistory, Exists
<1>2. ASSUME NEW q \in Handlers \ {p}, pc[q] = "create" PROVE Creator(q)'
  <2>1. req[q].id \in Leads /\ been[req[q].id] = {}
    BY <1>2 DEF Typed, Shape, History, Creator
  <2>2. been'[req[q].id] = {}
    BY <2>1
  <2>3. \A q2 \in Handlers \ {q} : req'[q2].id # req[q].id
    BY <1>2, <2>1 DEF History, Creator
  <2>4. QED BY <2>2, <2>3 DEF Creator
<1>3. ASSUME NEW q \in Handlers \ {p}, pc[q] \in {"checkAgent", "write"} PROVE Holds(q)'
  <2>1. req[q].id \in Leads /\ Holds(q)
    BY <1>3 DEF Typed, Shape, History
  <2>2. CASE req[q].id # l
    BY <1>3, <2>1, <2>2 DEF Holds, Exists, Allowed
  <2>3. CASE req[q].id = l
    BY <1>3, <2>1, <2>3 DEF Holds, Exists, Allowed
  <2>4. QED BY <2>2, <2>3
<1>4. QED BY <1>1, <1>2, <1>3 DEF History, Creator, Holds

\* A step of p that changes no lead leaves every history alone but its own.
LEMMA SameHistory ==
  ASSUME Typed, History, NEW p \in Handlers, UNCHANGED <<lead, been>>,
         \A q \in Handlers \ {p} : pc'[q] = pc[q] /\ req'[q] = req[q] /\ existing'[q] = existing[q],
         req'[p].id \in {req[p].id, None} \/ been[req'[p].id] # {}
           \/ \A q \in Handlers : req[q].id # req'[p].id,
         Creator(p)', Holds(p)'
  PROVE  History'
<1>1. \A m \in Leads : LeadHistory(m)'
  BY DEF History, LeadHistory, Exists
<1>2. ASSUME NEW q \in Handlers \ {p}, pc[q] = "create" PROVE Creator(q)'
  <2>1. req[q].id \in Leads /\ been[req[q].id] = {}
    BY <1>2 DEF Typed, Shape, History, Creator
  <2>2. \A q2 \in Handlers \ {q} : req'[q2].id # req[q].id
    BY <1>2, <2>1 DEF History, Creator
  <2>3. QED BY <2>1, <2>2 DEF Creator
<1>3. ASSUME NEW q \in Handlers \ {p}, pc[q] \in {"checkAgent", "write"} PROVE Holds(q)'
  BY <1>3 DEF History, Holds, Exists, Allowed
<1>4. QED BY <1>1, <1>2, <1>3 DEF History, Creator, Holds

\* What Finish does.
LEMMA RequestFinished ==
  ASSUME Typed, NEW p \in Handlers, Finish(p)
  PROVE  /\ \A q \in Handlers \ {p} : pc'[q] = pc[q] /\ req'[q] = req[q] /\ existing'[q] = existing[q]
         /\ pc'[p] = "idle" /\ req'[p].id = None
         /\ pc' \in [Handlers -> Labels] /\ req' \in [Handlers -> Request]
         /\ existing' \in [Handlers -> Lead \cup {NoLead}]
         /\ Shape' /\ Creator(p)' /\ Holds(p)'
<1>1. /\ \A q \in Handlers \ {p} : pc'[q] = pc[q] /\ req'[q] = req[q] /\ existing'[q] = existing[q]
      /\ pc'[p] = "idle" /\ req'[p].id = None
  BY DEF Finish, Goto, Typed, TypeOK, NoRequest
<1>2. /\ pc' \in [Handlers -> Labels] /\ req' \in [Handlers -> Request]
      /\ existing' \in [Handlers -> Lead \cup {NoLead}]
  BY DEF Finish, Goto, Typed, TypeOK, NoRequest, Request, Labels
<1>3. Shape' /\ Creator(p)' /\ Holds(p)'
  BY <1>1 DEF Typed, Shape, Creator, Holds
<1>4. QED BY <1>1, <1>2, <1>3

\* Leaving, and arriving, change no lead.
LEMMA FinishInv ==
  ASSUME Typed, History, NEW p \in Handlers, Finish(p), UNCHANGED <<lead, leads, staff, been, clock>>
  PROVE  Typed' /\ History'
<1>1. Typed'
  BY RequestFinished DEF Typed, TypeOK
<1>2. History'
  BY RequestFinished, SameHistory
<1>3. QED BY <1>1, <1>2

LEMMA BeginInv ==
  ASSUME Typed, History, NEW p \in Handlers, NEW r \in Request, NEW label \in Labels,
         Begin(p, r, label), r.id \in Leads,
         \/ label = "create" /\ Unused(r.id)
         \/ label \in {"read", "exists"} /\ been[r.id] # {}
  PROVE  Typed' /\ History'
<1>1. Typed'
  BY DEF Begin, Goto, Typed, TypeOK, Shape, Labels
<1>2. /\ \A q \in Handlers \ {p} : pc'[q] = pc[q] /\ req'[q] = req[q] /\ existing'[q] = existing[q]
      /\ pc'[p] = label /\ req'[p] = r
      /\ UNCHANGED <<lead, been>>
  BY DEF Begin, Goto, Typed, TypeOK
<1>3. Creator(p)' /\ Holds(p)'
  BY <1>2 DEF Creator, Holds, Unused
<1>4. History'
  BY <1>2, <1>3, SameHistory DEF Unused
<1>5. QED BY <1>1, <1>4

LEMMA ArriveInv ==
  ASSUME Typed, History, NEW p \in Handlers, Arrive(p)
  PROVE  Typed' /\ History'
<1>1. PICK l \in Leads :
         \/ \E h \in Properties \cup {Null} : Create(p, l, h)
         \/ \E s \in Asked \cup {None}, a \in Users \cup {None, Null} : Update(p, l, s, a)
         \/ Remove(p, l)
  BY DEF Arrive
<1>2. ASSUME NEW h \in Properties \cup {Null}, Create(p, l, h) PROVE Typed' /\ History'
  <2> DEFINE r == [NoRequest EXCEPT !.id = l, !.property = h]
  <2>1. r \in Request /\ r.id = l
    BY DEF NoRequest, Request
  <2>2. Begin(p, r, "create") /\ Unused(l)
    BY <1>2 DEF Create
  <2> HIDE DEF r
  <2>3. QED BY <2>1, <2>2, BeginInv DEF Labels
<1>3. ASSUME NEW s \in Asked \cup {None}, NEW a \in Users \cup {None, Null}, Update(p, l, s, a)
      PROVE  Typed' /\ History'
  <2> DEFINE r == [NoRequest EXCEPT !.id = l, !.status = s, !.agent = a]
  <2>1. r \in Request /\ r.id = l
    BY DEF NoRequest, Request
  <2>2. Begin(p, r, "read") /\ been[l] # {}
    BY <1>3 DEF Update
  <2> HIDE DEF r
  <2>3. QED BY <2>1, <2>2, BeginInv DEF Labels
<1>4. CASE Remove(p, l)
  <2> DEFINE r == [NoRequest EXCEPT !.id = l]
  <2>1. r \in Request /\ r.id = l
    BY DEF NoRequest, Request
  <2>2. Begin(p, r, "exists") /\ been[l] # {}
    BY <1>4 DEF Remove
  <2> HIDE DEF r
  <2>3. QED BY <2>1, <2>2, BeginInv DEF Labels
<1>5. QED BY <1>1, <1>2, <1>3, <1>4

\* One case per await.
LEMMA StepInv ==
  ASSUME Typed, History, NEW p \in Handlers, Step(p)
  PROVE  Typed' /\ History'
<1> SUFFICES ASSUME NEW l, l = req[p].id PROVE Typed' /\ History'
  OBVIOUS
<1>0. /\ pc[p] # "idle" => l \in Leads
      /\ lead \in [Leads -> Lead \cup {NoLead}] /\ been \in [Leads -> SUBSET Statuses]
      /\ pc \in [Handlers -> Labels] /\ req \in [Handlers -> Request]
      /\ existing \in [Handlers -> Lead \cup {NoLead}] /\ clock \in Nat
      /\ leads \in [Properties -> Nat] /\ staff \subseteq Users
  BY DEF Typed, TypeOK, Shape
<1>1. CASE CreateLead(p)
  <2> DEFINE d == [status |-> "new", agent |-> Null, contactedAt |-> 0,
                   property |-> req[p].property]
  <2>1. /\ pc[p] = "create"
        /\ lead' = [lead EXCEPT ![l] = d]
        /\ been' = [been EXCEPT ![l] = {"new"}]
        /\ \/ Finish(p)
           \/ req[p].property # Null /\ Goto(p, "bump") /\ UNCHANGED <<req, existing>>
        /\ UNCHANGED <<leads, staff, clock>>
    BY <1>1 DEF CreateLead
  <2>2. d \in Lead /\ d.status = "new" /\ d # NoLead
    <3>1. req[p].property \in Properties \cup {Null}
      BY <1>0 DEF Request
    <3>2. d \in Lead
      BY <3>1, Records DEF Lead
    <3>3. QED BY <3>2, Records
  <2>3. d.contactedAt = 0
    OBVIOUS
  <2> HIDE DEF d
  <2>4. lead'[l] = d /\ been'[l] = {"new"} /\ \A m \in Leads \ {l} : lead'[m] = lead[m] /\ been'[m] = been[m]
    BY <1>0, <2>1
  <2>5. /\ \A q \in Handlers \ {p} : pc'[q] = pc[q] /\ req'[q] = req[q] /\ existing'[q] = existing[q]
        /\ req'[p].id \in {l, None} /\ Creator(p)' /\ Holds(p)' /\ Shape'
        /\ pc' \in [Handlers -> Labels] /\ req' \in [Handlers -> Request]
        /\ existing' \in [Handlers -> Lead \cup {NoLead}]
    <3>1. CASE Finish(p)
      BY <3>1, RequestFinished
    <3>2. CASE req[p].property # Null /\ Goto(p, "bump") /\ UNCHANGED <<req, existing>>
      <4>1. req[p].property \in Properties
        BY <1>0, <3>2 DEF Request
      <4>2. pc'[p] = "bump" /\ \A q \in Handlers \ {p} : pc'[q] = pc[q]
        BY <1>0, <3>2 DEF Goto
      <4>3. QED BY <1>0, <2>1, <3>2, <4>1, <4>2 DEF Goto, Typed, Shape, Creator, Holds, Labels
    <3>3. QED BY <2>1, <3>1, <3>2
  <2>6. Typed'
    BY <1>0, <2>1, <2>2, <2>5, Records DEF Typed, TypeOK
  <2>7. been[l] = {} /\ \A q \in Handlers \ {p} : req[q].id # l
    BY <2>1 DEF History, Creator
  <2>8. LeadHistory(l)'
    BY <2>2, <2>4 DEF LeadHistory
  <2>9. ~Exists(l)
    BY <1>0, <2>1, <2>7 DEF History, LeadHistory
  <2>10. QED BY <1>0, <2>1, <2>4, <2>5, <2>6, <2>7, <2>8, <2>9, OthersHistory
<1>2. CASE Bump(p)
  <2>1. /\ pc[p] = "bump" /\ Finish(p)
        /\ leads' = [leads EXCEPT ![req[p].property] = @ + 1]
        /\ UNCHANGED <<lead, staff, been, clock>>
    BY <1>2 DEF Bump
  <2>2. leads' \in [Properties -> Nat]
    <3>1. req[p].property \in Properties
      BY <2>1 DEF Typed, Shape
    <3>2. QED BY <1>0, <2>1, <3>1
  <2>3. Typed'
    BY <2>1, <2>2, RequestFinished DEF Typed, TypeOK
  <2>4. QED BY <2>1, <2>3, RequestFinished, SameHistory
<1>3. CASE Read(p)
  <2>1. CASE Finish(p) /\ UNCHANGED <<lead, leads, staff, been, clock>>
    BY <2>1, FinishInv
  <2>2. CASE /\ Exists(l) /\ Allowed(lead[l].status, req[p].status)
             /\ existing' = [existing EXCEPT ![p] = lead[l]]
             /\ Goto(p, "checkAgent") \/ Goto(p, "write")
             /\ UNCHANGED <<req, lead, leads, staff, been, clock>>
             /\ pc[p] = "read"
    <3>1. lead[l] \in Lead /\ l \in Leads
      BY <1>0, <2>2 DEF Exists
    <3>2. /\ pc'[p] \in {"checkAgent", "write"} /\ existing'[p] = lead[l]
          /\ \A q \in Handlers \ {p} : pc'[q] = pc[q] /\ req'[q] = req[q] /\ existing'[q] = existing[q]
      BY <1>0, <2>2 DEF Goto
    <3>3. Typed'
      BY <1>0, <2>2, <3>1, <3>2 DEF Typed, TypeOK, Shape, Goto, Labels
    <3>4. Creator(p)' /\ Holds(p)'
      BY <2>2, <3>1, <3>2 DEF History, LeadHistory, Creator, Holds, Exists, Allowed
    <3>5. QED BY <2>2, <3>2, <3>3, <3>4, SameHistory
  <2>3. QED BY <1>3, <2>1, <2>2 DEF Read
<1>4. CASE CheckAgent(p)
  <2>1. CASE Finish(p) /\ UNCHANGED <<lead, leads, staff, been, clock>>
    BY <2>1, FinishInv
  <2>2. CASE /\ Goto(p, "write") /\ pc[p] = "checkAgent"
             /\ UNCHANGED <<req, existing, lead, leads, staff, been, clock>>
    <3>1. pc'[p] = "write" /\ \A q \in Handlers \ {p} : pc'[q] = pc[q]
      BY <1>0, <2>2 DEF Goto
    <3>2. existing[p] \in Lead
      BY <2>2 DEF History, Holds
    <3>3. Typed'
      BY <1>0, <2>2, <3>1, <3>2 DEF Typed, TypeOK, Shape, Goto, Labels
    <3>4. Creator(p)' /\ Holds(p)'
      BY <2>2, <3>1 DEF History, Creator, Holds, Exists, Allowed
    <3>5. QED BY <2>2, <3>1, <3>3, <3>4, SameHistory
  <2>3. QED BY <1>4, <2>1, <2>2 DEF CheckAgent
<1>5. CASE Write(p)
  <2>1. CASE UNCHANGED <<lead, been, clock>> /\ Finish(p) /\ UNCHANGED <<leads, staff>>
    BY <2>1, FinishInv
  <2>2. CASE Exists(l)
    <3> DEFINE d == Written(p, lead[l])
    <3>1. /\ pc[p] = "write" /\ Finish(p)
          /\ lead' = [lead EXCEPT ![l] = d]
          /\ been' = [been EXCEPT ![l] = been[l] \cup {d.status}]
          /\ clock' = IF Stamped(p) THEN clock + 1 ELSE clock
          /\ UNCHANGED <<leads, staff>>
      BY <1>5, <2>2 DEF Write
    <3>2. l \in Leads /\ lead[l] \in Lead
      BY <1>0, <2>2, <3>1 DEF Exists
    <3>3. /\ d \in Lead /\ d.status \in Statuses /\ d.contactedAt \in Nat
          /\ d.status = IF req[p].status = None THEN lead[l].status ELSE req[p].status
          /\ d.contactedAt = IF Stamped(p) THEN clock + 1 ELSE lead[l].contactedAt
      BY <3>2, WrittenFields DEF Lead
    <3> HIDE DEF d
    <3>4. /\ lead'[l] = d /\ been'[l] = been[l] \cup {d.status}
          /\ \A m \in Leads \ {l} : lead'[m] = lead[m] /\ been'[m] = been[m]
      BY <1>0, <3>1, <3>2
    <3>5. Typed'
      BY <1>0, <3>1, <3>2, <3>3, RequestFinished DEF Typed, TypeOK
    <3>6. /\ existing[p].status \in been[l] /\ existing[p].status \in Statuses
          /\ Allowed(existing[p].status, req[p].status)
          /\ existing[p].contactedAt > 0 => lead[l].contactedAt > 0
          /\ existing[p].contactedAt \in Nat
      BY <2>2, <3>1 DEF History, Holds, Lead
    <3>7. /\ lead[l].status \in been[l]
          /\ "won" \in been[l] => been[l] \cap {"viewing", "negotiating"} # {}
          /\ "contacted" \in been[l] => lead[l].contactedAt > 0
      BY <2>2, <3>2 DEF History, LeadHistory
    <3>8. lead[l].contactedAt > 0 => d.contactedAt > 0
      BY <1>0, <3>3
    <3>9. "contacted" \in been'[l] => d.contactedAt > 0
      <4>1. CASE "contacted" \in been[l]
        BY <3>7, <3>8, <4>1
      <4>2. CASE "contacted" \notin been[l]
        <5> SUFFICES ASSUME d.status = "contacted" PROVE d.contactedAt > 0
          BY <3>4, <4>2
        <5>1. req[p].status = "contacted"
          BY <3>3, <3>7, <4>2
        <5>2. CASE existing[p].contactedAt = 0
          BY <1>0, <3>3, <5>1, <5>2 DEF Stamped
        <5>3. CASE existing[p].contactedAt # 0
          BY <3>6, <3>8, <5>3
        <5>4. QED BY <5>2, <5>3
      <4>3. QED BY <4>1, <4>2
    <3>10. "won" \in been'[l] => been'[l] \cap {"viewing", "negotiating"} # {}
      <4>1. CASE "won" \in been[l]
        BY <3>4, <3>7, <4>1
      <4>2. CASE "won" \notin been[l]
        <5> SUFFICES ASSUME d.status = "won"
                     PROVE  been'[l] \cap {"viewing", "negotiating"} # {}
          BY <3>4, <4>2
        <5>1. req[p].status = "won" /\ existing[p].status # "won"
          BY <3>3, <3>6, <3>7, <4>2
        <5>2. "won" # None
          BY DEF Statuses
        <5>3. "won" \in TRANSITIONS[existing[p].status]
          BY <3>6, <5>1, <5>2 DEF Allowed
        <5>4. existing[p].status \in {"viewing", "negotiating"}
          BY <3>6, <5>3 DEF TRANSITIONS, Statuses
        <5>5. QED BY <3>4, <3>6, <5>4
      <4>3. QED BY <4>1, <4>2
    <3>11. LeadHistory(l)'
      BY <3>4, <3>9, <3>10 DEF LeadHistory, Exists
    <3>12. been[l] # {} /\ been[l] \subseteq been'[l]
      BY <3>4, <3>7
    <3>13. QED BY <2>2, <3>1, <3>2, <3>4, <3>5, <3>8, <3>11, <3>12, RequestFinished, OthersHistory
  <2>3. QED BY <1>5, <2>1, <2>2 DEF Write
<1>6. CASE CheckExists(p)
  <2>1. CASE Finish(p) /\ UNCHANGED <<lead, leads, staff, been, clock>>
    BY <2>1, FinishInv
  <2>2. CASE /\ Goto(p, "delete") /\ pc[p] = "exists"
             /\ UNCHANGED <<req, existing, lead, leads, staff, been, clock>>
    <3>1. pc'[p] = "delete" /\ \A q \in Handlers \ {p} : pc'[q] = pc[q]
      BY <1>0, <2>2 DEF Goto
    <3>2. Typed'
      BY <1>0, <2>2, <3>1 DEF Typed, TypeOK, Shape, Goto, Labels
    <3>3. Creator(p)' /\ Holds(p)'
      BY <3>1 DEF Creator, Holds
    <3>4. QED BY <2>2, <3>1, <3>2, <3>3, SameHistory
  <2>3. QED BY <1>6, <2>1, <2>2 DEF CheckExists
<1>7. CASE Delete(p)
  <2>1. /\ pc[p] = "delete" /\ Finish(p)
        /\ lead' = [lead EXCEPT ![l] = NoLead]
        /\ UNCHANGED <<leads, staff, been, clock>>
    BY <1>7 DEF Delete
  <2>2. l \in Leads /\ lead'[l] = NoLead /\ \A m \in Leads \ {l} : lead'[m] = lead[m]
    BY <1>0, <2>1
  <2>3. Typed'
    BY <1>0, <2>1, <2>2, RequestFinished DEF Typed, TypeOK
  <2>4. LeadHistory(l)' /\ ~Exists(l)'
    BY <2>1, <2>2 DEF History, LeadHistory, Exists
  <2>5. QED BY <2>1, <2>2, <2>3, <2>4, RequestFinished, OthersHistory
<1>8. QED BY <1>1, <1>2, <1>3, <1>4, <1>5, <1>6, <1>7 DEF Step

LEMMA NextInv == Typed /\ History /\ [Next]_vars => Typed' /\ History'
<1> SUFFICES ASSUME Typed, History, [Next]_vars PROVE Typed' /\ History'
  OBVIOUS
<1>1. CASE UNCHANGED vars
  BY <1>1 DEF vars, Typed, TypeOK, Shape, History, LeadHistory, Creator, Holds, Exists, Allowed
<1>2. ASSUME NEW p \in Handlers, Abort(p) PROVE Typed' /\ History'
  BY <1>2, FinishInv DEF Abort
<1>3. ASSUME NEW u \in Users, SetRole(u) PROVE Typed' /\ History'
  BY <1>3 DEF SetRole, Typed, TypeOK, Shape, History, LeadHistory, Creator, Holds, Exists, Allowed
<1>4. QED BY <1>1, <1>2, <1>3, ArriveInv, StepInv DEF Next

\* The pipeline keeps its types: an update never stores a status or a date that
\* is none, whatever fields a request leaves out.
THEOREM LeadTypes == Spec => []TypeOK
<1>1. Typed => TypeOK
  BY DEF Typed
<1>2. QED BY <1>1, InitInv, NextInv, PTL DEF Spec

\* However updates race, fail or come late, no lead is won without having been in
\* viewing or negotiating, and no lead loses the date of its first contact.
THEOREM PipelineHolds == Spec => [](WonWasEarned /\ ContactKnown)
<1>1. Typed /\ History => WonWasEarned /\ ContactKnown
  <2> SUFFICES ASSUME Typed, History, NEW l \in Leads
               PROVE  /\ lead[l].status = "won" => been[l] \cap {"viewing", "negotiating"} # {}
                      /\ Exists(l) /\ "contacted" \in been[l] => lead[l].contactedAt > 0
    BY DEF WonWasEarned, ContactKnown
  <2>1. lead[l].status = "won" => Exists(l)
    BY DEF Exists, NoLead
  <2>2. QED BY <2>1 DEF History, LeadHistory
<1>2. QED BY <1>1, InitInv, NextInv, PTL DEF Spec

\* No lead that has been contacted loses the date of its first contact.
COROLLARY ContactIsKept == Spec => []ContactKnown
BY PipelineHolds, PTL

\* Only three awaits change a lead.
LEMMA LeadWriters ==
  ASSUME [Next]_vars
  PROVE  lead' = lead \/ \E p \in Handlers : CreateLead(p) \/ Write(p) \/ Delete(p)
BY DEF Next, vars, Arrive, Create, Update, Remove, Begin, Step, Bump, Read, CheckAgent, CheckExists,
       Abort, SetRole

\* However updates race, a lead takes no status that was not a legal move from one
\* it has had: the transition an update checked is one of the lead's past.
THEOREM MovesAreLegal == Spec => LegalMoves
<1> DEFINE Reach(l) == been[l] \cup UNION {TRANSITIONS[s] : s \in been[l]}
           Legal    == \A l \in Leads : Exists(l) /\ Exists(l)' => lead'[l].status \in Reach(l)
<1>1. ASSUME Typed, History, [Next]_vars PROVE Legal
  <2> SUFFICES ASSUME NEW l \in Leads, Exists(l), Exists(l)' PROVE lead'[l].status \in Reach(l)
    OBVIOUS
  <2>1. lead[l].status \in been[l] /\ been[l] # {} /\ lead \in [Leads -> Lead \cup {NoLead}]
    BY <1>1 DEF History, LeadHistory, Typed, TypeOK
  <2>2. CASE lead'[l] = lead[l]
    BY <2>1, <2>2
  <2>3. CASE lead'[l] # lead[l]
    <3>1. PICK p \in Handlers : CreateLead(p) \/ Write(p) \/ Delete(p)
      BY <1>1, <2>3, LeadWriters
    <3>2. ~CreateLead(p)
      BY <1>1, <2>1, <2>3 DEF CreateLead, History, Creator
    <3>3. ~Delete(p)
      BY <2>1, <2>3 DEF Delete, Exists
    <3>4. /\ pc[p] = "write" /\ req[p].id = l
          /\ lead'[l] = Written(p, lead[l])
      BY <2>1, <2>3, <3>1, <3>2, <3>3 DEF Write
    <3>5. lead[l] \in Lead
      BY <2>1 DEF Exists
    <3>6. lead'[l].status = IF req[p].status = None THEN lead[l].status ELSE req[p].status
      BY <1>1, <3>4, <3>5, WrittenFields
    <3>7. existing[p].status \in been[l] /\ Allowed(existing[p].status, req[p].status)
      BY <1>1, <3>4 DEF History, Holds
    <3>8. QED BY <2>1, <3>6, <3>7 DEF Allowed
  <2>4. QED BY <2>2, <2>3
<1>2. QED BY <1>1, InitInv, NextInv, PTL DEF Spec, LegalMoves

-----------------------------------------------------------------------------
\* Finance: a schedule repays what is owed to the piastre.

HIDE LeadsAssumption

\* Rounding half up gives a whole number of piastres.
LEMMA Rounded ==
    ASSUME NEW n \in Int, NEW d \in Nat \ {0}
    PROVE  round_money(n, d) \in Int
<1>1. 2 * n + d \in Int /\ 2 * d \in Nat \ {0}
  OBVIOUS
<1>2. QED
  BY <1>1 DEF round_money

\* A percentage of a price, rounded, is a part of the price.
LEMMA PartOfPrice ==
    ASSUME NEW price \in Nat, NEW percent \in 0..100
    PROVE  round_money(price * percent, 100) \in 0..price
<1> DEFINE share == price * percent
<1>1. share \in Nat /\ share <= price * 100
  <2>1. percent \in Nat /\ 100 - percent \in Nat
    OBVIOUS
  <2>2. price * percent \in Nat /\ price * (100 - percent) \in Nat
    BY <2>1
  <2>3. price * 100 = price * percent + price * (100 - percent)
    BY <2>1
  <2>4. QED
    BY <2>2, <2>3
<1> HIDE DEF share
<1>2. (2 * share + 100) \div (2 * 100) \in 0..price
  BY <1>1
<1>3. QED
  BY <1>2 DEF share, round_money

\* The inductive invariant: the sums agree, no more than the term's payments are made, and
\* the one that completes the term leaves nothing.
Books ==
    /\ FinanceTypeOK
    /\ deal.repaid + deal.balance = deal.owed
    /\ deal.paid = deal.repaid + deal.interest
    /\ deal.down + deal.owed = deal.price
    /\ deal.balance >= 0
    /\ deal.done <= deal.count
    /\ deal.done = deal.count => deal.balance = 0

LEMMA BooksInit == FinanceInit => Books
  BY DEF FinanceInit, NoDeal, Books, FinanceTypeOK, Deal

LEMMA MortgageKeepsBooks ==
    ASSUME Books, NEW price \in Prices, NEW percent \in Percents, NEW n \in Terms,
           NEW rate \in Rates, mortgage(price, percent, n, rate)
    PROVE  Books'
<1>1. price \in Nat /\ percent \in 0..100 /\ n \in Nat \ {0} /\ rate \in Nat
  BY FinanceAssumption
<1> DEFINE down == round_money(price * percent, 100)
           payment == level_payment(price - down, rate, n)
<1>2. down \in 0..price
  BY <1>1, PartOfPrice
<1>3. /\ price - down > 0 /\ payment \in Nat
      /\ deal' = [NoDeal EXCEPT !.kind = "mortgage", !.price = price, !.down = down,
                     !.owed = price - down, !.rate = rate, !.count = n,
                     !.level = payment, !.balance = price - down]
  BY DEF mortgage
<1> HIDE DEF down, payment
<1>4. deal' = [kind |-> "mortgage", price |-> price, down |-> down, owed |-> price - down,
                rate |-> rate, count |-> n, level |-> payment, done |-> 0,
                balance |-> price - down, repaid |-> 0, interest |-> 0, paid |-> 0,
                last |-> 0, deposit |-> 0]
  BY <1>3 DEF NoDeal
<1>5. /\ price \in Nat /\ rate \in Nat /\ n \in Nat /\ down \in Int /\ payment \in Int
      /\ price - down \in Int /\ 0 \in Nat /\ 0 \in Int
  BY <1>1, <1>2, <1>3
<1>6. FinanceTypeOK'
  BY <1>4, <1>5 DEF FinanceTypeOK, Deal
<1>7. price - down > 0
  BY <1>3
<1>8. QED
  BY <1>1, <1>2, <1>4, <1>6, <1>7 DEF Books

LEMMA PlanKeepsBooks ==
    ASSUME Books, NEW price \in Prices, NEW percent \in Percents, NEW maintenance \in Percents,
           NEW n \in Terms, installment_schedule(price, percent, n, maintenance)
    PROVE  Books'
<1>1. price \in Nat /\ percent \in 0..100 /\ maintenance \in 0..100 /\ n \in Nat \ {0}
  BY FinanceAssumption
<1> DEFINE down    == round_money(price * percent, 100)
           deposit == round_money(price * maintenance, 100)
           level    == round_money(price - down, n)
<1>2. down \in 0..price /\ deposit \in 0..price
  BY <1>1, PartOfPrice
<1>3. level \in Int
  <2>1. price - down \in Int
    BY <1>1, <1>2
  <2>2. QED
    BY <2>1, <1>1, Rounded
<1>4. deal' = [NoDeal EXCEPT !.kind = "installments", !.price = price, !.down = down,
                  !.owed = price - down, !.count = n, !.level = level,
                  !.balance = price - down, !.deposit = deposit]
  BY DEF installment_schedule
<1> HIDE DEF down, deposit, level
<1>5. deal' = [kind |-> "installments", price |-> price, down |-> down, owed |-> price - down,
                rate |-> 0, count |-> n, level |-> level, done |-> 0,
                balance |-> price - down, repaid |-> 0, interest |-> 0, paid |-> 0,
                last |-> 0, deposit |-> deposit]
  BY <1>4 DEF NoDeal
<1>6. FinanceTypeOK'
  BY <1>1, <1>2, <1>3, <1>5 DEF FinanceTypeOK, Deal
<1>7. QED
  BY <1>1, <1>2, <1>5, <1>6 DEF Books

LEMMA PaymentKeepsBooks ==
    ASSUME Books, amortise
    PROVE  Books'
<1> DEFINE interest == round_money(deal.balance * deal.rate, Parts)
           share     == PrincipalPart(deal, interest)
<1>1. deal \in Deal
  BY DEF Books, FinanceTypeOK
<1>2. interest \in Int
  <2>1. deal.balance * deal.rate \in Int /\ Parts \in Nat \ {0}
    BY <1>1, FinanceAssumption DEF Deal
  <2>2. QED
    BY <2>1, Rounded
<1>3. deal.kind = "mortgage" /\ deal.done < deal.count
  BY <1>1 DEF amortise, Finished, Books, Deal
<1>4. deal' = [deal EXCEPT !.done = deal.done + 1, !.balance = deal.balance - share,
                  !.repaid = deal.repaid + share, !.interest = deal.interest + interest,
                  !.paid = deal.paid + share + interest, !.last = share + interest]
  BY DEF amortise
<1> HIDE DEF interest
<1>5. /\ share \in Int /\ share <= deal.balance
      /\ deal.done + 1 = deal.count => share = deal.balance
  BY <1>1, <1>2 DEF PrincipalPart, Deal
<1> HIDE DEF share
<1>6. FinanceTypeOK'
  <2>1. /\ deal.done + 1 \in Nat /\ deal.balance - share \in Int /\ deal.repaid + share \in Int
        /\ deal.interest + interest \in Int /\ deal.paid + share + interest \in Int
        /\ share + interest \in Int
    BY <1>1, <1>2, <1>5 DEF Deal
  <2>2. deal' = [kind |-> deal.kind, price |-> deal.price, down |-> deal.down,
                  owed |-> deal.owed, rate |-> deal.rate, count |-> deal.count,
                  level |-> deal.level, done |-> deal.done + 1, balance |-> deal.balance - share,
                  repaid |-> deal.repaid + share, interest |-> deal.interest + interest,
                  paid |-> deal.paid + share + interest, last |-> share + interest,
                  deposit |-> deal.deposit]
    BY <1>1, <1>4 DEF Deal
  <2>3. QED
    BY <1>1, <1>2, <2>1, <2>2 DEF FinanceTypeOK, Deal
<1>7. /\ deal'.done = deal.done + 1 /\ deal'.count = deal.count
      /\ deal'.balance = deal.balance - share /\ deal'.repaid = deal.repaid + share
      /\ deal'.interest = deal.interest + interest
      /\ deal'.paid = deal.paid + share + interest
      /\ deal'.owed = deal.owed /\ deal'.down = deal.down /\ deal'.price = deal.price
  BY <1>1, <1>4 DEF Deal
<1>8. QED
  BY <1>1, <1>2, <1>3, <1>5, <1>6, <1>7 DEF Books, Deal

LEMMA InstalmentKeepsBooks ==
    ASSUME Books, Instalment
    PROVE  Books'
<1> DEFINE amount == Amount(deal)
<1>1. deal \in Deal
  BY DEF Books, FinanceTypeOK
<1>2. deal.done < deal.count
  BY <1>1 DEF Instalment, Finished, Books, Deal
<1>3. deal' = [deal EXCEPT !.done = deal.done + 1, !.balance = deal.balance - amount,
                  !.repaid = deal.repaid + amount, !.paid = deal.paid + amount, !.last = amount]
  BY DEF Instalment
<1>4. /\ amount \in Int /\ amount <= deal.balance
      /\ deal.done + 1 = deal.count => amount = deal.balance
  BY <1>1 DEF Amount, Deal
<1> HIDE DEF amount
<1>5. FinanceTypeOK'
  <2>1. /\ deal.done + 1 \in Nat /\ deal.balance - amount \in Int
        /\ deal.repaid + amount \in Int /\ deal.paid + amount \in Int
    BY <1>1, <1>4 DEF Deal
  <2>2. deal' = [kind |-> deal.kind, price |-> deal.price, down |-> deal.down,
                  owed |-> deal.owed, rate |-> deal.rate, count |-> deal.count,
                  level |-> deal.level, done |-> deal.done + 1, balance |-> deal.balance - amount,
                  repaid |-> deal.repaid + amount, interest |-> deal.interest,
                  paid |-> deal.paid + amount, last |-> amount,
                  deposit |-> deal.deposit]
    BY <1>1, <1>3 DEF Deal
  <2>3. QED
    BY <1>1, <1>4, <2>1, <2>2 DEF FinanceTypeOK, Deal
<1>6. /\ deal'.done = deal.done + 1 /\ deal'.count = deal.count
      /\ deal'.balance = deal.balance - amount /\ deal'.repaid = deal.repaid + amount
      /\ deal'.paid = deal.paid + amount /\ deal'.interest = deal.interest
      /\ deal'.owed = deal.owed /\ deal'.down = deal.down /\ deal'.price = deal.price
  BY <1>1, <1>3 DEF Deal
<1>7. QED
  BY <1>1, <1>2, <1>4, <1>5, <1>6 DEF Books, Deal

LEMMA BooksKept == FinanceSpec => []Books
<1>1. ASSUME Books, [FinanceNext]_financeVars
      PROVE  Books'
  <2>1. CASE \E price \in Prices, percent \in Percents, n \in Terms, rate \in Rates :
                mortgage(price, percent, n, rate)
    BY <1>1, <2>1, MortgageKeepsBooks
  <2>2. CASE \E price \in Prices, percent \in Percents, maintenance \in Percents, n \in Terms :
                installment_schedule(price, percent, n, maintenance)
    BY <1>1, <2>2, PlanKeepsBooks
  <2>3. CASE amortise
    BY <1>1, <2>3, PaymentKeepsBooks
  <2>4. CASE Instalment
    BY <1>1, <2>4, InstalmentKeepsBooks
  <2>5. CASE UNCHANGED financeVars
    BY <1>1, <2>5 DEF Books, FinanceTypeOK, financeVars
  <2>6. QED
    BY <1>1, <2>1, <2>2, <2>3, <2>4, <2>5 DEF FinanceNext
<1>2. QED
  BY <1>1, BooksInit, PTL DEF FinanceSpec

\* What finance.rb promises of amortise (the balance lands on exactly 0.00 and the parts of
\* the principal sum to it) and of the instalments (the last absorbs the rounding).
THEOREM LoansAreRepaid == FinanceSpec => []PrincipalIsRepaid
<1>1. Books => PrincipalIsRepaid
  BY DEF Books, PrincipalIsRepaid, Finished, FinanceTypeOK, Deal
<1>2. QED
  BY <1>1, BooksKept, PTL

\* Every figure of a schedule is a whole number of piastres.
THEOREM FiguresAreWhole == FinanceSpec => []FinanceTypeOK
<1>1. Books => FinanceTypeOK
  BY DEF Books
<1>2. QED
  BY <1>1, BooksKept, PTL

-----------------------------------------------------------------------------
(* Induction over the naturals, of a set of them *)

LEMMA LeastNumber ==
    ASSUME NEW S \in SUBSET Nat, S # {}
    PROVE  \E m \in S : \A k \in S : m <= k
<1> DEFINE Less == {ss \in Nat \X Nat : ss[1] < ss[2]}
<1>1. IsWellFoundedOn(OpToRel(<, Nat), Nat)
  BY NatLessThanWellFounded
<1>2. OpToRel(<, Nat) = Less
  BY DEF OpToRel
<1>3. IsWellFoundedOn(Less, Nat)
  BY <1>1, <1>2
<1>4. PICK m \in S : \A k \in S : ~ (<<k, m>> \in Less)
  <2> HIDE DEF Less
  <2>1. QED BY <1>3, WFMin
<1>5. \A k \in S : m <= k
  <2> TAKE k \in S
  <2>1. ~ (<<k, m>> \in Less) /\ k \in Nat /\ m \in Nat
    BY <1>4
  <2>2. <<k, m>> \in Nat \X Nat /\ <<k, m>>[1] = k /\ <<k, m>>[2] = m
    BY <2>1
  <2>3. ~ (k < m)
    BY <2>1, <2>2
  <2>4. QED BY <2>1, <2>3
<1>6. QED BY <1>5

\* What is true of 0 and of every successor is true.
LEMMA Induction ==
    ASSUME NEW S, 0 \in S, \A n \in Nat : n \in S => n + 1 \in S
    PROVE  Nat \subseteq S
<1> SUFFICES ASSUME Nat \ S # {} PROVE FALSE
  OBVIOUS
<1>1. PICK m \in Nat \ S : \A k \in Nat \ S : m <= k
  BY LeastNumber
<1>2. m # 0 /\ m - 1 \in Nat
  BY <1>1
<1>3. m - 1 \in S
  BY <1>1, <1>2
<1>4. QED BY <1>1, <1>2, <1>3

-----------------------------------------------------------------------------
(* Powers *)

Powers(root, e, p) == p = [i \in 0..e |-> IF i = 0 THEN 1 ELSE root * p[i - 1]]

LEMMA PowersAre ==
    ASSUME NEW root \in Nat, NEW e \in Nat, NEW p, Powers(root, e, p)
    PROVE  /\ p[0] = 1
           /\ \A i \in 1..e : p[i] = root * p[i - 1]
           /\ \A i \in 0..e : p[i] \in Nat
<1>1. p[0] = 1 /\ \A i \in 1..e : p[i] = root * p[i - 1]
  BY DEF Powers
<1> DEFINE S == {i \in Nat : i <= e => p[i] \in Nat}
<1>2. 0 \in S
  BY <1>1
<1>3. ASSUME NEW i \in Nat, i \in S PROVE i + 1 \in S
  <2>1. CASE i + 1 <= e
    <3>1. i + 1 \in 1..e /\ i \in 0..e /\ (i + 1) - 1 = i
      BY <2>1
    <3>2. p[i + 1] = root * p[i] /\ p[i] \in Nat
      BY <1>1, <1>3, <3>1
    <3>3. QED BY <3>2
  <2>2. QED BY <2>1
<1>4. Nat \subseteq S
  <2> HIDE DEF S
  <2>1. QED BY <1>2, <1>3, Induction
<1>5. QED BY <1>1, <1>4

LEMMA PowersThere ==
    ASSUME NEW root \in Nat, NEW e \in Nat
    PROVE  \E p : Powers(root, e, p)
<1> DEFINE S == {n \in Nat : \E p : Powers(root, n, p)}
<1>1. 0 \in S
  <2>1. Powers(root, 0, [i \in 0..0 |-> 1])
    BY DEF Powers
  <2>2. QED BY <2>1
<1>2. ASSUME NEW n \in Nat, n \in S PROVE n + 1 \in S
  <2>1. PICK p : Powers(root, n, p)
    BY <1>2
  <2> DEFINE q == [i \in 0..(n + 1) |-> IF i = n + 1 THEN root * p[n] ELSE p[i]]
  <2>2. p[0] = 1 /\ \A i \in 1..n : p[i] = root * p[i - 1]
    BY <2>1, PowersAre
  <2>3. q[0] = 1
    BY <2>2
  <2>4. ASSUME NEW i \in 1..(n + 1) PROVE q[i] = root * q[i - 1]
    <3>1. i - 1 \in 0..(n + 1) /\ i - 1 # n + 1 /\ i \in 0..(n + 1)
      OBVIOUS
    <3>2. q[i - 1] = p[i - 1]
      BY <3>1
    <3>3. CASE i = n + 1
      BY <3>1, <3>2, <3>3
    <3>4. CASE i # n + 1
      <4>1. i \in 1..n /\ q[i] = p[i]
        BY <3>1, <3>4
      <4>2. QED BY <2>2, <3>2, <4>1
    <3>5. QED BY <3>3, <3>4
  <2>5. Powers(root, n + 1, q)
    <3>1. ASSUME NEW i \in 0..(n + 1)
          PROVE  q[i] = IF i = 0 THEN 1 ELSE root * q[i - 1]
      <4>1. CASE i = 0
        BY <2>3, <4>1
      <4>2. CASE i # 0
        <5>1. i \in 1..(n + 1)
          BY <4>2
        <5>2. QED BY <2>4, <4>2, <5>1
      <4>3. QED BY <4>1, <4>2
    <3>2. q = [i \in 0..(n + 1) |-> q[i]]
      OBVIOUS
    <3> HIDE DEF q
    <3>3. QED BY <3>1, <3>2 DEF Powers
  <2>6. QED BY <2>5
<1>3. Nat \subseteq S
  <2> HIDE DEF S
  <2>1. QED BY <1>1, <1>2, Induction
<1>4. QED BY <1>3

LEMMA PowersOne ==
    ASSUME NEW root \in Nat, NEW e \in Nat, NEW f \in Nat, NEW p, NEW q,
           Powers(root, e, p), Powers(root, f, q)
    PROVE  \A i \in 0..e : i <= f => p[i] = q[i]
<1> DEFINE S == {i \in Nat : i <= e /\ i <= f => p[i] = q[i]}
<1>p. p[0] = 1 /\ \A i \in 1..e : p[i] = root * p[i - 1]
  BY PowersAre
<1>q. q[0] = 1 /\ \A i \in 1..f : q[i] = root * q[i - 1]
  BY PowersAre
<1>1. 0 \in S
  BY <1>p, <1>q
<1>2. ASSUME NEW i \in Nat, i \in S PROVE i + 1 \in S
  <2>1. CASE i + 1 <= e /\ i + 1 <= f
    <3>1. i + 1 \in 1..e /\ i + 1 \in 1..f /\ (i + 1) - 1 = i
      BY <2>1
    <3>2. p[i + 1] = root * p[i]
      BY <3>1, <1>p
    <3>3. q[i + 1] = root * q[i]
      BY <3>1, <1>q
    <3>4. p[i] = q[i]
      BY <1>2, <2>1
    <3>5. QED BY <3>2, <3>3, <3>4
  <2>2. QED BY <2>1
<1>3. Nat \subseteq S
  <2> HIDE DEF S
  <2>1. QED BY <1>1, <1>2, Induction
<1>4. QED BY <1>3

\* power is what it is called.
LEMMA PowerIs ==
    ASSUME NEW root \in Nat
    PROVE  /\ power(root, 0) = 1
           /\ \A e \in Nat : power(root, e) \in Nat /\ power(root, e + 1) = root * power(root, e)
<1> DEFINE P(e) == CHOOSE p : Powers(root, e, p)
<1>1. ASSUME NEW e \in Nat PROVE power(root, e) = P(e)[e] /\ Powers(root, e, P(e))
  <2>1. power(root, e) = P(e)[e]
    BY DEF power, Powers
  <2>2. Powers(root, e, P(e))
    BY PowersThere
  <2>3. QED BY <2>1, <2>2
<1> HIDE DEF P
<1>2. power(root, 0) = 1
  BY <1>1, PowersAre
<1>3. ASSUME NEW e \in Nat
      PROVE  power(root, e) \in Nat /\ power(root, e + 1) = root * power(root, e)
  <2>1. e + 1 \in Nat /\ e + 1 \in 1..(e + 1) /\ (e + 1) - 1 = e /\ e \in 0..(e + 1) /\ e \in 0..e
    OBVIOUS
  <2>2. /\ power(root, e) = P(e)[e] /\ Powers(root, e, P(e))
        /\ power(root, e + 1) = P(e + 1)[e + 1] /\ Powers(root, e + 1, P(e + 1))
    BY <1>1, <2>1
  <2>3. P(e)[e] \in Nat
    BY <2>1, <2>2, PowersAre
  <2>4. P(e + 1)[e + 1] = root * P(e + 1)[e]
    BY <2>1, <2>2, PowersAre
  <2>5. P(e)[e] = P(e + 1)[e]
    BY <2>1, <2>2, PowersOne
  <2>6. QED BY <2>2, <2>3, <2>4, <2>5
<1>4. QED BY <1>2, <1>3

LEMMA PowerPositive ==
    ASSUME NEW root \in Nat \ {0}, NEW e \in Nat
    PROVE  power(root, e) \in Nat \ {0}
<1> DEFINE S == {n \in Nat : power(root, n) \in Nat \ {0}}
<1>1. 0 \in S
  BY PowerIs
<1>2. ASSUME NEW n \in Nat, n \in S PROVE n + 1 \in S
  <2>1. power(root, n + 1) = root * power(root, n)
    BY PowerIs
  <2>2. power(root, n) \in Nat \ {0}
    BY <1>2
  <2> DEFINE x == power(root, n)
  <2>3. root * x \in Nat \ {0}
    <3> HIDE DEF x
    <3>1. QED BY <2>2 DEF x
  <2>4. QED BY <2>1, <2>3
<1>3. Nat \subseteq S
  <2> HIDE DEF S
  <2>1. QED BY <1>1, <1>2, Induction
<1>4. QED BY <1>3

LEMMA PowerSum ==
    ASSUME NEW root \in Nat, NEW e \in Nat, NEW f \in Nat
    PROVE  power(root, e + f) = power(root, e) * power(root, f)
<1> DEFINE S == {n \in Nat : power(root, e + n) = power(root, e) * power(root, n)}
<1>0. power(root, e) \in Nat
  BY PowerIs
<1>1. 0 \in S
  <2>1. power(root, 0) = 1 /\ e + 0 = e
    BY PowerIs
  <2>2. QED BY <1>0, <2>1
<1>2. ASSUME NEW n \in Nat, n \in S PROVE n + 1 \in S
  <2>1. power(root, n + 1) = root * power(root, n) /\ power(root, n) \in Nat
    BY PowerIs
  <2>2. power(root, (e + n) + 1) = root * power(root, e + n) /\ e + (n + 1) = (e + n) + 1
    BY PowerIs
  <2>3. power(root, e + n) = power(root, e) * power(root, n)
    BY <1>2
  <2>4. ASSUME NEW x \in Nat, NEW y \in Nat PROVE root * (x * y) = x * (root * y)
    OBVIOUS
  <2>5. power(root, e + (n + 1)) = root * (power(root, e) * power(root, n))
    BY <2>2, <2>3
  <2>6. root * (power(root, e) * power(root, n)) = power(root, e) * (root * power(root, n))
    BY <1>0, <2>1, <2>4
  <2>7. QED BY <2>1, <2>5, <2>6
<1>3. Nat \subseteq S
  <2> HIDE DEF S
  <2>1. QED BY <1>1, <1>2, Induction
<1>4. QED BY <1>3

\* What interest at rate makes of a piastre in e months, against that piastre: Bernoulli's
\* bound from above.
LEMMA PowerGrows ==
    ASSUME NEW root \in Nat \ {0}, NEW rate \in Nat, NEW e \in Nat
    PROVE  /\ power(root, e) <= power(root + rate, e)
           /\ e # 0 /\ rate # 0 => power(root, e) < power(root + rate, e)
           /\ root * (power(root + rate, e) - power(root, e)) <= e * rate * power(root + rate, e)
<1> DEFINE more == root + rate
           Grows(n, q, r) == /\ q <= r
                             /\ n # 0 /\ rate # 0 => q < r
                             /\ root * (r - q) <= n * rate * r
           S == {n \in Nat : Grows(n, power(root, n), power(more, n))}
<1>0. more \in Nat
  OBVIOUS
<1> HIDE DEF more
<1>1. 0 \in S
  <2>1. power(root, 0) = 1 /\ power(more, 0) = 1
    BY <1>0, PowerIs
  <2>2. QED BY <2>1
<1>2. ASSUME NEW n \in Nat, n \in S PROVE n + 1 \in S
  <2>1. /\ power(root, n + 1) = root * power(root, n) /\ power(root, n) \in Nat
        /\ power(more, n + 1) = more * power(more, n) /\ power(more, n) \in Nat
    BY <1>0, PowerIs
  <2>2. power(root, n) # 0
    BY PowerPositive
  <2>3. ASSUME NEW q \in Nat \ {0}, NEW r \in Nat, Grows(n, q, r)
        PROVE  Grows(n + 1, root * q, more * r)
    <3>1. more * r = root * r + rate * r
      BY DEF more
    <3>2. root * r \in Nat /\ rate * r \in Nat /\ root * q \in Nat /\ n * rate * r \in Nat
      OBVIOUS
    <3>3. root * q <= root * r
      <4>1. root * (r - q) \in Nat
        BY <2>3
      <4>2. root * (r - q) = root * r - root * q
        OBVIOUS
      <4>3. QED BY <3>2, <4>1, <4>2
    <3>4. rate # 0 => rate * r > 0
      BY <2>3
    <3>5. root * (more * r - root * q) <= (n + 1) * rate * (more * r)
      <4> DEFINE a == root * (r - q)
                 b == n * rate * r
      <4>1. a \in Nat /\ b \in Nat /\ a <= b
        BY <2>3, <3>2
      <4>2. root * (more * r - root * q) = more * a + rate * (root * q)
        BY DEF more
      <4>3. (n + 1) * rate * (more * r) = more * b + rate * (more * r)
        BY <1>0
      <4>4. more * a <= more * b
        <5> HIDE DEF a, b
        <5>1. more * (b - a) \in Nat
          BY <1>0, <4>1
        <5>2. more * (b - a) = more * b - more * a
          BY <1>0, <4>1
        <5>3. more * b \in Int /\ more * a \in Int
          BY <1>0, <4>1
        <5>4. QED BY <5>1, <5>2, <5>3
      <4>5. rate * (root * q) <= rate * (more * r)
        <5> DEFINE c == root * q
                   d == more * r
        <5>1. c \in Nat /\ d \in Nat /\ c <= d
          BY <1>0, <3>1, <3>2, <3>3
        <5> HIDE DEF c, d
        <5>2. rate * (d - c) \in Nat /\ rate * (d - c) = rate * d - rate * c
          BY <5>1
        <5>3. rate * d \in Int /\ rate * c \in Int
          BY <5>1
        <5>4. rate * c <= rate * d
          BY <5>2, <5>3
        <5>5. QED BY <5>4 DEF c, d
      <4>6. more * a \in Int /\ more * b \in Int /\ rate * (root * q) \in Int /\ rate * (more * r) \in Int
        <5>1. more * r \in Int /\ root * q \in Int
          BY <1>0
        <5>2. QED BY <1>0, <4>1, <5>1
      <4> HIDE DEF a, b
      <4>7. QED BY <4>2, <4>3, <4>4, <4>5, <4>6
    <3>6. QED BY <3>1, <3>2, <3>3, <3>4, <3>5
  <2>4. Grows(n, power(root, n), power(more, n))
    BY <1>2
  <2> HIDE DEF Grows
  <2>5. Grows(n + 1, root * power(root, n), more * power(more, n))
    BY <2>1, <2>2, <2>3, <2>4
  <2>6. QED BY <2>1, <2>5
<1>3. Nat \subseteq S
  <2> HIDE DEF S
  <2>1. QED BY <1>1, <1>2, Induction
<1>4. QED BY <1>3 DEF more

-----------------------------------------------------------------------------
(* Rounding *)

LEMMA RoundedIs ==
    ASSUME NEW n \in Int, NEW d \in Nat \ {0}
    PROVE  /\ round_money(n, d) \in Int
           /\ 2 * (d * round_money(n, d) - n) <= d
           /\ 2 * (n - d * round_money(n, d)) < d
<1> DEFINE a == 2 * n + d
           b == 2 * d
           x == a \div b
           y == a % b
<1>1. a \in Int /\ b \in Nat \ {0}
  OBVIOUS
<1>2. a = b * x + y /\ y \in 0..(b - 1) /\ x \in Int
  <2> HIDE DEF a, b
  <2>1. QED BY <1>1, SMT
<1>3. round_money(n, d) = x
  BY DEF round_money
<1>4. b * x = 2 * (d * x) /\ d * x \in Int
  BY <1>2
<1> HIDE DEF x, y
<1>5. QED BY <1>2, <1>3, <1>4

LEMMA RoundedGrows ==
    ASSUME NEW m \in Int, NEW n \in Int, NEW d \in Nat \ {0}, m <= n
    PROVE  round_money(m, d) <= round_money(n, d)
<1> DEFINE x == round_money(m, d)
           y == round_money(n, d)
<1>1. x \in Int /\ y \in Int /\ 2 * (d * x - m) <= d /\ 2 * (n - d * y) < d
  BY RoundedIs
<1> HIDE DEF x, y
<1> SUFFICES ASSUME x > y PROVE FALSE
  BY <1>1 DEF x, y
<1>2. d * (x - y - 1) \in Nat
  BY <1>1
<1>3. d * (x - y - 1) = d * x - d * y - d /\ d * x \in Int /\ d * y \in Int
  BY <1>1
<1>4. QED BY <1>1, <1>2, <1>3

-----------------------------------------------------------------------------
(* The last payment: what is projected of it from each payment on *)

InterestOn(d) == round_money(d.balance * d.rate, Parts)

\* What the last payment will differ by if no interest is rounded from here on, times rate and
\* as many powers of Parts as payments are left.
Excess(d) ==
    LET left == d.count - d.done
    IN  d.balance * d.rate * power(Parts + d.rate, left)
           - d.level * Parts * (power(Parts + d.rate, left) - power(Parts, left))

\* The rounding of the level payment counts once for each payment, that of the interest once
\* for each that was made.
WithinRounding(x, k, n, rate) ==
    2 * (x * power(Parts, k)) <= rate * ((n + k) * power(Parts + rate, n))
OnCourse(d) ==
    /\ WithinRounding(Excess(d), d.done, d.count, d.rate)
    /\ WithinRounding(-Excess(d), d.done, d.count, d.rate)

\* Without interest it is only the regular payment that was rounded.
Evenly(d) ==
    /\ 2 * (d.owed - d.count * d.level) <= d.count
    /\ 2 * (d.count * d.level - d.owed) <= d.count
    /\ \/ d.balance = d.owed - d.done * d.level
       \/ d.kind = "installments" /\ d.balance = 0 /\ d.level >= 0 /\ 2 * d.level <= d.count

\* Each payment covers more than the interest once the first one has.
UnderWay(d) ==
    /\ d.kind = "mortgage" => d.balance > 0 /\ (d.done > 0 => d.level > InterestOn(d))
    /\ d.kind = "installments" => d.rate = 0
    /\ d.rate = 0 => Evenly(d)
    /\ d.rate # 0 => OnCourse(d)

Closing ==
    /\ deal.kind # "none" => deal.count # 0
    /\ deal.kind # "none" /\ ~Finished => UnderWay(deal)
    /\ LastPaymentIsClose

LEMMA TimesKeeps ==
    ASSUME NEW a \in Int, NEW b \in Int, NEW c \in Nat, a <= b
    PROVE  a * c <= b * c /\ a * c \in Int /\ b * c \in Int
<1>1. (b - a) * c \in Nat
  OBVIOUS
<1>2. (b - a) * c = b * c - a * c /\ a * c \in Int /\ b * c \in Int
  OBVIOUS
<1>3. QED BY <1>1, <1>2

LEMMA CourseStarts ==
    ASSUME NEW p \in Nat, NEW rate \in Nat \ {0}, NEW n \in Nat \ {0},
           NEW level \in Int, level = level_payment(p, rate, n)
    PROVE  LET g == power(Parts + rate, n)
               x == p * rate * g - level * Parts * (g - power(Parts, n))
           IN  WithinRounding(x, 0, n, rate) /\ WithinRounding(-x, 0, n, rate)
<1> DEFINE g == power(Parts + rate, n)
           h == power(Parts, n)
           d == Parts * (g - h)
           num == p * rate * g
           x == p * rate * g - level * Parts * (g - h)
<1>1. Parts \in Nat \ {0} /\ Parts + rate \in Nat
  BY FinanceAssumption
<1>2. g \in Nat /\ h \in Nat /\ h < g /\ Parts * (g - h) <= n * rate * g
  BY <1>1, PowerIs, PowerGrows
<1>3. level = round_money(num, d)
  BY DEF level_payment
<1> HIDE DEF g, h
<1>4. d \in Nat \ {0}
  BY <1>1, <1>2
<1>5. num \in Int
  BY <1>1, <1>2
<1>6. 2 * (d * level - num) <= d /\ 2 * (num - d * level) < d
  <2> HIDE DEF num, d
  <2>1. QED BY <1>3, <1>4, <1>5, RoundedIs
<1>7. d * level = level * Parts * (g - h)
  BY <1>1, <1>2
<1>8. x = num - d * level
  BY <1>7
<1>9. rate * ((n + 0) * g) = n * rate * g
  BY <1>2
<1>10. d * level \in Int
  BY <1>4
<1> HIDE DEF x, d, num
<1>11. 2 * x <= n * rate * g /\ 2 * (-x) <= n * rate * g
  <2>1. n * rate * g \in Int
    BY <1>2
  <2>2. d <= n * rate * g
    BY <1>2 DEF d
  <2>3. QED BY <1>4, <1>5, <1>6, <1>8, <1>10, <2>1, <2>2
<1>12. power(Parts, 0) = 1
  BY <1>1, PowerIs
<1>13. x \in Int
  BY <1>5, <1>8, <1>10
<1>14. WithinRounding(x, 0, n, rate) /\ WithinRounding(-x, 0, n, rate)
  BY <1>9, <1>11, <1>12, <1>13 DEF WithinRounding, g
<1>15. QED BY <1>14 DEF x, g, h

\* One side of a step: x is the excess before it, and d the rounding of the interest, twice
\* which is at most Parts.
LEMMA CourseSide ==
    ASSUME NEW x \in Int, NEW d \in Int, NEW rate \in Nat, NEW r \in Nat, NEW qk \in Nat,
           NEW c \in Nat, NEW rn \in Nat, 2 * d <= Parts, (Parts * qk) * r <= rn,
           2 * (x * qk) <= rate * (c * rn)
    PROVE  2 * ((x + d * rate * r) * qk) <= rate * ((c + 1) * rn)
<1>1. Parts \in Nat
  BY FinanceAssumption
<1> DEFINE w == qk * r
           u == rate * w
<1>2. w \in Nat /\ u \in Nat
  OBVIOUS
<1>3. (2 * d) * u <= Parts * u
  <2> HIDE DEF u
  <2>1. QED BY <1>1, <1>2, TimesKeeps
<1>4. Parts * u = ((Parts * qk) * r) * rate
  BY <1>1
<1>5. ((Parts * qk) * r) * rate <= rn * rate
  <2> DEFINE v == (Parts * qk) * r
  <2>1. v \in Int
    BY <1>1
  <2> HIDE DEF v
  <2>2. v <= rn
    BY DEF v
  <2>3. v * rate <= rn * rate
    BY <2>1, <2>2, TimesKeeps
  <2>4. QED BY <2>3 DEF v
<1>6. 2 * ((x + d * rate * r) * qk) = 2 * (x * qk) + (2 * d) * u
  OBVIOUS
<1>7. rate * ((c + 1) * rn) = rate * (c * rn) + rn * rate
  OBVIOUS
<1>8. /\ 2 * (x * qk) \in Int /\ (2 * d) * u \in Int /\ Parts * u \in Int
      /\ rate * (c * rn) \in Int /\ rn * rate \in Int
  BY <1>1
<1> HIDE DEF u
<1>9. QED BY <1>3, <1>4, <1>5, <1>6, <1>7, <1>8

\* From a payment to the next: with left + 1 payments to make, to with left.
LEMMA CourseGoesOn ==
    ASSUME NEW b \in Int, NEW level \in Int, NEW rate \in Nat \ {0}, NEW k \in Nat, NEW left \in Nat,
           NEW i \in Int, i = round_money(b * rate, Parts),
           NEW x \in Int, NEW y \in Int,
           x = b * rate * power(Parts + rate, left + 1)
                  - level * Parts * (power(Parts + rate, left + 1) - power(Parts, left + 1)),
           y = (b + i - level) * rate * power(Parts + rate, left)
                  - level * Parts * (power(Parts + rate, left) - power(Parts, left)),
           WithinRounding(x, k, k + left + 1, rate), WithinRounding(-x, k, k + left + 1, rate)
    PROVE  WithinRounding(y, k + 1, k + left + 1, rate) /\ WithinRounding(-y, k + 1, k + left + 1, rate)
<1> DEFINE r  == power(Parts + rate, left)
           q  == power(Parts, left)
           qk == power(Parts, k)
           rn == power(Parts + rate, k + left + 1)
           d  == Parts * i - b * rate
           c  == (k + left + 1) + k
<1>1. Parts \in Nat \ {0} /\ Parts + rate \in Nat
  BY FinanceAssumption
<1>2. /\ r \in Nat /\ q \in Nat /\ qk \in Nat /\ rn \in Nat
      /\ power(Parts + rate, left + 1) = (Parts + rate) * r
      /\ power(Parts, left + 1) = Parts * q /\ power(Parts, k + 1) = Parts * qk
  BY <1>1, PowerIs
<1>3. (Parts * qk) * r <= rn
  <2>0. k + 1 \in Nat \ {0}
    OBVIOUS
  <2>1. power(Parts, k + 1) <= power(Parts + rate, k + 1) /\ k + 1 \in Nat
    BY <1>1, <2>0, PowerGrows
  <2>2. power(Parts + rate, k + 1) \in Nat /\ power(Parts, k + 1) \in Nat
    BY <1>1, <2>1, PowerIs
  <2>3. power(Parts, k + 1) * r <= power(Parts + rate, k + 1) * r
    BY <1>2, <2>1, <2>2, TimesKeeps
  <2>4. power(Parts + rate, (k + 1) + left) = power(Parts + rate, k + 1) * r
    BY <1>1, PowerSum
  <2>5. (k + 1) + left = k + left + 1
    OBVIOUS
  <2>6. QED BY <1>2, <2>3, <2>4, <2>5
<1>4. d \in Int /\ 2 * d <= Parts /\ 2 * (-d) <= Parts
  <2>1. b * rate \in Int
    OBVIOUS
  <2>2. 2 * (Parts * i - b * rate) <= Parts /\ 2 * (b * rate - Parts * i) < Parts
    BY <1>1, <2>1, RoundedIs
  <2>3. Parts * i \in Int
    BY <1>1
  <2>4. QED BY <1>1, <2>1, <2>2, <2>3
<1>5. Parts * y = x + d * rate * r
  <2> HIDE DEF r, q
  <2>1. x = b * rate * ((Parts + rate) * r) - level * Parts * ((Parts + rate) * r - Parts * q)
    BY <1>2 DEF r, q
  <2>2. y = (b + i - level) * rate * r - level * Parts * (r - q)
    BY DEF r, q
  <2>3. r \in Int /\ q \in Int
    BY <1>2
  <2>4. QED BY <1>1, <2>1, <2>2, <2>3
<1>6. Parts * (-y) = (-x) + (-d) * rate * r
  <2> HIDE DEF d, r
  <2>1. (-d) * rate * r = -(d * rate * r) /\ d * rate * r \in Int /\ Parts * (-y) = -(Parts * y) /\ Parts * y \in Int
    BY <1>1, <1>2, <1>4
  <2>2. QED BY <1>5, <2>1
<1>7. c \in Nat /\ c + 1 = (k + left + 1) + (k + 1)
  OBVIOUS
<1>8. 2 * (x * qk) <= rate * (c * rn) /\ 2 * ((-x) * qk) <= rate * (c * rn)
  BY DEF WithinRounding
<1> HIDE DEF r, qk, rn, c, d
<1>9. 2 * ((x + d * rate * r) * qk) <= rate * ((c + 1) * rn)
  BY <1>2, <1>3, <1>4, <1>7, <1>8, CourseSide
<1>10. 2 * (((-x) + (-d) * rate * r) * qk) <= rate * ((c + 1) * rn)
  <2>1. -x \in Int /\ -d \in Int
    BY <1>4
  <2>2. QED BY <1>2, <1>3, <1>4, <1>7, <1>8, <2>1, CourseSide
<1>11. (Parts * y) * qk = y * (Parts * qk) /\ (Parts * (-y)) * qk = (-y) * (Parts * qk)
  BY <1>1, <1>2
<1>12. 2 * (y * power(Parts, k + 1)) <= rate * ((c + 1) * rn)
  BY <1>2, <1>5, <1>9, <1>11
<1>13. 2 * ((-y) * power(Parts, k + 1)) <= rate * ((c + 1) * rn)
  BY <1>2, <1>6, <1>10, <1>11
<1>14. QED BY <1>7, <1>12, <1>13 DEF WithinRounding, rn

\* One side of the end.
LEMMA EndSide ==
    ASSUME NEW z \in Int, NEW d \in Int, NEW rate \in Nat \ {0}, NEW qk \in Nat,
           NEW n \in Nat \ {0}, NEW rn \in Nat, 2 * d <= Parts, Parts * qk <= rn,
           2 * ((rate * z) * qk) <= rate * ((n + (n - 1)) * rn)
    PROVE  (z + d) * qk <= n * rn
<1>1. Parts \in Nat
  BY FinanceAssumption
<1> DEFINE u == (n + (n - 1)) * rn
           v == z * qk
<1>2. u \in Int /\ v \in Int
  OBVIOUS
<1>3. 2 * v <= u
  <2>1. 2 * ((rate * z) * qk) = rate * (2 * v)
    OBVIOUS
  <2>2. rate * (2 * v) <= rate * u
    BY <2>1
  <2> HIDE DEF u, v
  <2>3. rate * (u - 2 * v) = rate * u - rate * (2 * v) /\ rate * u \in Int /\ rate * (2 * v) \in Int
    BY <1>2
  <2>4. rate * (u - 2 * v) >= 0
    BY <2>2, <2>3
  <2>5. QED
    <3> SUFFICES ASSUME 2 * v - u > 0 PROVE FALSE
      BY <1>2
    <3>1. rate * (2 * v - u) > 0
      BY <1>2
    <3>2. rate * (2 * v - u) = -(rate * (u - 2 * v))
      BY <1>2
    <3>3. rate * (u - 2 * v) \in Int
      BY <1>2
    <3>4. QED BY <2>4, <3>1, <3>2, <3>3
<1>4. (2 * d) * qk <= Parts * qk
  BY <1>1, TimesKeeps
<1>5. 2 * ((z + d) * qk) = 2 * v + (2 * d) * qk
  OBVIOUS
<1>6. u + rn = 2 * (n * rn)
  OBVIOUS
<1>7. /\ (2 * d) * qk \in Int /\ Parts * qk \in Int /\ (z + d) * qk \in Int /\ n * rn \in Int
  BY <1>1
<1> HIDE DEF u, v
<1>8. QED BY <1>2, <1>3, <1>4, <1>5, <1>6, <1>7

\* The last payment, off by z and the rounding of its own interest.
LEMMA CourseEnds ==
    ASSUME NEW b \in Int, NEW level \in Int, NEW rate \in Nat \ {0}, NEW n \in Nat \ {0},
           NEW i \in Int, i = round_money(b * rate, Parts), NEW x \in Int,
           x = b * rate * power(Parts + rate, 1)
                  - level * Parts * (power(Parts + rate, 1) - power(Parts, 1)),
           WithinRounding(x, n - 1, n, rate), WithinRounding(-x, n - 1, n, rate)
    PROVE  LET off == b + i - level
           IN  /\ off * power(Parts, n) <= n * power(Parts + rate, n)
               /\ (-off) * power(Parts, n) <= n * power(Parts + rate, n)
<1> DEFINE k   == n - 1
           qk  == power(Parts, k)
           rn  == power(Parts + rate, n)
           off == b + i - level
           d   == Parts * i - b * rate
           z   == b * (Parts + rate) - level * Parts
<1>1. Parts \in Nat \ {0} /\ Parts + rate \in Nat /\ k \in Nat /\ k + 1 = n /\ 0 + 1 = 1
  BY FinanceAssumption
<1>2. /\ qk \in Nat /\ rn \in Nat /\ power(Parts, n) = Parts * qk
      /\ power(Parts + rate, 1) = Parts + rate /\ power(Parts, 1) = Parts
  <2>1. qk \in Nat /\ power(Parts, k + 1) = Parts * qk /\ rn \in Nat
    BY <1>1, PowerIs
  <2>2. /\ power(Parts + rate, 0 + 1) = (Parts + rate) * power(Parts + rate, 0)
        /\ power(Parts, 0 + 1) = Parts * power(Parts, 0)
        /\ power(Parts + rate, 0) = 1 /\ power(Parts, 0) = 1
    BY <1>1, PowerIs
  <2>3. QED BY <1>1, <2>1, <2>2
<1>3. Parts * qk <= rn
  BY <1>1, <1>2, PowerGrows
<1>4. d \in Int /\ 2 * d <= Parts /\ 2 * (-d) <= Parts
  <2>1. b * rate \in Int
    OBVIOUS
  <2>2. 2 * (Parts * i - b * rate) <= Parts /\ 2 * (b * rate - Parts * i) < Parts
    BY <1>1, <2>1, RoundedIs
  <2>3. Parts * i \in Int
    BY <1>1
  <2>4. QED BY <1>1, <2>1, <2>2, <2>3
<1>5. z \in Int /\ -z \in Int /\ -d \in Int /\ off \in Int
  BY <1>1, <1>4
<1>6. x = rate * z /\ -x = rate * (-z)
  BY <1>1, <1>2
<1>7. Parts * off = z + d /\ Parts * (-off) = (-z) + (-d)
  BY <1>1
<1>8. /\ 2 * ((rate * z) * qk) <= rate * ((n + (n - 1)) * rn)
      /\ 2 * ((rate * (-z)) * qk) <= rate * ((n + (n - 1)) * rn)
  BY <1>6 DEF WithinRounding
<1> HIDE DEF d, z, qk, rn, off
<1>9. (z + d) * qk <= n * rn
  BY <1>2, <1>3, <1>4, <1>5, <1>8, EndSide
<1>10. ((-z) + (-d)) * qk <= n * rn
  BY <1>2, <1>3, <1>4, <1>5, <1>8, EndSide
<1>11. (Parts * off) * qk = off * (Parts * qk) /\ (Parts * (-off)) * qk = (-off) * (Parts * qk)
  BY <1>1, <1>2, <1>5
<1>12. off * power(Parts, n) <= n * rn /\ (-off) * power(Parts, n) <= n * rn
  BY <1>2, <1>7, <1>9, <1>10, <1>11
<1>13. QED BY <1>12 DEF off, rn

-----------------------------------------------------------------------------
(* The steps of a schedule *)

\* Without interest no interest is due.
LEMMA NothingRounded ==
    ASSUME NEW d \in Nat \ {0}
    PROVE  round_money(0, d) = 0
  BY DEF round_money

\* A payment that is off by at most half the number of payments is close.
LEMMA CloseWithoutInterest ==
    ASSUME NEW off \in Int, NEW n \in Nat, 2 * off <= n, 2 * (-off) <= n
    PROVE  /\ off * power(Parts, n) <= n * power(Parts + 0, n)
           /\ (-off) * power(Parts, n) <= n * power(Parts + 0, n)
<1>1. Parts \in Nat /\ Parts + 0 = Parts
  BY FinanceAssumption
<1>2. power(Parts, n) \in Nat
  BY <1>1, PowerIs
<1>3. off <= n /\ -off <= n /\ -off \in Int
  OBVIOUS
<1>4. QED BY <1>1, <1>2, <1>3, TimesKeeps

LEMMA ClosingInit == FinanceInit => Closing
  BY DEF FinanceInit, NoDeal, Closing, LastPaymentIsClose

LEMMA MortgageKeepsClosing ==
    ASSUME Books, NEW price \in Prices, NEW percent \in Percents, NEW n \in Terms,
           NEW rate \in Rates, mortgage(price, percent, n, rate)
    PROVE  Closing'
<1>1. price \in Nat /\ percent \in 0..100 /\ n \in Nat \ {0} /\ rate \in Nat /\ Parts \in Nat \ {0}
  BY FinanceAssumption
<1> DEFINE p == price - round_money(price * percent, 100)
           level == level_payment(p, rate, n)
<1>2. p \in Nat \ {0} /\ level \in Nat
  BY <1>1, PartOfPrice DEF mortgage
<1>3. /\ deal'.kind = "mortgage" /\ deal'.owed = p /\ deal'.rate = rate /\ deal'.count = n
      /\ deal'.level = level /\ deal'.done = 0 /\ deal'.balance = p
  BY DEF mortgage, NoDeal
<1> HIDE DEF p
<1>4. ASSUME rate = 0 PROVE Evenly(deal')
  <2>1. level = round_money(p, n)
    BY <1>4 DEF level_payment
  <2>2. 2 * (n * level - p) <= n /\ 2 * (p - n * level) < n
    BY <1>1, <1>2, <2>1, RoundedIs
  <2>3. n * level \in Int /\ 0 * level = 0
    BY <1>1, <1>2
  <2> HIDE DEF level
  <2>4. QED BY <1>1, <1>2, <1>3, <2>2, <2>3 DEF Evenly
<1>5. ASSUME rate # 0 PROVE OnCourse(deal')
  <2> DEFINE x == p * rate * power(Parts + rate, n)
                    - level * Parts * (power(Parts + rate, n) - power(Parts, n))
  <2>1. WithinRounding(x, 0, n, rate) /\ WithinRounding(-x, 0, n, rate)
    BY <1>1, <1>2, <1>5, CourseStarts
  <2> HIDE DEF level
  <2>2. Excess(deal') = x
    BY <1>1, <1>3 DEF Excess
  <2> HIDE DEF x
  <2>3. QED BY <1>3, <2>1, <2>2 DEF OnCourse
<1> HIDE DEF level
<1>6. UnderWay(deal')
  BY <1>2, <1>3, <1>4, <1>5 DEF UnderWay
<1>7. ~Finished' /\ deal'.count # 0
  BY <1>1, <1>2, <1>3 DEF Finished
<1>8. QED
  BY <1>6, <1>7 DEF Closing, LastPaymentIsClose

LEMMA PlanKeepsClosing ==
    ASSUME Books, NEW price \in Prices, NEW percent \in Percents, NEW maintenance \in Percents,
           NEW n \in Terms, installment_schedule(price, percent, n, maintenance)
    PROVE  Closing'
<1>1. price \in Nat /\ percent \in 0..100 /\ n \in Nat \ {0}
  BY FinanceAssumption
<1> DEFINE p == price - round_money(price * percent, 100)
           level == round_money(p, n)
<1>2. p \in Nat
  <2>1. round_money(price * percent, 100) \in 0..price
    BY <1>1, PartOfPrice
  <2>2. QED BY <1>1, <2>1
<1>3. /\ deal'.kind = "installments" /\ deal'.owed = p /\ deal'.rate = 0 /\ deal'.count = n
      /\ deal'.level = level /\ deal'.done = 0 /\ deal'.balance = p
  BY DEF installment_schedule, NoDeal
<1> HIDE DEF p
<1>4. Evenly(deal')
  <2>1. level \in Int /\ 2 * (n * level - p) <= n /\ 2 * (p - n * level) < n
    <3>1. p \in Int
      BY <1>2
    <3>2. QED BY <1>1, <3>1, RoundedIs
  <2>2. n * level \in Int /\ 0 * level = 0
    BY <1>1, <2>1
  <2> HIDE DEF level
  <2>3. QED BY <1>1, <1>2, <1>3, <2>1, <2>2 DEF Evenly
<1>5. UnderWay(deal')
  BY <1>3, <1>4 DEF UnderWay
<1>6. ~Finished' /\ deal'.count # 0
  BY <1>1, <1>3 DEF Finished
<1>7. QED
  BY <1>5, <1>6 DEF Closing, LastPaymentIsClose

LEMMA PaymentKeepsClosing ==
    ASSUME Books, Closing, amortise
    PROVE  Closing'
<1> DEFINE b == deal.balance
           rate == deal.rate
           level == deal.level
           n == deal.count
           k == deal.done
           i == round_money(b * rate, Parts)
           share == PrincipalPart(deal, i)
           off == b + i - level
<1>1. /\ deal \in Deal /\ b \in Int /\ rate \in Nat /\ level \in Int /\ n \in Nat \ {0}
      /\ k \in Nat /\ deal.owed \in Int /\ Parts \in Nat \ {0}
  BY FinanceAssumption DEF Books, FinanceTypeOK, Deal, Closing, amortise
<1>2. k < n /\ deal.kind = "mortgage" /\ ~Finished /\ b > 0
  BY <1>1 DEF amortise, Finished, Books
<1>3. UnderWay(deal)
  BY <1>2 DEF Closing
<1>4. i \in Int /\ b * rate \in Int
  <2>1. b * rate \in Int
    BY <1>1
  <2>2. QED BY <1>1, <2>1, RoundedIs
<1>5. /\ deal'.kind = "mortgage" /\ deal'.owed = deal.owed /\ deal'.rate = rate
      /\ deal'.count = n /\ deal'.level = level /\ deal'.done = k + 1
      /\ deal'.balance = b - share /\ deal'.last = share + i
  BY <1>1, <1>2 DEF amortise, Deal
<1>6. rate = 0 => i = 0
  BY <1>1, NothingRounded
<1>7. k > 0 => level > i
  BY <1>2, <1>3 DEF UnderWay, InterestOn
<1>8. rate = 0 => /\ 2 * (deal.owed - n * level) <= n /\ 2 * (n * level - deal.owed) <= n
                  /\ b = deal.owed - k * level
  BY <1>2, <1>3 DEF UnderWay, Evenly
<1>9. share = IF level - i > b \/ k + 1 = n \/ level - i <= 0 THEN b ELSE level - i
  BY DEF PrincipalPart
<1> HIDE DEF b, rate, level, n, k, i, share
<1>10. CASE k + 1 = n
  <2>1. deal'.balance = 0 /\ deal'.last = b + i /\ Finished' /\ deal'.done = n
    BY <1>1, <1>5, <1>9, <1>10 DEF Finished
  <2>2. ASSUME rate = 0
        PROVE  off * power(Parts, n) <= n * power(Parts + rate, n) /\ (-off) * power(Parts, n) <= n * power(Parts + rate, n)
    <3>1. k * level + level = n * level /\ n * level \in Int /\ k * level \in Int
      BY <1>1, <1>10
    <3>2. off \in Int /\ 2 * off <= n /\ 2 * (-off) <= n
      BY <1>1, <1>4, <1>6, <1>8, <2>2, <3>1
    <3> HIDE DEF off
    <3>3. QED BY <1>1, <2>2, <3>2, CloseWithoutInterest
  <2>3. ASSUME rate # 0
        PROVE  off * power(Parts, n) <= n * power(Parts + rate, n) /\ (-off) * power(Parts, n) <= n * power(Parts + rate, n)
    <3> DEFINE x == Excess(deal)
    <3>1. OnCourse(deal) /\ n - k = 1 /\ k = n - 1
      BY <1>1, <1>3, <1>10, <2>3 DEF UnderWay, rate
    <3>2. WithinRounding(x, n - 1, n, rate) /\ WithinRounding(-x, n - 1, n, rate)
      BY <3>1 DEF OnCourse, n, k, rate
    <3>3. x = b * rate * power(Parts + rate, 1) - level * Parts * (power(Parts + rate, 1) - power(Parts, 1))
      BY <3>1 DEF Excess, b, level, n, k, rate
    <3>4. x \in Int
      <4>1. power(Parts + rate, 1) \in Nat /\ power(Parts, 1) \in Nat
        <5>1. Parts + rate \in Nat /\ 1 \in Nat
          BY <1>1
        <5>2. QED BY <1>1, <5>1, PowerIs
      <4>2. QED BY <1>1, <3>3, <4>1
    <3> HIDE DEF x
    <3>5. rate \in Nat \ {0}
      BY <1>1, <2>3
    <3>6. QED BY <1>1, <1>4, <3>2, <3>3, <3>4, <3>5, CourseEnds DEF i
  <2>4. LastPaymentIsClose'
    <3>1. deal'.last - deal'.level = off
      BY <1>1, <1>4, <2>1, <1>5
    <3> HIDE DEF off
    <3>2. QED BY <1>1, <1>5, <2>1, <2>2, <2>3, <3>1 DEF LastPaymentIsClose
  <2>5. QED BY <1>1, <1>5, <2>1, <2>4 DEF Closing
<1>11. CASE k + 1 # n /\ (level - i > b \/ level - i <= 0)
  <2>1. deal'.balance = 0 /\ deal'.last = b + i /\ Finished' /\ deal'.done < n
    BY <1>1, <1>2, <1>5, <1>9, <1>11 DEF Finished
  <2>2. deal'.last - deal'.level <= 0 \/ deal'.done = 1
    BY <1>1, <1>4, <1>5, <1>7, <1>11, <2>1
  <2>3. LastPaymentIsClose'
    BY <1>5, <2>1, <2>2 DEF LastPaymentIsClose
  <2>4. QED BY <1>1, <1>5, <2>1, <2>3 DEF Closing
<1>12. CASE k + 1 # n /\ ~(level - i > b \/ level - i <= 0)
  <2>1. /\ share = level - i /\ deal'.balance = b + i - level /\ deal'.last = level
        /\ level > i /\ b + i - level \in Nat /\ b + i - level < b /\ k + 1 < n
    BY <1>1, <1>2, <1>4, <1>5, <1>9, <1>12
  <2>2. CASE deal'.balance = 0
    <3>1. Finished' /\ deal'.done < n /\ deal'.last - deal'.level <= 0
      BY <1>1, <1>5, <2>1, <2>2 DEF Finished
    <3>2. QED BY <1>1, <1>5, <3>1 DEF Closing, LastPaymentIsClose
  <2>3. CASE deal'.balance # 0
    <3>1. ~Finished' /\ deal'.balance > 0
      BY <1>1, <1>5, <2>1, <2>3 DEF Finished
    <3>2. InterestOn(deal') < deal'.level
      <4> DEFINE c == deal'.balance
      <4>1. c \in Int /\ c <= b
        BY <1>1, <2>1
      <4> HIDE DEF c
      <4>2. c * rate <= b * rate /\ c * rate \in Int
        BY <1>1, <4>1, TimesKeeps
      <4>3. round_money(c * rate, Parts) <= i
        BY <1>1, <1>4, <4>2, RoundedGrows DEF i
      <4>4. round_money(c * rate, Parts) \in Int
        BY <1>1, <4>2, RoundedIs
      <4>5. round_money(c * rate, Parts) < level
        BY <1>1, <1>4, <2>1, <4>3, <4>4
      <4>6. QED BY <1>5, <4>5 DEF InterestOn, c
    <3>3. ASSUME rate = 0 PROVE Evenly(deal')
      <4>1. (k + 1) * level = k * level + level /\ k * level \in Int
        BY <1>1
      <4>2. deal'.balance = deal'.owed - deal'.done * deal'.level
        BY <1>1, <1>5, <1>6, <1>8, <2>1, <3>3, <4>1
      <4>3. QED BY <1>5, <1>8, <3>3, <4>2 DEF Evenly
    <3>4. ASSUME rate # 0 PROVE OnCourse(deal')
      <4> DEFINE left == n - (k + 1)
                 x == Excess(deal)
                 y == Excess(deal')
      <4>1. left \in Nat /\ n = k + left + 1 /\ n - k = left + 1
        BY <1>1, <2>1
      <4> HIDE DEF left
      <4>2. OnCourse(deal)
        BY <1>3, <3>4 DEF UnderWay, rate
      <4>3. WithinRounding(x, k, k + left + 1, rate) /\ WithinRounding(-x, k, k + left + 1, rate)
        BY <4>1, <4>2 DEF OnCourse, n, k, rate
      <4>4. x = b * rate * power(Parts + rate, left + 1)
                  - level * Parts * (power(Parts + rate, left + 1) - power(Parts, left + 1))
        BY <4>1 DEF Excess, b, level, n, k, rate
      <4>5. y = (b + i - level) * rate * power(Parts + rate, left)
                  - level * Parts * (power(Parts + rate, left) - power(Parts, left))
        BY <1>5, <2>1 DEF Excess, left
      <4>6. x \in Int /\ y \in Int
        <5>1. /\ power(Parts + rate, left + 1) \in Nat /\ power(Parts, left + 1) \in Nat
              /\ power(Parts + rate, left) \in Nat /\ power(Parts, left) \in Nat
          <6>1. Parts + rate \in Nat /\ left + 1 \in Nat
            BY <1>1, <4>1
          <6>2. QED BY <1>1, <4>1, <6>1, PowerIs
        <5> HIDE DEF x, y
        <5>2. QED BY <1>1, <1>4, <4>4, <4>5, <5>1
      <4> HIDE DEF x, y
      <4>7. rate \in Nat \ {0}
        BY <1>1, <3>4
      <4>8. WithinRounding(y, k + 1, k + left + 1, rate) /\ WithinRounding(-y, k + 1, k + left + 1, rate)
        <5>1. QED BY <1>1, <1>4, <4>1, <4>3, <4>4, <4>5, <4>6, <4>7, CourseGoesOn DEF i
      <4>9. QED BY <1>5, <4>1, <4>8 DEF OnCourse, y
    <3>5. UnderWay(deal')
      BY <1>5, <3>1, <3>2, <3>3, <3>4 DEF UnderWay
    <3>6. QED BY <1>1, <1>5, <3>1, <3>5 DEF Closing, LastPaymentIsClose
  <2>4. QED BY <2>2, <2>3
<1>13. QED BY <1>10, <1>11, <1>12

LEMMA InstalmentKeepsClosing ==
    ASSUME Books, Closing, Instalment
    PROVE  Closing'
<1> DEFINE b == deal.balance
           level == deal.level
           n == deal.count
           k == deal.done
           owed == deal.owed
           amount == Amount(deal)
           off == b - level
<1>1. /\ deal \in Deal /\ b \in Nat /\ level \in Int /\ n \in Nat \ {0} /\ k \in Nat /\ owed \in Int
  BY DEF Books, FinanceTypeOK, Deal, Closing, Instalment
<1>2. k < n /\ deal.kind = "installments" /\ ~Finished
  BY <1>1 DEF Instalment, Finished, Books
<1>3. deal.rate = 0 /\ Evenly(deal)
  BY <1>2 DEF Closing, UnderWay
<1>4. /\ 2 * (owed - n * level) <= n /\ 2 * (n * level - owed) <= n
      /\ \/ b = owed - k * level
         \/ b = 0 /\ level >= 0 /\ 2 * level <= n
  BY <1>3 DEF Evenly
<1>5. /\ deal'.kind = "installments" /\ deal'.owed = owed /\ deal'.rate = 0
      /\ deal'.count = n /\ deal'.level = level /\ deal'.done = k + 1
      /\ deal'.balance = b - amount /\ deal'.last = amount
  BY <1>1, <1>2, <1>3 DEF Instalment, Deal
<1>6. amount = IF k + 1 = n \/ level > b THEN b ELSE level
  BY DEF Amount
<1> HIDE DEF amount, b, level, n, k, owed
<1>7. (k + 1) * level = k * level + level /\ k * level \in Int /\ n * level \in Int
  BY <1>1
<1>8. CASE k + 1 = n
  <2>1. deal'.last - deal'.level = off /\ Finished' /\ deal'.done = n
    BY <1>1, <1>5, <1>6, <1>8 DEF Finished
  <2>2. off \in Int /\ 2 * off <= n /\ 2 * (-off) <= n
    BY <1>1, <1>4, <1>7, <1>8
  <2> HIDE DEF off
  <2>3. /\ off * power(Parts, n) <= n * power(Parts + 0, n)
        /\ (-off) * power(Parts, n) <= n * power(Parts + 0, n)
    BY <1>1, <2>2, CloseWithoutInterest
  <2>4. QED BY <1>1, <1>5, <2>1, <2>3 DEF Closing, LastPaymentIsClose
<1>9. CASE k + 1 # n
  <2>1. ~Finished' /\ k + 1 < n
    BY <1>1, <1>2, <1>5, <1>9 DEF Finished
  <2>2. CASE level > b
    <3>1. deal'.balance = 0 /\ level >= 0
      BY <1>1, <1>5, <1>6, <2>2
    <3>2. ASSUME b = owed - k * level PROVE 2 * level <= n
      <4>1. (n - (k + 2)) * level \in Nat
        BY <1>1, <2>1, <3>1
      <4>2. (n - (k + 2)) * level = n * level - k * level - 2 * level
        BY <1>1
      <4>3. QED BY <1>1, <1>4, <1>7, <2>2, <3>2, <4>1, <4>2
    <3>3. Evenly(deal')
      BY <1>4, <1>5, <3>1, <3>2 DEF Evenly
    <3>4. QED BY <1>1, <1>5, <2>1, <3>3 DEF Closing, UnderWay, LastPaymentIsClose
  <2>3. CASE ~(level > b)
    <3>1. deal'.balance = b - level
      BY <1>5, <1>6, <1>9, <2>3
    <3>2. \/ deal'.balance = owed - (k + 1) * level
          \/ deal'.balance = 0 /\ level >= 0 /\ 2 * level <= n
      BY <1>1, <1>4, <1>7, <2>3, <3>1
    <3>3. Evenly(deal')
      BY <1>4, <1>5, <3>2 DEF Evenly
    <3>4. QED BY <1>1, <1>5, <2>1, <3>3 DEF Closing, UnderWay, LastPaymentIsClose
  <2>4. QED BY <2>2, <2>3
<1>10. QED BY <1>8, <1>9

\* The last payment is the regular one but for the rounding, as the spec of
\* Finance::Amortization and InstallmentPlan#final_payment count on, for every price, rate and
\* term.
THEOREM LastPaymentsAreClose == FinanceSpec => []LastPaymentIsClose
<1>1. ASSUME Books, Closing, [FinanceNext]_financeVars
      PROVE  Closing'
  <2>1. CASE \E price \in Prices, percent \in Percents, n \in Terms, rate \in Rates :
                mortgage(price, percent, n, rate)
    BY <1>1, <2>1, MortgageKeepsClosing
  <2>2. CASE \E price \in Prices, percent \in Percents, maintenance \in Percents, n \in Terms :
                installment_schedule(price, percent, n, maintenance)
    BY <1>1, <2>2, PlanKeepsClosing
  <2>3. CASE amortise
    BY <1>1, <2>3, PaymentKeepsClosing
  <2>4. CASE Instalment
    BY <1>1, <2>4, InstalmentKeepsClosing
  <2>5. CASE UNCHANGED financeVars
    BY <1>1, <2>5 DEF Closing, LastPaymentIsClose, UnderWay, Evenly, OnCourse, Excess, InterestOn,
                      Finished, financeVars
  <2>6. QED
    BY <1>1, <2>1, <2>2, <2>3, <2>4, <2>5 DEF FinanceNext
<1>2. Closing => LastPaymentIsClose
  BY DEF Closing
<1>3. QED
  BY <1>1, <1>2, ClosingInit, BooksKept, PTL DEF FinanceSpec

-----------------------------------------------------------------------------
\* RateLimits: no count lets through more than it says, and none refuses below its limit.

USE RateAssumption

-----------------------------------------------------------------------------
(* What a step does to the hits: H before it, K after it, at the time t *)

SameButFor(H, K, r) == \A q \in Hits \ {r} : K[q] = H[q]

Comes(H, K, r, t) ==
    /\ SameButFor(H, K, r)
    /\ H[r].at = "new"
    /\ K[r].at = "read" /\ K[r].stamp = t /\ K[r].counted = H[r].counted /\ K[r].end = H[r].end
    /\ K[r].by = H[r].by

\* The hit is counted, and told by its number whether it is let through.
Counts(H, K, r, t, by, n) ==
    /\ SameButFor(H, K, r)
    /\ H[r].at \in {"read", "expire"}
    /\ K[r].at \in {"expire", "takeback", "over"}
    /\ K[r].by = by /\ K[r].counted = t /\ K[r].allowed = (n <= Limit)
    /\ K[r].stamp = H[r].stamp
    /\ K[r].end = IF K[r].at = "over" THEN t ELSE -1

\* The hit is done with, as it was told or let through uncounted.
HitEnds(H, K, r, t) ==
    /\ SameButFor(H, K, r)
    /\ H[r].at \in {"read", "expire", "takeback"}
    /\ K[r].at = "over" /\ K[r].end = t
    /\ K[r].stamp = H[r].stamp /\ K[r].counted = H[r].counted /\ K[r].by = H[r].by
    /\ K[r].allowed = H[r].allowed \/ K[r].by = "none"
    /\ H[r].at = "read" => K[r].allowed

\* The times of a hit, and how far it has got, at time t.
Fits(h, t) ==
    /\ h.stamp <= t
    /\ h.at \in {"new", "read"} => h.by = "none" /\ h.end = -1
    /\ h.at \in {"read", "expire", "takeback"} => t - h.stamp <= MaxDelay /\ h.end = -1
    /\ h.at \in {"expire", "takeback"} => h.by = "redis"
    /\ h.at = "takeback" => ~h.allowed
    /\ h.at = "over" => h.stamp <= h.end /\ h.end <= t
    /\ h.counted # -1 => h.stamp <= h.counted /\ h.counted <= t /\ h.counted <= h.stamp + MaxDelay
    /\ h.by = "none" <=> h.counted = -1

Clocks == \A r \in Hits : Fits(hit[r], now)

-----------------------------------------------------------------------------
(* Counting sets of hits *)

LEMMA HitsAreFinite ==
    /\ IsFiniteSet(Hits) /\ Cardinality(Hits) = MaxHits
    /\ \A S \in SUBSET Hits : IsFiniteSet(S) /\ Cardinality(S) \in Nat /\ Cardinality(S) <= MaxHits
<1>1. IsFiniteSet(Hits) /\ Cardinality(Hits) = MaxHits
  BY FS_Interval DEF Hits
<1>2. QED
  BY <1>1, FS_Subset, FS_CardinalityType

\* Fewer hits, or one hit more.
LEMMA FewerHits ==
    ASSUME NEW S \in SUBSET Hits, NEW T \in SUBSET S
    PROVE  Cardinality(T) <= Cardinality(S)
BY HitsAreFinite, FS_Subset

LEMMA OneHitMore ==
    ASSUME NEW S \in SUBSET Hits, NEW r \in Hits, NEW T \in SUBSET (S \cup {r})
    PROVE  Cardinality(T) <= Cardinality(S) + 1
<1>1. /\ IsFiniteSet(S \cup {r}) /\ Cardinality(S \cup {r}) <= Cardinality(S) + 1
      /\ Cardinality(S) \in Nat /\ S \cup {r} \in SUBSET Hits
  BY HitsAreFinite, FS_AddElement
<1>2. Cardinality(T) <= Cardinality(S \cup {r})
  BY <1>1, FewerHits
<1>3. T \in SUBSET Hits /\ Cardinality(T) \in Nat /\ Cardinality(S \cup {r}) \in Nat
  BY <1>1, HitsAreFinite
<1>4. QED
  BY <1>1, <1>2, <1>3

\* A part of two sets is no larger than both.
LEMMA TwoSets ==
    ASSUME NEW S \in SUBSET Hits, NEW T \in SUBSET Hits, NEW U \in SUBSET (S \cup T)
    PROVE  Cardinality(U) <= Cardinality(S) + Cardinality(T)
<1>1. S \cap T \in SUBSET Hits /\ S \cup T \in SUBSET Hits /\ U \in SUBSET Hits
  OBVIOUS
<1>2. Cardinality(S \cup T) = Cardinality(S) + Cardinality(T) - Cardinality(S \cap T)
  BY HitsAreFinite, FS_Union
<1>3. Cardinality(U) <= Cardinality(S \cup T)
  BY <1>1, FewerHits
<1>4. /\ Cardinality(S) \in Nat /\ Cardinality(T) \in Nat /\ Cardinality(S \cap T) \in Nat
      /\ Cardinality(S \cup T) \in Nat /\ Cardinality(U) \in Nat
  BY <1>1, HitsAreFinite
<1>5. QED
  BY <1>2, <1>3, <1>4

-----------------------------------------------------------------------------
(* Two windows hold all that a fixed window lets through at any time *)

LetIn(H, by)   == {q \in Hits : H[q].by = by /\ H[q].allowed}
Since(H, by, e)  == {q \in LetIn(H, by) : H[q].counted >= e}
CountedBefore(H, by, e) == {q \in LetIn(H, by) : e - Window <= H[q].counted /\ H[q].counted < e}
Within(H, by, from, span) == {q \in LetIn(H, by) : from <= H[q].counted /\ H[q].counted < from + span}

\* The window that began at e has counted n, and the one before it no more than the limit.
TwoWindows(H, by, e, n) ==
    /\ Cardinality(Since(H, by, e)) <= n
    /\ Cardinality(Since(H, by, e)) <= Limit
    /\ Cardinality(CountedBefore(H, by, e)) <= Limit

NoneTwice(H, by) == \A from \in Times : Cardinality(Within(H, by, from, Window)) <= 2 * Limit

LEMMA PartsOfHits ==
    ASSUME NEW H, NEW by, NEW e, NEW span
    PROVE  /\ LetIn(H, by) \in SUBSET Hits
           /\ Since(H, by, e) \in SUBSET Hits /\ CountedBefore(H, by, e) \in SUBSET Hits
           /\ Within(H, by, e, span) \in SUBSET Hits
BY DEF LetIn, Since, CountedBefore, Within

\* Where no hit is let through any more, what was counted stays counted.
LEMMA WindowsKept ==
    ASSUME NEW H \in [Hits -> Hit], NEW K \in [Hits -> Hit], NEW by, NEW e \in Nat,
           NEW m \in Nat, NEW n \in Nat, m <= n,
           TwoWindows(H, by, e, m), NoneTwice(H, by),
           \A q \in LetIn(K, by) : q \in LetIn(H, by) /\ K[q].counted = H[q].counted
    PROVE  TwoWindows(K, by, e, n) /\ NoneTwice(K, by)
<1>1. /\ Since(K, by, e) \in SUBSET Since(H, by, e)
      /\ CountedBefore(K, by, e) \in SUBSET CountedBefore(H, by, e)
  BY DEF Since, CountedBefore
<1>2. \A from \in Times : Within(K, by, from, Window) \in SUBSET Within(H, by, from, Window)
  BY DEF Within
<1>3. /\ Cardinality(Since(K, by, e)) <= Cardinality(Since(H, by, e))
      /\ Cardinality(CountedBefore(K, by, e)) <= Cardinality(CountedBefore(H, by, e))
      /\ \A from \in Times : Cardinality(Within(K, by, from, Window)) <= Cardinality(Within(H, by, from, Window))
  BY <1>1, <1>2, PartsOfHits, FewerHits
<1>4. /\ Cardinality(Since(K, by, e)) \in Nat /\ Cardinality(Since(H, by, e)) \in Nat
      /\ Cardinality(CountedBefore(K, by, e)) \in Nat /\ Cardinality(CountedBefore(H, by, e)) \in Nat
      /\ \A from \in Times : /\ Cardinality(Within(K, by, from, Window)) \in Nat
                             /\ Cardinality(Within(H, by, from, Window)) \in Nat
  BY PartsOfHits, HitsAreFinite
<1>5. TwoWindows(K, by, e, n)
  BY <1>3, <1>4 DEF TwoWindows
<1>6. \A from \in Times : Cardinality(Within(K, by, from, Window)) <= 2 * Limit
  BY <1>3, <1>4 DEF NoneTwice
<1>7. QED
  BY <1>5, <1>6 DEF NoneTwice

\* A hit that is counted in the window since e.
LEMMA WindowsCount ==
    ASSUME NEW H \in [Hits -> Hit], NEW K \in [Hits -> Hit], NEW by \in {"redis", "memory"}, NEW e \in Nat,
           NEW n \in Nat, NEW r \in Hits, NEW t \in Times, e <= t,
           Counts(H, K, r, t, by, n + 1), \A q \in Hits : Fits(H[q], t),
           by = "redis" => H[r].at = "read",
           TwoWindows(H, by, e, n), NoneTwice(H, by)
    PROVE  TwoWindows(K, by, e, n + 1) /\ NoneTwice(K, by)
<1>1. \A q \in Hits \ {r} : K[q] = H[q]
  BY DEF Counts, SameButFor
<1>2. r \notin LetIn(H, by)
  BY DEF Counts, Fits, LetIn
<1>3. K[r].counted = t /\ K[r].allowed = (n + 1 <= Limit)
  BY DEF Counts
<1>4. CountedBefore(K, by, e) \in SUBSET CountedBefore(H, by, e)
  BY <1>1, <1>3 DEF CountedBefore, LetIn, Times
<1>5. Since(K, by, e) \in SUBSET (Since(H, by, e) \cup {r})
  BY <1>1 DEF Since, LetIn
<1>6. n + 1 > Limit => Since(K, by, e) \in SUBSET Since(H, by, e)
  <2>1. n + 1 > Limit => ~(n + 1 <= Limit)
    OBVIOUS
  <2>2. n + 1 > Limit => ~K[r].allowed
    BY <1>3, <2>1, Zenon
  <2>3. QED
    BY <1>1, <2>2 DEF Since, LetIn
<1>7. /\ Cardinality(Since(K, by, e)) \in Nat /\ Cardinality(Since(H, by, e)) \in Nat
      /\ Cardinality(CountedBefore(K, by, e)) \in Nat /\ Cardinality(CountedBefore(H, by, e)) \in Nat
      /\ \A from \in Times : /\ Cardinality(Within(K, by, from, Window)) \in Nat
                             /\ Cardinality(Within(H, by, from, Window)) \in Nat
  BY PartsOfHits, HitsAreFinite
<1>8. /\ Cardinality(CountedBefore(K, by, e)) <= Limit
      /\ Cardinality(Since(K, by, e)) <= n + 1
      /\ Cardinality(Since(K, by, e)) <= Limit
  <2>1. Cardinality(CountedBefore(K, by, e)) <= Cardinality(CountedBefore(H, by, e))
    BY <1>4, PartsOfHits, FewerHits
  <2>2. Cardinality(Since(K, by, e)) <= Cardinality(Since(H, by, e)) + 1
    BY <1>5, PartsOfHits, OneHitMore
  <2>3. n + 1 > Limit => Cardinality(Since(K, by, e)) <= Cardinality(Since(H, by, e))
    BY <1>6, PartsOfHits, FewerHits
  <2>4. QED
    BY <2>1, <2>2, <2>3, <1>7 DEF TwoWindows
<1>9. ASSUME NEW from \in Times
      PROVE  Cardinality(Within(K, by, from, Window)) <= 2 * Limit
  <2>1. CASE from + Window > e
    <3>1. \A q \in LetIn(K, by) : K[q].counted \in Int
      BY DEF LetIn, Hit, Times
    <3>2. Within(K, by, from, Window) \in SUBSET (Since(K, by, e) \cup CountedBefore(K, by, e))
      BY <2>1, <3>1 DEF Within, Since, CountedBefore, Times
    <3>3. Cardinality(Within(K, by, from, Window)) <= Cardinality(Since(K, by, e)) + Cardinality(CountedBefore(K, by, e))
      BY <3>2, PartsOfHits, TwoSets
    <3>4. QED
      BY <3>3, <1>7, <1>8
  <2>2. CASE from + Window <= e
    <3>1. Within(K, by, from, Window) \in SUBSET Within(H, by, from, Window)
      BY <2>2, <1>1, <1>3 DEF Within, LetIn, Times
    <3>2. Cardinality(Within(K, by, from, Window)) <= Cardinality(Within(H, by, from, Window))
      BY <3>1, PartsOfHits, FewerHits
    <3>3. QED
      BY <3>2, <1>7 DEF NoneTwice
  <2>3. QED
    BY <2>1, <2>2 DEF Times
<1>10. QED
  BY <1>8, <1>9 DEF TwoWindows, NoneTwice

\* A window that has run its length gives way to a new one, at d.
LEMMA WindowsMove ==
    ASSUME NEW H \in [Hits -> Hit], NEW by, NEW e \in Nat, NEW d \in Nat, d >= e + Window, NEW n \in Nat,
           TwoWindows(H, by, e, n), NoneTwice(H, by),
           \A q \in LetIn(H, by) : H[q].counted < d
    PROVE  TwoWindows(H, by, d, 0)
<1>1. \A q \in LetIn(H, by) : H[q].counted \in Int
  BY DEF LetIn, Hit, Times
<1>2. Since(H, by, d) = {}
  BY <1>1 DEF Since
<1>3. CountedBefore(H, by, d) \in SUBSET Since(H, by, e)
  BY <1>1 DEF CountedBefore, Since
<1>4. Cardinality(CountedBefore(H, by, d)) <= Cardinality(Since(H, by, e))
  BY <1>3, PartsOfHits, FewerHits
<1>5. Cardinality(CountedBefore(H, by, d)) \in Nat /\ Cardinality(Since(H, by, e)) \in Nat
  BY PartsOfHits, HitsAreFinite
<1>6. QED
  BY <1>2, <1>4, <1>5, FS_EmptySet DEF TwoWindows

-----------------------------------------------------------------------------
(* What each step does *)

LEMMA NatLimit == Limit \in Nat \ {0} /\ Window \in Nat \ {0} /\ MaxDelay \in Nat /\ MaxDelay < Window
OBVIOUS

\* A request that is told of its number.
LEMMA Telling ==
    ASSUME RateTypeOK, NEW r \in Hits, NEW label \in {"expire", "takeback", "over"},
           NEW by \in {"redis", "memory"}, NEW n \in Nat,
           hit[r].at \in {"read", "expire"}, Told(r, label, by, n)
    PROVE  hit' \in [Hits -> Hit] /\ hit'[r].at = label /\ Counts(hit, hit', r, now, by, n)
<1>0. PICK b \in BOOLEAN : b = (n <= Limit)
  <2>1. (n <= Limit) \in BOOLEAN
    OBVIOUS
  <2>2. QED
    BY <2>1, Zenon
<1>1. PICK k : k = [hit[r] EXCEPT !.at = label, !.by = by, !.allowed = b, !.counted = now,
                                  !.end = IF label = "over" THEN now ELSE -1]
  OBVIOUS
<1>2. hit \in [Hits -> Hit] /\ now \in Times
  BY DEF RateTypeOK
<1>3. hit[r] \in Hit
  BY <1>2
<1>4. k \in Hit
  BY <1>1, <1>2, <1>3 DEF Hit
<1>5. /\ k.at = label /\ k.by = by /\ k.allowed = b /\ k.counted = now
      /\ k.stamp = hit[r].stamp /\ k.end = IF label = "over" THEN now ELSE -1
  BY <1>1, <1>3 DEF Hit
<1>6. hit' = [hit EXCEPT ![r] = k]
  BY <1>0, <1>1 DEF Told
<1>7. hit' \in [Hits -> Hit] /\ hit'[r] = k /\ SameButFor(hit, hit', r)
  BY <1>2, <1>4, <1>6 DEF SameButFor
<1>8. QED
  BY <1>0, <1>5, <1>7 DEF Counts

\* A request that is done with.
LEMMA HitEnding ==
    ASSUME RateTypeOK, Clocks, NEW r \in Hits, hit[r].at \in {"read", "expire", "takeback"},
           \/ hit[r].at # "read" /\ hit' = [hit EXCEPT ![r].at = "over", ![r].end = now]
           \/ hit[r].at = "read" /\ hit' = [hit EXCEPT ![r].at = "over", ![r].allowed = TRUE, ![r].end = now]
    PROVE  hit' \in [Hits -> Hit] /\ HitEnds(hit, hit', r, now)
<1>1. hit \in [Hits -> Hit] /\ now \in Times /\ hit[r] \in Hit
  BY DEF RateTypeOK
<1>2. PICK k : /\ k \in Hit /\ hit' = [hit EXCEPT ![r] = k]
               /\ k.at = "over" /\ k.end = now /\ k.stamp = hit[r].stamp
               /\ k.counted = hit[r].counted /\ k.by = hit[r].by
               /\ k.allowed = hit[r].allowed \/ hit[r].at = "read"
               /\ hit[r].at = "read" => k.allowed
  <2>1. CASE hit[r].at # "read" /\ hit' = [hit EXCEPT ![r].at = "over", ![r].end = now]
    <3>1. PICK k : k = [hit[r] EXCEPT !.at = "over", !.end = now]
      OBVIOUS
    <3>2. /\ k \in Hit /\ k.at = "over" /\ k.end = now /\ k.stamp = hit[r].stamp
          /\ k.counted = hit[r].counted /\ k.by = hit[r].by /\ k.allowed = hit[r].allowed
      BY <1>1, <3>1 DEF Hit
    <3>3. QED
      BY <2>1, <3>1, <3>2
  <2>2. CASE hit[r].at = "read" /\ hit' = [hit EXCEPT ![r].at = "over", ![r].allowed = TRUE, ![r].end = now]
    <3>1. PICK k : k = [hit[r] EXCEPT !.at = "over", !.allowed = TRUE, !.end = now]
      OBVIOUS
    <3>2. /\ k \in Hit /\ k.at = "over" /\ k.end = now /\ k.stamp = hit[r].stamp
          /\ k.counted = hit[r].counted /\ k.by = hit[r].by /\ k.allowed
      BY <1>1, <3>1 DEF Hit
    <3>3. QED
      BY <2>2, <3>1, <3>2
  <2>3. QED
    BY <2>1, <2>2
<1>3. hit' \in [Hits -> Hit] /\ hit'[r] = k /\ SameButFor(hit, hit', r)
  BY <1>1, <1>2 DEF SameButFor
<1>4. hit[r].at = "read" => hit[r].by = "none"
  BY DEF Clocks, Fits
<1>5. QED
  BY <1>2, <1>3, <1>4 DEF HitEnds

LEMMA Coming ==
    ASSUME RateTypeOK, NEW r \in Hits, CallComes(r)
    PROVE  hit' \in [Hits -> Hit] /\ Comes(hit, hit', r, now)
<1>1. hit \in [Hits -> Hit] /\ now \in Times /\ hit[r] \in Hit
  BY DEF RateTypeOK
<1>2. PICK k : k = [hit[r] EXCEPT !.at = "read", !.stamp = now]
  OBVIOUS
<1>3. /\ k \in Hit /\ k.at = "read" /\ k.stamp = now
      /\ k.counted = hit[r].counted /\ k.by = hit[r].by /\ k.end = hit[r].end
  BY <1>1, <1>2 DEF Hit
<1>4. hit' = [hit EXCEPT ![r] = k] /\ hit[r].at = "new"
  BY <1>2 DEF CallComes
<1>5. hit' \in [Hits -> Hit] /\ hit'[r] = k /\ SameButFor(hit, hit', r)
  BY <1>1, <1>3, <1>4 DEF SameButFor
<1>6. QED
  BY <1>3, <1>4, <1>5 DEF Comes

\* rag-svc's own window, when it counts a request.
Remembers(r) ==
    /\ algorithm = "healing" /\ memory' = MemoryWindow
    /\ hit' \in [Hits -> Hit] /\ hit'[r].at = "over"
    /\ \E n \in Nat : n = memory'.n /\ Counts(hit, hit', r, now, "memory", n)

LEMMA Remembering ==
    ASSUME RateTypeOK, NEW r \in Hits, hit[r].at \in {"read", "expire"}, algorithm = "healing", FallBack(r)
    PROVE  Remembers(r)
<1>1. memory \in [n : 0..Cardinality(Hits), start : Times] /\ now \in Times
  BY DEF RateTypeOK
<1>2. PICK m : m = MemoryWindow
  OBVIOUS
<1>3. memory' = m /\ Told(r, "over", "memory", m.n)
  BY <1>2 DEF FallBack
<1>4. m.n \in Nat
  BY <1>1, <1>2, HitsAreFinite DEF MemoryWindow
<1>5. hit' \in [Hits -> Hit] /\ hit'[r].at = "over" /\ Counts(hit, hit', r, now, "memory", m.n)
  BY <1>3, <1>4, Telling
<1>6. QED
  BY <1>2, <1>3, <1>4, <1>5 DEF Remembers

-----------------------------------------------------------------------------
(* The steps by what they do to the hits *)

\* The first call of a request reached Redis, or may have.
Counted(r) ==
    /\ algorithm # "sliding" /\ counter' = [counter EXCEPT !.n = counter.n + 1]
    /\ UNCHANGED members
Slid(r) ==
    /\ algorithm = "sliding" /\ members' = Kept(r) \cup {r}
    /\ UNCHANGED counter

StepOf(r) ==
    \/ Comes(hit, hit', r, now) /\ UNCHANGED <<algorithm, now, counter, members, memory, lost>>
    \/ /\ hit[r].at = "read" /\ Counted(r)
       /\ Counts(hit, hit', r, now, "redis", counter.n + 1)
       /\ hit'[r].at = IF SetsExpiry(counter.n + 1) THEN "expire" ELSE "over"
       /\ UNCHANGED <<algorithm, now, memory, lost>>
    \/ /\ hit[r].at = "expire" /\ HitEnds(hit, hit', r, now)
       /\ counter' = IF counter.n > 0 THEN [counter EXCEPT !.expires = now + Window] ELSE counter
       /\ UNCHANGED <<algorithm, now, members, memory, lost>>
    \/ /\ hit[r].at = "read" /\ Slid(r)
       /\ Counts(hit, hit', r, now, "redis", Cardinality(members'))
       /\ hit'[r].at = IF Cardinality(members') > Limit THEN "takeback" ELSE "over"
       /\ UNCHANGED <<algorithm, now, memory, lost>>
    \/ /\ hit[r].at = "takeback" /\ HitEnds(hit, hit', r, now)
       /\ members' = members \ {r} \/ (RedisMayFail /\ members' = members)
       /\ UNCHANGED <<algorithm, now, counter, memory, lost>>
    \/ /\ RedisMayFail /\ hit[r].at = "read"
       /\ \/ Remembers(r)
          \/ HitEnds(hit, hit', r, now) /\ UNCHANGED memory
       /\ \/ UNCHANGED <<counter, members, lost>>
          \/ Slid(r) /\ UNCHANGED lost
          \/ Counted(r) /\ lost' = (lost \/ SetsExpiry(counter.n + 1))
       /\ UNCHANGED <<algorithm, now>>
    \/ /\ RedisMayFail /\ hit[r].at = "expire" /\ lost' = TRUE
       /\ \/ Remembers(r)
          \/ HitEnds(hit, hit', r, now) /\ UNCHANGED memory
       /\ UNCHANGED <<algorithm, now, counter, members>>

LEMMA StepsAreSo ==
    ASSUME RateTypeOK, Clocks, NEW r \in Hits,
           \/ CallComes(r) \/ CountHit(r) \/ SetExpiry(r) \/ SlideHit(r) \/ TakeBack(r)
           \/ FailFirst(r) \/ FailSecond(r)
    PROVE  hit' \in [Hits -> Hit] /\ StepOf(r)
<1>1. /\ counter \in [n : 0..Cardinality(Hits), expires : Expiry] /\ counter.n \in Nat
      /\ members \in SUBSET Hits
  BY HitsAreFinite DEF RateTypeOK
<1>2. CASE CallComes(r)
  <2>1. hit' \in [Hits -> Hit] /\ Comes(hit, hit', r, now)
    BY <1>2, Coming
  <2>2. QED
    BY <1>2, <2>1 DEF CallComes, StepOf
<1>3. CASE CountHit(r)
  <2>1. PICK label \in {"expire", "over"} : label = IF SetsExpiry(counter.n + 1) THEN "expire" ELSE "over"
    OBVIOUS
  <2>2. hit[r].at = "read" /\ Told(r, label, "redis", counter.n + 1)
    BY <1>3, <2>1 DEF CountHit
  <2>3. hit' \in [Hits -> Hit] /\ hit'[r].at = label /\ Counts(hit, hit', r, now, "redis", counter.n + 1)
    BY <1>1, <2>2, Telling
  <2>4. Counted(r) /\ UNCHANGED <<algorithm, now, memory, lost>>
    BY <1>3 DEF CountHit, Counted
  <2>5. QED
    BY <2>1, <2>2, <2>3, <2>4 DEF StepOf
<1>4. CASE SetExpiry(r)
  <2>1. hit' \in [Hits -> Hit] /\ HitEnds(hit, hit', r, now)
    BY <1>4, HitEnding DEF SetExpiry
  <2>2. QED
    BY <1>4, <2>1 DEF SetExpiry, StepOf
<1>5. CASE SlideHit(r)
  <2>1. PICK m : m = Kept(r) \cup {r}
    OBVIOUS
  <2>2. members' = m /\ m \in SUBSET Hits
    BY <1>1, <1>5, <2>1 DEF SlideHit, Kept
  <2>3. Cardinality(m) \in Nat
    BY <2>2, HitsAreFinite
  <2>4. PICK label \in {"takeback", "over"} : label = IF Cardinality(m) > Limit THEN "takeback" ELSE "over"
    OBVIOUS
  <2>5. hit[r].at = "read" /\ Told(r, label, "redis", Cardinality(m))
    BY <1>5, <2>2, <2>4 DEF SlideHit
  <2>6. hit' \in [Hits -> Hit] /\ hit'[r].at = label /\ Counts(hit, hit', r, now, "redis", Cardinality(m))
    BY <2>3, <2>5, Telling
  <2>7. Slid(r) /\ UNCHANGED <<algorithm, now, memory, lost>>
    BY <1>5 DEF SlideHit, Slid
  <2>8. QED
    BY <2>2, <2>4, <2>5, <2>6, <2>7 DEF StepOf
<1>6. CASE TakeBack(r)
  <2>1. hit' \in [Hits -> Hit] /\ HitEnds(hit, hit', r, now)
    BY <1>6, HitEnding DEF TakeBack
  <2>2. QED
    BY <1>6, <2>1 DEF TakeBack, StepOf
<1>7. CASE FailFirst(r)
  <2>1. RedisMayFail /\ hit[r].at = "read" /\ FallBack(r) /\ UNCHANGED <<algorithm, now>>
    BY <1>7 DEF FailFirst
  <2>2. /\ hit' \in [Hits -> Hit]
        /\ Remembers(r) \/ (HitEnds(hit, hit', r, now) /\ UNCHANGED memory)
    <3>1. CASE algorithm = "healing"
      BY <2>1, <3>1, Remembering DEF Remembers
    <3>2. CASE algorithm # "healing"
      <4>1. /\ hit' = [hit EXCEPT ![r].at = "over", ![r].allowed = TRUE, ![r].end = now]
            /\ UNCHANGED memory
        BY <2>1, <3>2 DEF FallBack
      <4>2. QED
        BY <2>1, <4>1, HitEnding
    <3>3. QED
      BY <3>1, <3>2
  <2>3. \/ UNCHANGED <<counter, members, lost>>
        \/ Slid(r) /\ UNCHANGED lost
        \/ Counted(r) /\ lost' = (lost \/ SetsExpiry(counter.n + 1))
    BY <1>7 DEF FailFirst, Slid, Counted
  <2>4. QED
    BY <2>1, <2>2, <2>3 DEF StepOf
<1>8. CASE FailSecond(r)
  <2>1. CASE hit[r].at = "takeback"
    <3>1. /\ RedisMayFail /\ hit' = [hit EXCEPT ![r].at = "over", ![r].end = now]
          /\ UNCHANGED <<algorithm, now, counter, members, memory, lost>>
      BY <1>8, <2>1 DEF FailSecond
    <3>2. QED
      BY <2>1, <3>1, HitEnding DEF StepOf
  <2>2. CASE hit[r].at = "expire"
    <3>1. RedisMayFail /\ lost' = TRUE /\ UNCHANGED <<algorithm, now, counter, members>>
      BY <1>8, <2>2 DEF FailSecond
    <3>2. /\ hit' \in [Hits -> Hit]
          /\ Remembers(r) \/ (HitEnds(hit, hit', r, now) /\ UNCHANGED memory)
      <4>1. CASE algorithm = "healing"
        <5>1. FallBack(r)
          BY <1>8, <2>2, <4>1 DEF FailSecond
        <5>2. QED
          BY <2>2, <4>1, <5>1, Remembering DEF Remembers
      <4>2. CASE algorithm # "healing"
        <5>1. hit' = [hit EXCEPT ![r].at = "over", ![r].end = now] /\ UNCHANGED memory
          BY <1>8, <2>2, <4>2 DEF FailSecond
        <5>2. QED
          BY <2>2, <5>1, HitEnding
      <4>3. QED
        BY <4>1, <4>2
    <3>3. QED
      BY <2>2, <3>1, <3>2 DEF StepOf
  <2>3. QED
    BY <1>8, <2>1, <2>2 DEF FailSecond
<1>9. QED
  BY <1>2, <1>3, <1>4, <1>5, <1>6, <1>7, <1>8

-----------------------------------------------------------------------------
(* Types and times *)

Passed     == {q \in Hits : hit[q].at \notin {"new", "read"}}
Remembered == {q \in Hits : hit[q].by = "memory"}

Tallied ==
    /\ counter.n <= Cardinality(Passed) /\ memory.n <= Cardinality(Remembered)
    /\ \A m \in members : hit[m].at \notin {"new", "read"}

RateTypes == RateTypeOK /\ Clocks /\ Tallied

LEMMA ClocksTick ==
    ASSUME RateTypes, Tick
    PROVE  Clocks'
<1>1. /\ hit \in [Hits -> Hit] /\ now \in Times /\ now' = now + 1 /\ hit' = hit
      /\ \A r \in Hits : InProgress(r) => now - hit[r].stamp < MaxDelay
  BY DEF RateTypes, RateTypeOK, Tick
<1>2. ASSUME NEW r \in Hits
      PROVE  Fits(hit[r], now + 1)
  <2>1. Fits(hit[r], now) /\ hit[r] \in Hit
    BY <1>1 DEF RateTypes, Clocks
  <2>2. InProgress(r) => now + 1 - hit[r].stamp <= MaxDelay
    BY <1>1, <2>1 DEF Hit, Times
  <2>3. QED
    BY <1>1, <2>1, <2>2 DEF Fits, InProgress, Hit, Times
<1>3. QED
  BY <1>1, <1>2 DEF Clocks

LEMMA ClocksStep ==
    ASSUME RateTypes, NEW r \in Hits, hit' \in [Hits -> Hit], StepOf(r)
    PROVE  Clocks'
<1>1. hit \in [Hits -> Hit] /\ now \in Times /\ now' = now /\ hit[r] \in Hit /\ hit'[r] \in Hit
  BY DEF RateTypes, RateTypeOK, StepOf
<1>2. \A q \in Hits : Fits(hit[q], now)
  BY DEF RateTypes, Clocks
<1>3. ASSUME SameButFor(hit, hit', r), Fits(hit'[r], now)
      PROVE  Clocks'
  BY <1>1, <1>2, <1>3 DEF Clocks, SameButFor
<1>4. CASE Comes(hit, hit', r, now)
  <2>1. Fits(hit'[r], now)
    BY <1>1, <1>2, <1>4, NatLimit DEF Comes, Fits, Hit, Times
  <2>2. QED
    BY <1>3, <1>4, <2>1 DEF Comes
<1>5. CASE HitEnds(hit, hit', r, now)
  <2>1. Fits(hit'[r], now)
    BY <1>1, <1>2, <1>5 DEF HitEnds, Fits, Hit, Times
  <2>2. QED
    BY <1>3, <1>5, <2>1 DEF HitEnds
<1>6. ASSUME NEW by \in {"redis", "memory"}, NEW n \in Nat, Counts(hit, hit', r, now, by, n),
             hit'[r].at = "expire" => by = "redis",
             hit'[r].at = "takeback" => by = "redis" /\ n > Limit
      PROVE  Clocks'
  <2>1. hit'[r].at = "takeback" => ~hit'[r].allowed
    <3>1. n > Limit => ~(n <= Limit)
      OBVIOUS
    <3>2. hit'[r].allowed = (n <= Limit)
      BY <1>6 DEF Counts
    <3>3. QED
      BY <3>1, <3>2, <1>6, Zenon
  <2>2. Fits(hit[r], now) /\ hit[r].at \in {"read", "expire"}
    BY <1>2, <1>6 DEF Counts
  <2>3. /\ hit'[r].at \in {"expire", "takeback", "over"}
        /\ hit'[r].by = by /\ hit'[r].counted = now
        /\ hit'[r].stamp = hit[r].stamp
        /\ hit'[r].end = IF hit'[r].at = "over" THEN now ELSE -1
    BY <1>6 DEF Counts
  <2>4. Fits(hit'[r], now)
    BY <1>1, <1>6, <2>1, <2>2, <2>3 DEF Fits, Hit, Times
  <2>5. QED
    BY <1>3, <1>6, <2>4 DEF Counts
<1>7. Remembers(r) => Clocks'
  BY <1>6 DEF Remembers
<1>8. /\ counter.n \in Nat /\ counter.n + 1 \in Nat
  BY HitsAreFinite DEF RateTypes, RateTypeOK
<1>9. Slid(r) => Cardinality(members') \in Nat
  <2>1. Slid(r) => members' \in SUBSET Hits
    BY DEF Slid, Kept, RateTypes, RateTypeOK
  <2>2. QED
    BY <2>1, HitsAreFinite
<1>10. ASSUME hit[r].at = "read", Counted(r),
              Counts(hit, hit', r, now, "redis", counter.n + 1),
              hit'[r].at = IF SetsExpiry(counter.n + 1) THEN "expire" ELSE "over"
       PROVE  Clocks'
  BY <1>6, <1>8, <1>10
<1>11. ASSUME hit[r].at = "read", Slid(r),
              Counts(hit, hit', r, now, "redis", Cardinality(members')),
              hit'[r].at = IF Cardinality(members') > Limit THEN "takeback" ELSE "over"
       PROVE  Clocks'
  <2>1. PICK n \in Nat : n = Cardinality(members')
    BY <1>9, <1>11
  <2>2. QED
    BY <1>6, <1>11, <2>1
<1>12. QED
  BY <1>4, <1>5, <1>7, <1>10, <1>11 DEF StepOf

LEMMA TypesInit ==
    ASSUME RateInit
    PROVE  RateTypes
<1>1. \A r \in Hits : hit[r] = NewHit
  BY DEF RateInit
<1>2. NewHit \in Hit
  BY DEF NewHit, Hit, Times
<1>3. RateTypeOK
  <2>1. /\ 0 \in 0..Cardinality(Hits) /\ 0 \in Times /\ Never \in Expiry
    BY HitsAreFinite DEF Times, Expiry
  <2>2. hit \in [Hits -> Hit]
    BY <1>2 DEF RateInit
  <2>3. \A r \in Hits : hit[r].at # "takeback"
    BY <1>1 DEF NewHit
  <2>4. /\ counter \in [n : 0..Cardinality(Hits), expires : Expiry]
        /\ memory \in [n : 0..Cardinality(Hits), start : Times]
    BY <2>1 DEF RateInit
  <2>5. QED
    BY <2>1, <2>2, <2>3, <2>4 DEF RateInit, RateTypeOK
<1>4. Clocks
  BY <1>1 DEF Clocks, Fits, NewHit, RateInit
<1>5. Passed \in SUBSET Hits /\ Remembered \in SUBSET Hits
  BY DEF Passed, Remembered
<1>6. Cardinality(Passed) \in Nat /\ Cardinality(Remembered) \in Nat
  BY <1>5, HitsAreFinite
<1>7. Tallied
  BY <1>6 DEF Tallied, RateInit
<1>8. QED
  BY <1>3, <1>4, <1>7 DEF RateTypes

LEMMA TalliedStep ==
    ASSUME RateTypes, NEW r \in Hits, hit' \in [Hits -> Hit], StepOf(r)
    PROVE  Tallied'
<1>1. hit \in [Hits -> Hit] /\ SameButFor(hit, hit', r)
  BY DEF RateTypes, RateTypeOK, StepOf, Comes, Counts, HitEnds, Remembers
<1>2. PICK S \in SUBSET Hits, T \in SUBSET Hits : S = Passed /\ T = Passed'
  BY DEF Passed
<1>3. PICK M \in SUBSET Hits, N \in SUBSET Hits : M = Remembered /\ N = Remembered'
  BY DEF Remembered
<1>4. S \in SUBSET T
  BY <1>1, <1>2 DEF Passed, StepOf, SameButFor, Comes, Counts, HitEnds, Remembers
<1>5. hit[r].at = "read" /\ hit'[r].at \notin {"new", "read"} => T = S \cup {r} /\ r \notin S
  BY <1>1, <1>2 DEF Passed, SameButFor
<1>6. Cardinality(S) <= Cardinality(T) /\ Cardinality(S) \in Nat /\ Cardinality(T) \in Nat
  BY <1>4, FewerHits, HitsAreFinite
<1>7. hit[r].at = "read" /\ hit'[r].at \notin {"new", "read"} => Cardinality(T) = Cardinality(S) + 1
  BY <1>5, HitsAreFinite, FS_AddElement
<1>8. \/ M \in SUBSET N /\ memory' = memory
      \/ N = M \cup {r} /\ r \notin M /\ memory'.n \in Nat /\ memory'.n <= memory.n + 1
  <2>1. CASE Remembers(r)
    <3>1. hit[r].by # "memory" /\ hit'[r].by = "memory"
      BY <2>1 DEF RateTypes, Clocks, Fits, Remembers, Counts
    <3>2. N = M \cup {r} /\ r \notin M
      BY <1>1, <1>3, <3>1 DEF Remembered, SameButFor
    <3>3. memory'.n \in Nat /\ memory'.n <= memory.n + 1
      BY <2>1, HitsAreFinite DEF Remembers, MemoryWindow, RateTypes, RateTypeOK
    <3>4. QED
      BY <3>2, <3>3
  <2>2. CASE ~Remembers(r)
    <3>1. hit[r].by = "memory" => hit'[r].by = "memory"
      BY <2>2 DEF StepOf, Comes, Counts, HitEnds, RateTypes, Clocks, Fits
    <3>2. M \in SUBSET N /\ memory' = memory
      BY <2>2, <3>1, <1>1, <1>3 DEF Remembered, SameButFor, StepOf
    <3>3. QED
      BY <3>2
  <2>3. QED
    BY <2>1, <2>2
<1>9. Cardinality(M) \in Nat /\ Cardinality(N) \in Nat
  BY HitsAreFinite
<1>10. memory.n \in Nat /\ memory.n <= Cardinality(M) /\ counter.n \in Nat /\ counter.n <= Cardinality(S)
  BY <1>2, <1>3, HitsAreFinite DEF RateTypes, RateTypeOK, Tallied
<1>11. memory'.n <= Cardinality(N)
  BY <1>8, <1>9, <1>10, FewerHits, HitsAreFinite, FS_AddElement
<1>12. counter'.n <= Cardinality(T)
  <2>1. CASE Counted(r) /\ hit[r].at = "read"
    <3>1. counter'.n = counter.n + 1
      BY <2>1 DEF Counted, RateTypes, RateTypeOK
    <3>2. hit'[r].at \notin {"new", "read"}
      BY <2>1 DEF StepOf, Comes, Counts, HitEnds, Remembers
    <3>3. QED
      BY <1>7, <1>10, <1>6, <2>1, <3>1, <3>2
  <2>2. CASE counter'.n = counter.n
    BY <1>6, <1>10, <2>2
  <2>3. counter'.n = counter.n \/ (Counted(r) /\ hit[r].at = "read")
    BY DEF StepOf, Slid, RateTypes, RateTypeOK
  <2>4. QED
    BY <2>1, <2>2, <2>3
<1>13. \A m \in members' : hit'[m].at \notin {"new", "read"}
  <2>1. \A m \in members : m \in T
    BY <1>2, <1>4 DEF RateTypes, RateTypeOK, Tallied, Passed
  <2>2. \/ members' \subseteq members
        \/ members' = Kept(r) \cup {r} /\ hit'[r].at \notin {"new", "read"}
    BY DEF StepOf, Slid, Counted, Counts, HitEnds, Remembers
  <2>3. \A m \in members' : m \in T
    BY <1>2, <2>1, <2>2 DEF Kept, Passed
  <2>4. QED
    BY <2>3, <1>2 DEF Passed
<1>14. QED
  BY <1>2, <1>3, <1>11, <1>12, <1>13 DEF Tallied

LEMMA TypesStep ==
    ASSUME RateTypes, NEW r \in Hits, hit' \in [Hits -> Hit], StepOf(r)
    PROVE  RateTypes'
<1>1. Clocks' /\ Tallied'
  BY ClocksStep, TalliedStep
<1>2. /\ hit \in [Hits -> Hit] /\ now \in Times /\ members \in SUBSET Hits
      /\ counter \in [n : 0..Cardinality(Hits), expires : Expiry] /\ counter.n \in Nat
      /\ memory \in [n : 0..Cardinality(Hits), start : Times]
      /\ counter.n = 0 => counter.expires = Never
      /\ \A q \in Hits : hit[q].at = "takeback" => q \in members
  BY HitsAreFinite DEF RateTypes, RateTypeOK
<1>3. PICK c, d : c = counter' /\ d = memory'
  OBVIOUS
<1>4. c.n \in Nat => c.n \in 0..Cardinality(Hits)
  <2>1. PICK T \in SUBSET Hits : T = Passed'
    BY DEF Passed
  <2>2. c.n <= Cardinality(T)
    BY <1>1, <1>3, <2>1 DEF Tallied
  <2>3. QED
    BY <2>2, HitsAreFinite
<1>5. d.n \in Nat => d.n \in 0..Cardinality(Hits)
  <2>1. PICK T \in SUBSET Hits : T = Remembered'
    BY DEF Remembered
  <2>2. d.n <= Cardinality(T)
    BY <1>1, <1>3, <2>1 DEF Tallied
  <2>3. QED
    BY <2>2, HitsAreFinite
<1>6. now + Window \in Expiry /\ Expiry \in SUBSET Nat
  BY <1>2, NatLimit DEF Expiry, Times, Never
<1>7. \/ c = counter
      \/ c = [counter EXCEPT !.n = counter.n + 1]
      \/ c = [counter EXCEPT !.expires = now + Window] /\ counter.n > 0
  BY <1>2, <1>3 DEF StepOf, Counted, Slid
<1>8. c \in [n : 0..Cardinality(Hits), expires : Expiry] /\ (c.n = 0 => c.expires = Never)
  BY <1>2, <1>4, <1>6, <1>7
<1>9. d = memory \/ d = MemoryWindow
  BY <1>3 DEF StepOf, Remembers
<1>10. d \in [n : 0..Cardinality(Hits), start : Times]
  BY <1>2, <1>5, <1>9, HitsAreFinite DEF MemoryWindow
<1>11. members' \in SUBSET Hits
  BY <1>2 DEF StepOf, Slid, Counted, Kept
<1>12. /\ now' = now /\ algorithm' = algorithm
       /\ lost' \in BOOLEAN
  BY DEF StepOf, RateTypes, RateTypeOK, SetsExpiry
<1>13. ASSUME NEW q \in Hits, hit'[q].at = "takeback"
       PROVE  q \in members'
  <2>1. CASE q = r
    BY <1>13, <2>1 DEF StepOf, Slid, Comes, Counts, HitEnds, Remembers
  <2>2. CASE q # r
    <3>1. hit[q].at = "takeback"
      BY <1>13, <2>2 DEF StepOf, SameButFor, Comes, Counts, HitEnds, Remembers
    <3>2. q \in members
      BY <1>2, <3>1
    <3>3. now - hit[q].stamp <= MaxDelay /\ hit[r].stamp <= now
      BY <3>1 DEF RateTypes, Clocks, Fits
    <3>4. hit[q].stamp \in Nat /\ hit[r].stamp \in Nat /\ now \in Nat
      BY <1>2 DEF Hit, Times
    <3>5. hit[q].stamp > hit[r].stamp - Window
      BY <3>3, <3>4, NatLimit
    <3>6. q \in Kept(r)
      BY <3>2, <3>5 DEF Kept
    <3>7. QED
      BY <2>2, <3>2, <3>6 DEF StepOf, Slid, Counted
  <2>3. QED
    BY <2>1, <2>2
<1>14. RateTypeOK'
  BY <1>2, <1>3, <1>8, <1>10, <1>11, <1>12, <1>13 DEF RateTypeOK, RateTypes
<1>15. QED
  BY <1>1, <1>14 DEF RateTypes

LEMMA TypesTick ==
    ASSUME RateTypes, Tick
    PROVE  RateTypes'
<1>1. Clocks'
  BY ClocksTick
<1>2. /\ now' = now + 1 /\ now < MaxTime /\ UNCHANGED <<algorithm, members, memory, hit, lost>>
      /\ counter' = IF counter.expires = now + 1 THEN [n |-> 0, expires |-> Never] ELSE counter
  BY DEF Tick
<1>3. RateTypeOK /\ counter.n \in Nat
  BY HitsAreFinite DEF RateTypes, RateTypeOK
<1>4. 0 \in 0..Cardinality(Hits) /\ Never \in Expiry /\ Passed \in SUBSET Hits
  BY HitsAreFinite DEF Expiry, Passed
<1>5. now' \in Times
  BY <1>2, <1>3 DEF RateTypeOK, Times
<1>6. counter' \in [n : 0..Cardinality(Hits), expires : Expiry] /\ (counter'.n = 0 => counter'.expires = Never)
  BY <1>2, <1>3, <1>4 DEF RateTypeOK
<1>7. RateTypeOK'
  BY <1>2, <1>3, <1>5, <1>6 DEF RateTypeOK
<1>8. counter'.n <= Cardinality(Passed)
  BY <1>2, <1>3, <1>4, HitsAreFinite DEF RateTypes, Tallied
<1>9. Tallied'
  BY <1>2, <1>8 DEF Tallied, Passed, Remembered, RateTypes
<1>10. QED
  BY <1>1, <1>7, <1>9 DEF RateTypes

\* Types are kept, and every step of a request is one of those above.
LEMMA TypesNext ==
    ASSUME RateTypes, [RateNext]_rateVars
    PROVE  /\ RateTypes'
           /\ \/ Tick
              \/ \E r \in Hits : hit' \in [Hits -> Hit] /\ StepOf(r)
              \/ UNCHANGED rateVars
<1>1. CASE Tick
  BY <1>1, TypesTick
<1>2. CASE UNCHANGED rateVars
  BY <1>2 DEF rateVars, RateTypes, RateTypeOK, Clocks, Tallied, Passed, Remembered
<1>3. ASSUME NEW r \in Hits,
             \/ CallComes(r) \/ CountHit(r) \/ SetExpiry(r) \/ SlideHit(r) \/ TakeBack(r)
             \/ FailFirst(r) \/ FailSecond(r)
      PROVE  RateTypes' /\ hit' \in [Hits -> Hit] /\ StepOf(r)
  <2>1. hit' \in [Hits -> Hit] /\ StepOf(r)
    BY <1>3, StepsAreSo DEF RateTypes
  <2>2. QED
    BY <2>1, TypesStep
<1>4. QED
  BY <1>1, <1>2, <1>3 DEF RateNext

-----------------------------------------------------------------------------
(* Fixed windows: no more than the limit since the window began, nor in the one before *)

Fixed ==
    algorithm # "sliding" =>
       /\ \E e \in 0..now : /\ TwoWindows(hit, "redis", e, counter.n)
                            /\ counter.expires # Never => counter.expires >= e + Window
       /\ counter.expires # Never => counter.expires > now
       /\ TwoWindows(hit, "memory", memory.start, memory.n)
       /\ memory.start <= now
       /\ \A q \in Hits : hit[q].by = "memory" => hit[q].counted < memory.start + Window
       /\ NoneTwice(hit, "redis") /\ NoneTwice(hit, "memory")

LEMMA FixedInit ==
    ASSUME RateInit
    PROVE  Fixed
<1>1. \A by \in {"redis", "memory"} : LetIn(hit, by) = {}
  BY DEF RateInit, LetIn, NewHit
<1>2. \A by \in {"redis", "memory"} : \A e \in Nat : Since(hit, by, e) = {} /\ CountedBefore(hit, by, e) = {}
  BY <1>1 DEF Since, CountedBefore
<1>3. \A by \in {"redis", "memory"} : \A from \in Times : Within(hit, by, from, Window) = {}
  BY <1>1 DEF Within
<1>4. Cardinality({}) = 0
  BY FS_EmptySet
<1>5. \A by \in {"redis", "memory"} : TwoWindows(hit, by, 0, 0) /\ NoneTwice(hit, by)
  <2>1. 0 <= Limit /\ 0 <= 2 * Limit
    BY NatLimit
  <2>2. \A by \in {"redis", "memory"} : TwoWindows(hit, by, 0, 0)
    BY <1>2, <1>4, <2>1 DEF TwoWindows
  <2>3. \A by \in {"redis", "memory"} : NoneTwice(hit, by)
    BY <1>3, <1>4, <2>1 DEF NoneTwice
  <2>4. QED
    BY <2>2, <2>3
<1>6. QED
  BY <1>5 DEF Fixed, RateInit, NewHit

LEMMA FixedTick ==
    ASSUME RateTypes, Fixed, Tick
    PROVE  Fixed'
<1>1. /\ now' = now + 1 /\ now \in Nat /\ UNCHANGED <<algorithm, members, memory, hit, lost>>
      /\ counter' = IF counter.expires = now + 1 THEN [n |-> 0, expires |-> Never] ELSE counter
      /\ hit \in [Hits -> Hit] /\ counter.n \in Nat /\ counter.expires \in Nat /\ memory.start \in Nat
  BY HitsAreFinite DEF Tick, RateTypes, RateTypeOK, Times, Expiry, Never
<1>2. SUFFICES ASSUME algorithm # "sliding"
               PROVE  Fixed'
  BY <1>1 DEF Fixed
<1>3. PICK e \in 0..now : /\ TwoWindows(hit, "redis", e, counter.n)
                          /\ counter.expires # Never => counter.expires >= e + Window
  BY <1>2 DEF Fixed
<1>4. NoneTwice(hit, "redis") /\ (counter.expires # Never => counter.expires > now)
  BY <1>2 DEF Fixed
<1>5. \A q \in LetIn(hit, "redis") : hit[q].counted < now + 1
  <2>1. \A q \in Hits : hit[q].by = "redis" => hit[q].counted <= now /\ hit[q].counted \in Int
    BY <1>1 DEF RateTypes, Clocks, Fits, Hit, Times
  <2>2. QED
    BY <1>1, <2>1 DEF LetIn
<1>6. \E d \in 0..now + 1 : /\ TwoWindows(hit, "redis", d, counter'.n)
                            /\ counter'.expires # Never => counter'.expires >= d + Window
  <2>1. CASE counter.expires = now + 1
    <3>1. counter.expires # Never
      BY <2>1 DEF Never, RateTypes, RateTypeOK, Times
    <3>2. now + 1 >= e + Window
      BY <1>3, <2>1, <3>1
    <3>3. TwoWindows(hit, "redis", now + 1, 0)
      BY <1>1, <1>3, <1>4, <1>5, <3>2, WindowsMove
    <3>4. counter'.n = 0 /\ counter'.expires = Never
      BY <1>1, <2>1
    <3>5. QED
      BY <1>1, <3>3, <3>4
  <2>2. CASE counter.expires # now + 1
    BY <1>1, <1>3, <2>2
  <2>3. QED
    BY <2>1, <2>2
<1>7. counter'.expires # Never => counter'.expires > now + 1
  BY <1>1, <1>4
<1>8. memory.start <= now + 1
  BY <1>1, <1>2 DEF Fixed
<1>9. QED
  BY <1>1, <1>2, <1>6, <1>7, <1>8 DEF Fixed

\* Where a step counts nobody by such a count, its windows stay as they were.
LEMMA OthersKept ==
    ASSUME RateTypes, NEW r \in Hits, hit' \in [Hits -> Hit], StepOf(r), NEW by \in {"redis", "memory"},
           NEW e \in Nat, NEW m \in Nat, NEW n \in Nat, m <= n,
           TwoWindows(hit, by, e, m), NoneTwice(hit, by),
           hit'[r].by # by \/ \E t \in Times : HitEnds(hit, hit', r, t)
    PROVE  TwoWindows(hit', by, e, n) /\ NoneTwice(hit', by)
<1>1. PICK K \in [Hits -> Hit] : K = hit'
  OBVIOUS
<1>2. hit \in [Hits -> Hit] /\ \A q \in Hits \ {r} : K[q] = hit[q]
  BY <1>1 DEF RateTypes, RateTypeOK, StepOf, SameButFor, Comes, Counts, HitEnds, Remembers
<1>3. r \in LetIn(K, by) => r \in LetIn(hit, by) /\ K[r].counted = hit[r].counted
  BY <1>1 DEF LetIn, HitEnds
<1>4. \A q \in LetIn(K, by) : q \in LetIn(hit, by) /\ K[q].counted = hit[q].counted
  BY <1>2, <1>3 DEF LetIn
<1>5. TwoWindows(K, by, e, n) /\ NoneTwice(K, by)
  BY <1>2, <1>4, WindowsKept
<1>6. QED
  BY <1>1, <1>5

LEMMA FixedStep ==
    ASSUME RateTypes, Fixed, NEW r \in Hits, hit' \in [Hits -> Hit], StepOf(r)
    PROVE  Fixed'
<1>1. /\ now' = now /\ now \in Times /\ algorithm' = algorithm /\ hit \in [Hits -> Hit]
      /\ counter.n \in Nat /\ counter.expires \in Nat
      /\ memory.n \in Nat /\ memory.start \in Nat
      /\ \A q \in Hits : Fits(hit[q], now)
  BY HitsAreFinite DEF StepOf, RateTypes, RateTypeOK, Clocks, Times, Expiry, Never
<1>2. SUFFICES ASSUME algorithm # "sliding"
               PROVE  Fixed'
  BY <1>1 DEF Fixed
<1>3. PICK e \in 0..now : /\ TwoWindows(hit, "redis", e, counter.n)
                          /\ counter.expires # Never => counter.expires >= e + Window
  BY <1>2 DEF Fixed
<1>4. /\ counter.expires # Never => counter.expires > now
      /\ TwoWindows(hit, "memory", memory.start, memory.n)
      /\ memory.start <= now
      /\ \A q \in Hits : hit[q].by = "memory" => hit[q].counted < memory.start + Window
      /\ NoneTwice(hit, "redis") /\ NoneTwice(hit, "memory")
  BY <1>2 DEF Fixed
<1>5. e \in Nat /\ e <= now /\ now \in Nat
  BY <1>1 DEF Times
<1>6. PICK c, d, K : c = counter' /\ d = memory' /\ K = hit' /\ K \in [Hits -> Hit]
  OBVIOUS
<1>7. /\ c.n \in Nat /\ counter.n <= c.n
      /\ c.expires = counter.expires \/ c.expires = now + Window
  BY <1>1, <1>6 DEF StepOf, Counted, Slid, RateTypes, RateTypeOK
<1>8. /\ c.expires # Never => c.expires >= e + Window
      /\ c.expires # Never => c.expires > now
  BY <1>3, <1>4, <1>5, <1>7, NatLimit
<1>9. TwoWindows(K, "redis", e, c.n) /\ NoneTwice(K, "redis")
  <2>1. CASE hit'[r].by # "redis" \/ HitEnds(hit, hit', r, now)
    BY <2>1, <1>1, <1>3, <1>4, <1>5, <1>6, <1>7, OthersKept
  <2>2. CASE ~(hit'[r].by # "redis" \/ HitEnds(hit, hit', r, now))
    <3>1. hit[r].at = "read" /\ Counted(r) /\ Counts(hit, K, r, now, "redis", counter.n + 1)
      BY <2>2, <1>1, <1>2, <1>6 DEF StepOf, Slid, Comes, Fits, Remembers, Counts
    <3>2. c.n = counter.n + 1
      BY <3>1, <1>6 DEF Counted, RateTypes, RateTypeOK
    <3>3. TwoWindows(K, "redis", e, counter.n + 1) /\ NoneTwice(K, "redis")
      BY <3>1, <1>1, <1>3, <1>4, <1>5, <1>6, WindowsCount
    <3>4. QED
      BY <3>2, <3>3
  <2>3. QED
    BY <2>1, <2>2
<1>10. /\ TwoWindows(K, "memory", d.start, d.n) /\ NoneTwice(K, "memory") /\ d.start <= now
       /\ \A q \in Hits : K[q].by = "memory" => K[q].counted < d.start + Window
  <2>1. CASE Remembers(r)
    <3>1. PICK n \in Nat : n = d.n /\ Counts(hit, K, r, now, "memory", n)
      BY <1>6, <2>1 DEF Remembers
    <3>2. /\ d = IF now - memory.start >= Window THEN [n |-> 1, start |-> now] ELSE [memory EXCEPT !.n = memory.n + 1]
          /\ \A q \in Hits \ {r} : K[q] = hit[q]
          /\ K[r].counted = now
      BY <1>6, <2>1, <3>1 DEF Remembers, MemoryWindow, Counts, SameButFor
    <3>3. CASE now - memory.start >= Window
      <4>1. \A q \in Hits : hit[q].counted \in Int
        BY <1>1 DEF Hit, Times
      <4>2. \A q \in LetIn(hit, "memory") : hit[q].counted < now
        BY <1>1, <1>4, <1>5, <3>3, <4>1, NatLimit DEF LetIn
      <4>3. TwoWindows(hit, "memory", now, 0)
        BY <1>1, <1>4, <1>5, <3>3, <4>2, NatLimit, WindowsMove
      <4>4. PICK z \in Nat : z = 0 /\ d.n = z + 1 /\ d.start = now
        BY <3>2, <3>3
      <4>5. Counts(hit, K, r, now, "memory", z + 1)
        BY <3>1, <4>4
      <4>6. TwoWindows(K, "memory", now, z + 1) /\ NoneTwice(K, "memory")
        BY <4>3, <4>4, <4>5, <1>1, <1>4, <1>5, <1>6, WindowsCount
      <4>7. \A q \in Hits : K[q].by = "memory" => K[q].counted < now + Window
        BY <1>1, <1>4, <1>5, <3>2, <4>1, NatLimit
      <4>8. QED
        BY <4>4, <4>6, <4>7, <1>5
    <3>4. CASE ~(now - memory.start >= Window)
      <4>1. d.n = memory.n + 1 /\ d.start = memory.start
        BY <3>2, <3>4 DEF RateTypes, RateTypeOK
      <4>2. Counts(hit, K, r, now, "memory", memory.n + 1)
        BY <3>1, <4>1
      <4>3. TwoWindows(K, "memory", memory.start, memory.n + 1) /\ NoneTwice(K, "memory")
        BY <4>2, <1>1, <1>4, <1>5, <1>6, WindowsCount
      <4>4. now < memory.start + Window
        BY <1>1, <1>5, <3>4, NatLimit
      <4>5. \A q \in Hits : K[q].by = "memory" => K[q].counted < memory.start + Window
        BY <1>4, <3>2, <4>4
      <4>6. QED
        BY <4>1, <4>3, <4>5, <1>4
    <3>5. QED
      BY <3>3, <3>4
  <2>2. CASE ~Remembers(r)
    <3>1. d = memory
      BY <1>6, <2>2 DEF StepOf
    <3>2. \/ hit'[r].by # "memory"
          \/ HitEnds(hit, hit', r, now)
      BY <2>2, <1>1 DEF StepOf, Counts, Comes, Fits
    <3>3. TwoWindows(K, "memory", memory.start, memory.n) /\ NoneTwice(K, "memory")
      BY <3>2, <1>1, <1>4, <1>6, OthersKept
    <3>4. \A q \in Hits \ {r} : K[q] = hit[q]
      BY <1>6 DEF StepOf, SameButFor, Comes, Counts, HitEnds, Remembers
    <3>5. K[r].by = "memory" => K[r].counted < memory.start + Window
      BY <1>4, <1>6, <3>2 DEF HitEnds
    <3>6. QED
      BY <1>4, <3>1, <3>3, <3>4, <3>5
  <2>3. QED
    BY <2>1, <2>2
<1>11. QED
  BY <1>1, <1>6, <1>8, <1>9, <1>10 DEF Fixed

-----------------------------------------------------------------------------
(* The sliding window: the set holds whatever may still count *)

Sliding ==
    algorithm = "sliding" =>
       /\ \A q \in LetIn(hit, "redis") : hit[q].counted > now - (Window - MaxDelay) => q \in members
       /\ \A from \in Times : Cardinality(Within(hit, "redis", from, Window - MaxDelay)) <= Limit

LEMMA SlidingInit ==
    ASSUME RateInit
    PROVE  Sliding
<1>1. LetIn(hit, "redis") = {}
  BY DEF RateInit, LetIn, NewHit
<1>2. \A from \in Times : Within(hit, "redis", from, Window - MaxDelay) = {}
  BY <1>1 DEF Within
<1>3. Cardinality({}) <= Limit
  BY FS_EmptySet, NatLimit
<1>4. QED
  BY <1>1, <1>2, <1>3 DEF Sliding

LEMMA SlidingTick ==
    ASSUME RateTypes, Sliding, Tick
    PROVE  Sliding'
<1>1. /\ now' = now + 1 /\ now \in Nat /\ UNCHANGED <<algorithm, members, hit>> /\ hit \in [Hits -> Hit]
  BY DEF Tick, RateTypes, RateTypeOK, Times
<1>2. \A q \in Hits : hit[q].counted \in Int
  BY <1>1 DEF Hit, Times
<1>3. \A q \in LetIn(hit, "redis") :
         hit[q].counted > now + 1 - (Window - MaxDelay) => hit[q].counted > now - (Window - MaxDelay)
  BY <1>1, <1>2, NatLimit DEF LetIn
<1>4. QED
  BY <1>1, <1>3 DEF Sliding

LEMMA SlidingStep ==
    ASSUME RateTypes, Sliding, NEW r \in Hits, hit' \in [Hits -> Hit], StepOf(r)
    PROVE  Sliding'
<1>1. /\ now' = now /\ now \in Nat /\ now \in Times /\ algorithm' = algorithm /\ hit \in [Hits -> Hit]
      /\ members \in SUBSET Hits
      /\ \A q \in Hits : Fits(hit[q], now)
  BY DEF StepOf, RateTypes, RateTypeOK, Clocks, Times
<1>2. SUFFICES ASSUME algorithm = "sliding"
               PROVE  Sliding'
  BY <1>1 DEF Sliding
<1>3. PICK K, M : K = hit' /\ M = members' /\ K \in [Hits -> Hit]
  OBVIOUS
<1>4. /\ \A q \in Hits \ {r} : K[q] = hit[q]
      /\ \A q \in Hits : hit[q].counted \in Int /\ hit[q].stamp \in Nat
  BY <1>1, <1>3 DEF StepOf, SameButFor, Comes, Counts, HitEnds, Remembers, Hit, Times
<1>5. \A q \in LetIn(hit, "redis") :
         hit[q].counted > now - (Window - MaxDelay) => q \in members /\ q \in Kept(r)
  <2>1. SUFFICES ASSUME NEW q \in LetIn(hit, "redis"), hit[q].counted > now - (Window - MaxDelay)
                 PROVE  q \in members /\ q \in Kept(r)
    OBVIOUS
  <2>2. q \in members /\ q \in Hits /\ hit[q].counted # -1
    BY <1>2, <2>1, <1>1 DEF Sliding, LetIn, Fits
  <2>3. hit[q].counted <= hit[q].stamp + MaxDelay /\ hit[r].stamp <= now
    BY <2>2, <1>1 DEF Fits
  <2>4. hit[q].stamp > hit[r].stamp - Window
    BY <1>1, <1>4, <2>1, <2>2, <2>3, NatLimit
  <2>5. QED
    BY <2>2, <2>4 DEF Kept
<1>6. CASE Slid(r) /\ Counts(hit, hit', r, now, "redis", Cardinality(members'))
  <2>1. M = Kept(r) \cup {r} /\ M \in SUBSET Hits
    BY <1>1, <1>3, <1>6 DEF Slid, Kept
  <2>2. \A q \in LetIn(K, "redis") : K[q].counted > now - (Window - MaxDelay) => q \in M
    BY <1>4, <1>5, <2>1 DEF LetIn
  <2>3. ASSUME NEW from \in Times
        PROVE  Cardinality(Within(K, "redis", from, Window - MaxDelay)) <= Limit
    <3>1. CASE r \in Within(K, "redis", from, Window - MaxDelay)
      <4>1. K[r].counted = now /\ K[r].allowed = (Cardinality(M) <= Limit)
        BY <1>3, <1>6 DEF Counts
      <4>2. Cardinality(M) <= Limit
        BY <3>1, <4>1 DEF Within, LetIn
      <4>3. now < from + (Window - MaxDelay)
        BY <3>1, <4>1 DEF Within
      <4>4. \A q \in LetIn(K, "redis") : K[q].counted \in Int
        BY <1>3 DEF LetIn, Hit, Times
      <4>5. \A q \in Within(K, "redis", from, Window - MaxDelay) : K[q].counted > now - (Window - MaxDelay)
        BY <1>1, <4>3, <4>4, NatLimit DEF Within, Times
      <4>6. Within(K, "redis", from, Window - MaxDelay) \in SUBSET M
        BY <2>2, <4>5 DEF Within
      <4>7. Cardinality(Within(K, "redis", from, Window - MaxDelay)) <= Cardinality(M)
        BY <2>1, <4>6, FewerHits
      <4>8. /\ Cardinality(M) \in Nat
            /\ Cardinality(Within(K, "redis", from, Window - MaxDelay)) \in Nat
        BY <2>1, PartsOfHits, HitsAreFinite
      <4>9. QED
        BY <4>2, <4>7, <4>8, NatLimit
    <3>2. CASE r \notin Within(K, "redis", from, Window - MaxDelay)
      <4>1. Within(K, "redis", from, Window - MaxDelay) \in SUBSET Within(hit, "redis", from, Window - MaxDelay)
        BY <1>4, <3>2 DEF Within, LetIn
      <4>2. /\ Cardinality(Within(K, "redis", from, Window - MaxDelay))
                <= Cardinality(Within(hit, "redis", from, Window - MaxDelay))
            /\ Cardinality(Within(K, "redis", from, Window - MaxDelay)) \in Nat
            /\ Cardinality(Within(hit, "redis", from, Window - MaxDelay)) \in Nat
        BY <4>1, PartsOfHits, FewerHits, HitsAreFinite
      <4>3. QED
        BY <1>2, <4>2, NatLimit DEF Sliding
    <3>3. QED
      BY <3>1, <3>2
  <2>4. QED
    BY <1>1, <1>3, <2>2, <2>3 DEF Sliding
<1>7. CASE ~(Slid(r) /\ Counts(hit, hit', r, now, "redis", Cardinality(members')))
  <2>1. /\ M = members \/ M = Kept(r) \cup {r} \/ (M = members \ {r} /\ hit[r].at = "takeback")
        /\ \/ K[r].by = hit[r].by /\ K[r].counted = hit[r].counted
              /\ (K[r].allowed = hit[r].allowed \/ hit[r].by = "none")
           \/ K[r].by # "redis"
    BY <1>1, <1>2, <1>3, <1>7 DEF StepOf, Slid, Counted, Comes, Counts, HitEnds, Fits, Remembers
  <2>2. LetIn(K, "redis") \in SUBSET LetIn(hit, "redis")
    BY <1>4, <2>1 DEF LetIn
  <2>3. \A q \in LetIn(K, "redis") : K[q].counted = hit[q].counted
    BY <1>4, <2>1 DEF LetIn
  <2>4. hit[r].at = "takeback" => r \notin LetIn(hit, "redis")
    BY <1>1 DEF Fits, LetIn
  <2>5. \A q \in LetIn(K, "redis") : K[q].counted > now - (Window - MaxDelay) => q \in M
    BY <1>5, <2>1, <2>2, <2>3, <2>4
  <2>6. ASSUME NEW from \in Times
        PROVE  Cardinality(Within(K, "redis", from, Window - MaxDelay)) <= Limit
    <3>1. Within(K, "redis", from, Window - MaxDelay) \in SUBSET Within(hit, "redis", from, Window - MaxDelay)
      BY <2>2, <2>3 DEF Within
    <3>2. /\ Cardinality(Within(K, "redis", from, Window - MaxDelay))
              <= Cardinality(Within(hit, "redis", from, Window - MaxDelay))
          /\ Cardinality(Within(K, "redis", from, Window - MaxDelay)) \in Nat
          /\ Cardinality(Within(hit, "redis", from, Window - MaxDelay)) \in Nat
      BY <3>1, PartsOfHits, FewerHits, HitsAreFinite
    <3>3. QED
      BY <1>2, <3>2, NatLimit DEF Sliding
  <2>7. QED
    BY <1>1, <1>3, <2>5, <2>6 DEF Sliding
<1>8. QED
  BY <1>6, <1>7

-----------------------------------------------------------------------------
(* Nobody is refused while fewer than the limit use it *)

\* A hit of H that a counter has counted against the limit.
Stands(H, o) ==
    /\ H[o].at \notin {"new", "read"}
    /\ H[o].allowed \/ (RedisMayFail /\ H[o].by = "memory")

\* The hits of T are done with no earlier than the window began, but for MaxDelay, and
\* than anyone came who is still about to set the expiry.
Timely(H, expires, T) ==
    \A o \in T : H[o].end # -1 =>
       /\ expires # Never => H[o].end >= expires - Window - MaxDelay
       /\ \A x \in Hits : H[x].at = "expire" => H[o].end >= H[x].stamp

\* The set of a counter: as many as it counts, or as many as the limit.
Enough(T, n) == Cardinality(T) >= n \/ Cardinality(T) >= Limit

ByCounter ==
    algorithm # "sliding" =>
       /\ counter.expires # Never => counter.expires <= now + Window
       /\ \E T \in SUBSET Hits :
             /\ Enough(T, counter.n) /\ (counter.n = 0 => T = {})
             /\ \A o \in T : Stands(hit, o)
             /\ ~lost => /\ Timely(hit, counter.expires, T)
                         /\ counter.n > 0 /\ counter.expires = Never =>
                               \E x \in Hits : hit[x].at = "expire"
                         /\ algorithm = "healing" /\ counter.expires = Never =>
                               \A o \in T : hit[o].at = "expire"

ByMemory ==
    \E T \in SUBSET Hits :
       /\ Enough(T, memory.n)
       /\ \A o \in T : /\ hit[o].at = "over" /\ hit[o].by = "memory" /\ hit[o].allowed
                       /\ hit[o].end >= memory.start

BySet == \A o \in members : hit[o].allowed \/ hit[o].at = "takeback" \/ RedisMayFail

Used == ByCounter /\ ByMemory /\ BySet

LEMMA NoneNeeded == Enough({}, 0)
BY FS_EmptySet DEF Enough

\* One more is counted.
LEMMA OneMoreNeeded ==
    ASSUME NEW T \in SUBSET Hits, NEW n \in Nat, Enough(T, n), NEW r \in Hits \ T
    PROVE  Enough(T \cup {r}, n + 1) /\ (n + 1 > Limit => Enough(T, n + 1))
<1>1. Cardinality(T) \in Nat /\ Cardinality(T \cup {r}) = Cardinality(T) + 1
  BY HitsAreFinite, FS_AddElement
<1>2. QED
  BY <1>1, NatLimit DEF Enough

LEMMA UsedInit ==
    ASSUME RateInit
    PROVE  Used
<1>1. \A o \in {} : Stands(hit, o)
  OBVIOUS
<1>2. Timely(hit, counter.expires, {})
  BY DEF Timely
<1>3. ByCounter
  BY <1>2, NoneNeeded DEF RateInit, ByCounter
<1>4. ByMemory /\ BySet
  BY NoneNeeded DEF RateInit, ByMemory, BySet
<1>5. QED
  BY <1>3, <1>4 DEF Used

LEMMA UsedTick ==
    ASSUME RateTypes, Used, Tick
    PROVE  Used'
<1>1. /\ now' = now + 1 /\ now \in Nat /\ UNCHANGED <<algorithm, members, memory, hit, lost>>
      /\ counter' = IF counter.expires = now + 1 THEN [n |-> 0, expires |-> Never] ELSE counter
      /\ counter.expires \in Nat
  BY DEF Tick, RateTypes, RateTypeOK, Times, Expiry, Never
<1>2. ByMemory' /\ BySet'
  BY <1>1 DEF Used, ByMemory, BySet
<1>3. SUFFICES ASSUME algorithm # "sliding"
               PROVE  ByCounter'
  BY <1>1, <1>2 DEF Used, ByCounter
<1>4. CASE counter.expires = now + 1
  <2>1. counter'.n = 0 /\ counter'.expires = Never
    BY <1>1, <1>4
  <2>2. Timely(hit', counter'.expires, {})
    BY DEF Timely
  <2>3. QED
    BY <2>1, <2>2, NoneNeeded DEF ByCounter
<1>5. CASE counter.expires # now + 1
  <2>1. counter' = counter /\ (counter.expires # Never => counter.expires <= now + 1 + Window)
    BY <1>1, <1>3, <1>5, NatLimit DEF Used, ByCounter
  <2>2. QED
    BY <1>1, <1>3, <2>1 DEF Used, ByCounter, Stands, Timely
<1>6. QED
  BY <1>4, <1>5

\* Whoever stands goes on standing, and is done with no earlier than now.
LEMMA StandingLasts ==
    ASSUME RateTypes, NEW r \in Hits, hit' \in [Hits -> Hit], StepOf(r),
           NEW T \in SUBSET Hits, \A o \in T : Stands(hit, o)
    PROVE  /\ hit[r].at = "read" => r \notin T
           /\ \A o \in T : Stands(hit', o) /\ (hit'[o].end = hit[o].end \/ hit'[o].end = now)
           /\ \A x \in Hits : x # r => hit'[x] = hit[x]
<1>1. \A x \in Hits : x # r => hit'[x] = hit[x]
  BY DEF StepOf, SameButFor, Comes, Counts, HitEnds, Remembers
<1>2. Fits(hit[r], now)
  BY DEF RateTypes, Clocks
<1>3. hit[r].at \in {"new", "read"} => r \notin T
  BY DEF Stands
<1>4. ASSUME r \in T
      PROVE  Stands(hit', r) /\ hit'[r].end = now
  <2>1. hit[r].at \notin {"new", "read"} /\ (hit[r].allowed \/ (RedisMayFail /\ hit[r].by = "memory"))
    BY <1>4 DEF Stands
  <2>2. CASE HitEnds(hit, hit', r, now)
    BY <1>2, <2>1, <2>2 DEF HitEnds, Stands, Fits
  <2>3. CASE RedisMayFail /\ Remembers(r)
    BY <2>3 DEF Remembers, Counts, Stands
  <2>4. QED
    BY <2>1, <2>2, <2>3 DEF StepOf, Comes
<1>5. \A o \in T : o # r => Stands(hit', o)
  BY <1>1 DEF Stands
<1>6. QED
  BY <1>1, <1>3, <1>4, <1>5

LEMMA CounterStep ==
    ASSUME RateTypes, Fixed, ByCounter, NEW r \in Hits, hit' \in [Hits -> Hit], StepOf(r)
    PROVE  ByCounter'
<1>1. /\ now' = now /\ now \in Nat /\ algorithm' = algorithm /\ algorithm \in Algorithms
      /\ counter.n \in Nat /\ counter.expires \in Nat /\ Never \in Nat
      /\ counter \in [n : 0..Cardinality(Hits), expires : Expiry]
      /\ counter.n = 0 => counter.expires = Never
      /\ lost => lost'
      /\ \A q \in Hits : Fits(hit[q], now) /\ hit[q].end \in Int /\ hit[q].stamp \in Nat
      /\ \A q \in Hits : hit'[q].end \in Int /\ hit'[q].stamp \in Nat
      /\ now + Window < Never
  BY HitsAreFinite DEF StepOf, RateTypes, RateTypeOK, Clocks, Times, Expiry, Never, Hit
<1>2. SUFFICES ASSUME algorithm # "sliding"
               PROVE  ByCounter'
  BY <1>1 DEF ByCounter
<1>3. PICK T \in SUBSET Hits :
         /\ Enough(T, counter.n) /\ (counter.n = 0 => T = {})
         /\ \A o \in T : Stands(hit, o)
         /\ ~lost => /\ Timely(hit, counter.expires, T)
                     /\ counter.n > 0 /\ counter.expires = Never =>
                           \E x \in Hits : hit[x].at = "expire"
                     /\ algorithm = "healing" /\ counter.expires = Never =>
                           \A o \in T : hit[o].at = "expire"
  BY <1>2 DEF ByCounter
<1>4. /\ hit[r].at = "read" => r \notin T
      /\ \A o \in T : Stands(hit', o) /\ (hit'[o].end = hit[o].end \/ hit'[o].end = now)
      /\ \A x \in Hits : x # r => hit'[x] = hit[x]
  BY <1>3, StandingLasts
<1>5. counter.expires # Never => counter.expires <= now + Window
  BY <1>2 DEF ByCounter
<1>6. PICK c : c = counter'
  OBVIOUS
\* What the set was timely for it is after the step, if it is for r too.
<1>7. ASSUME NEW S \in SUBSET (T \cup {r}), ~lost,
             NEW e \in Nat, e # Never => e <= now + Window,
             e = counter.expires \/ (e = now + Window /\ hit[r].at = "expire" /\ hit'[r].at = "over"),
             r \in S => hit'[r].end \in {-1, now},
             hit'[r].at = "expire" => \A o \in S : o # r => hit[o].end = -1
      PROVE  Timely(hit', e, S)
  <2>1. SUFFICES ASSUME NEW o \in S, hit'[o].end # -1
                 PROVE  /\ e # Never => hit'[o].end >= e - Window - MaxDelay
                        /\ \A x \in Hits : hit'[x].at = "expire" => hit'[o].end >= hit'[x].stamp
    BY DEF Timely
  <2>2. o \in Hits
    BY <1>7, <2>1
  <2>3. \A x \in Hits : hit'[x].at = "expire" => hit'[x].stamp <= now
    <3>1. Clocks'
      BY ClocksStep
    <3>2. QED
      BY <1>1, <3>1 DEF Clocks, Fits
  <2>4. CASE hit'[o].end = now
    BY <1>1, <1>7, <2>3, <2>4, NatLimit
  <2>5. CASE hit'[o].end # now
    <3>1. o \in T /\ hit'[o].end = hit[o].end /\ (o # r \/ hit'[r].end = -1)
      BY <1>4, <1>7, <2>1, <2>5
    <3>2. /\ counter.expires # Never => hit[o].end >= counter.expires - Window - MaxDelay
          /\ \A x \in Hits : hit[x].at = "expire" => hit[o].end >= hit[x].stamp
      BY <1>3, <1>7, <2>1, <3>1 DEF Timely
    <3>3. hit'[r].at # "expire"
      BY <1>7, <2>1, <3>1
    <3>4. \A x \in Hits : hit'[x].at = "expire" => hit'[o].end >= hit'[x].stamp
      BY <1>4, <3>1, <3>2, <3>3
    <3>5. hit[r].at = "expire" => hit[o].end >= now - MaxDelay
      BY <1>1, <2>2, <3>2, NatLimit DEF Fits
    <3>6. e # Never => hit'[o].end >= e - Window - MaxDelay
      <4>1. CASE e = counter.expires
        BY <3>1, <3>2, <4>1
      <4>2. CASE e = now + Window /\ hit[r].at = "expire"
        BY <1>1, <2>2, <3>1, <3>5, <4>2, NatLimit
      <4>3. QED
        BY <1>7, <4>1, <4>2
    <3>7. QED
      BY <3>4, <3>6
  <2>6. QED
    BY <2>4, <2>5
<1>8. CASE hit[r].at = "read" /\ Counted(r)
  <2>1. c.n = counter.n + 1 /\ c.expires = counter.expires /\ r \notin T /\ c.n # 0
    BY <1>1, <1>4, <1>6, <1>8 DEF Counted
  <2>2. hit'[r].at \notin {"new", "read"} /\ hit'[r].end \in {-1, now}
    BY <1>8 DEF StepOf, Slid, Comes, Counts, HitEnds, Remembers
  <2>3. counter.n + 1 <= Limit => Stands(hit', r)
    <3>1. CASE Counts(hit, hit', r, now, "redis", counter.n + 1)
      <4>1. hit'[r].allowed = (counter.n + 1 <= Limit)
        BY <3>1 DEF Counts
      <4>2. counter.n + 1 <= Limit => hit'[r].allowed
        BY <4>1, Zenon
      <4>3. QED
        BY <2>2, <4>2 DEF Stands
    <3>2. CASE HitEnds(hit, hit', r, now)
      BY <1>8, <2>2, <3>2 DEF HitEnds, Stands
    <3>3. CASE RedisMayFail /\ Remembers(r)
      BY <2>2, <3>3 DEF Remembers, Counts, Stands
    <3>4. \/ Counts(hit, hit', r, now, "redis", counter.n + 1)
          \/ HitEnds(hit, hit', r, now)
          \/ RedisMayFail /\ Remembers(r)
      BY <1>8 DEF StepOf, Slid, Comes, Counted
    <3>5. QED
      BY <3>1, <3>2, <3>3, <3>4
  <2>4. PICK S \in SUBSET (T \cup {r}) :
           /\ Enough(S, counter.n + 1) /\ T \in SUBSET S
           /\ \A o \in S : Stands(hit', o)
    <3>1. Enough(T \cup {r}, counter.n + 1) /\ (counter.n + 1 > Limit => Enough(T, counter.n + 1))
      BY <1>1, <1>3, <2>1, OneMoreNeeded
    <3>2. \A o \in T : Stands(hit', o)
      BY <1>4
    <3>3. CASE counter.n + 1 <= Limit
      <4>1. \A o \in T \cup {r} : Stands(hit', o)
        BY <2>3, <3>2, <3>3
      <4>2. QED
        BY <3>1, <4>1
    <3>4. CASE counter.n + 1 > Limit
      BY <3>1, <3>2, <3>4
    <3>5. QED
      BY <1>1, <3>3, <3>4, NatLimit
  <2>5. ASSUME ~lost'
        PROVE  /\ Timely(hit', counter.expires, S)
               /\ counter.expires = Never => \E x \in Hits : hit'[x].at = "expire"
               /\ algorithm = "healing" /\ counter.expires = Never =>
                     \A o \in S : hit'[o].at = "expire"
    <3>1. ~lost
      BY <1>1, <2>5
    <3>2. SetsExpiry(counter.n + 1) <=> hit'[r].at = "expire"
      <4>1. \/ hit'[r].at = IF SetsExpiry(counter.n + 1) THEN "expire" ELSE "over"
            \/ hit'[r].at = "over" /\ lost' = (lost \/ SetsExpiry(counter.n + 1))
            \/ hit'[r].at = "over" /\ counter' = counter
        BY <1>8 DEF StepOf, Slid, Comes, Counted, HitEnds, Remembers
      <4>2. counter' # counter
        BY <1>1, <1>8 DEF Counted
      <4>3. CASE hit'[r].at = "over" /\ lost' = (lost \/ SetsExpiry(counter.n + 1))
        <5>1. ~SetsExpiry(counter.n + 1)
          BY <2>5, <4>3, Zenon
        <5>2. QED
          BY <4>3, <5>1
      <4>4. QED
        BY <4>1, <4>2, <4>3
    <3>3. hit'[r].at = "expire" => \A o \in S : o # r => hit[o].end = -1
      <4>1. SUFFICES ASSUME SetsExpiry(counter.n + 1), NEW o \in T
                     PROVE  hit[o].end = -1
        BY <3>2
      <4>2. counter.n > 0
        BY <1>1, <1>3, <4>1
      <4>3. algorithm = "healing" /\ counter.expires = Never
        BY <1>1, <1>2, <4>1, <4>2 DEF SetsExpiry, Algorithms
      <4>4. hit[o].at = "expire" /\ o \in Hits
        BY <1>3, <3>1, <4>3
      <4>5. QED
        BY <1>1, <4>4 DEF Fits
    <3>4. Timely(hit', counter.expires, S)
      BY <1>1, <1>5, <1>7, <2>2, <3>1, <3>3
    <3>5. counter.expires = Never => \E x \in Hits : hit'[x].at = "expire"
      <4>1. CASE SetsExpiry(counter.n + 1)
        BY <3>2, <4>1
      <4>2. CASE ~SetsExpiry(counter.n + 1) /\ counter.expires = Never
        <5>1. counter.n > 0
          BY <1>1, <4>2 DEF SetsExpiry
        <5>2. PICK x \in Hits : hit[x].at = "expire"
          BY <1>3, <3>1, <4>2, <5>1
        <5>3. hit'[x] = hit[x]
          BY <1>4, <1>8, <5>2
        <5>4. QED
          BY <5>2, <5>3
      <4>3. QED
        BY <4>1, <4>2
    <3>6. ASSUME algorithm = "healing", counter.expires = Never
          PROVE  \A o \in S : hit'[o].at = "expire"
      <4>1. hit'[r].at = "expire"
        BY <3>2, <3>6 DEF SetsExpiry
      <4>2. \A o \in T : hit'[o].at = "expire"
        BY <1>3, <1>4, <2>1, <3>1, <3>6
      <4>3. QED
        BY <4>1, <4>2
    <3>7. QED
      BY <3>4, <3>5, <3>6
  <2>6. S \in SUBSET Hits
    BY <2>4
  <2>7. /\ c.expires # Never => c.expires <= now + Window
        /\ Enough(S, c.n) /\ (c.n = 0 => S = {})
        /\ \A o \in S : Stands(hit', o)
        /\ ~lost' => /\ Timely(hit', c.expires, S)
                     /\ c.n > 0 /\ c.expires = Never => \E x \in Hits : hit'[x].at = "expire"
                     /\ algorithm = "healing" /\ c.expires = Never => \A o \in S : hit'[o].at = "expire"
    BY <1>5, <2>1, <2>4, <2>5
  <2>8. QED
    BY <1>1, <1>6, <2>6, <2>7 DEF ByCounter
<1>9. CASE ~(hit[r].at = "read" /\ Counted(r))
  <2>1. /\ c.n = counter.n
        /\ c.expires = counter.expires \/ c.expires = now + Window
        /\ c.expires # counter.expires => hit[r].at = "expire" /\ hit'[r].at = "over" /\ counter.n > 0
    BY <1>1, <1>2, <1>6, <1>9 DEF StepOf, Slid, Comes, HitEnds
  <2>2. c.expires # Never => c.expires <= now + Window
    BY <1>1, <1>5, <2>1
  <2>3. hit'[r].at # "expire"
    BY <1>2, <1>9 DEF StepOf, Slid, Comes, HitEnds, Remembers
  <2>4. ASSUME ~lost'
        PROVE  /\ Timely(hit', c.expires, T)
               /\ c.n > 0 /\ c.expires = Never => \E x \in Hits : hit'[x].at = "expire"
               /\ algorithm = "healing" /\ c.expires = Never => \A o \in T : hit'[o].at = "expire"
    <3>1. ~lost
      BY <1>1, <2>4
    <3>2. r \in T => hit'[r].end \in {-1, now}
      <4>1. r \in T => hit[r].at \notin {"new", "read"}
        BY <1>3 DEF Stands
      <4>2. QED
        BY <4>1 DEF StepOf, Comes, HitEnds, Remembers, Counts
    <3>3. Timely(hit', c.expires, T)
      <4>1. c.expires \in Nat
        BY <1>1, <2>1, NatLimit
      <4>2. QED
        BY <1>7, <2>1, <2>2, <2>3, <3>1, <3>2, <4>1
    <3>4. ASSUME c.n > 0, c.expires = Never
          PROVE  c.expires = counter.expires /\ hit[r].at # "expire"
      <4>1. hit[r].at = "expire" => counter' = [counter EXCEPT !.expires = now + Window]
        BY <1>1, <2>1, <2>4, <3>4 DEF StepOf, Comes
      <4>2. QED
        BY <1>1, <1>6, <2>1, <3>4, <4>1
    <3>5. c.n > 0 /\ c.expires = Never => \E x \in Hits : hit'[x].at = "expire"
      <4>1. SUFFICES ASSUME c.n > 0, c.expires = Never
                     PROVE  \E x \in Hits : hit'[x].at = "expire"
        OBVIOUS
      <4>2. PICK x \in Hits : hit[x].at = "expire"
        BY <1>3, <2>1, <3>1, <3>4, <4>1
      <4>3. hit'[x] = hit[x]
        BY <1>4, <3>4, <4>1, <4>2
      <4>4. QED
        BY <4>2, <4>3
    <3>6. algorithm = "healing" /\ c.expires = Never => \A o \in T : hit'[o].at = "expire"
      <4>1. SUFFICES ASSUME algorithm = "healing", c.expires = Never, NEW o \in T
                     PROVE  hit'[o].at = "expire"
        OBVIOUS
      <4>2. c.n > 0
        BY <1>1, <1>3, <2>1, <4>1
      <4>3. c.expires = counter.expires /\ hit[r].at # "expire"
        BY <3>4, <4>1, <4>2
      <4>4. hit[o].at = "expire"
        BY <1>3, <3>1, <4>1, <4>3
      <4>5. QED
        BY <1>4, <4>3, <4>4
    <3>7. QED
      BY <3>3, <3>5, <3>6
  <2>5. /\ Enough(T, c.n) /\ (c.n = 0 => T = {})
        /\ \A o \in T : Stands(hit', o)
    BY <1>3, <1>4, <2>1
  <2>6. QED
    BY <1>1, <1>6, <2>2, <2>4, <2>5 DEF ByCounter
<1>10. QED
  BY <1>8, <1>9

LEMMA MemoryStep ==
    ASSUME RateTypes, Fixed, ByMemory, NEW r \in Hits, hit' \in [Hits -> Hit], StepOf(r)
    PROVE  ByMemory'
<1>1. /\ now \in Nat /\ memory.n \in Nat /\ memory.start \in Nat
      /\ memory \in [n : 0..Cardinality(Hits), start : Times]
      /\ hit[r].at # "over" /\ \A x \in Hits : x # r => hit'[x] = hit[x]
  BY HitsAreFinite DEF RateTypes, RateTypeOK, Times, StepOf, SameButFor, Comes, Counts, HitEnds, Remembers
<1>2. PICK T \in SUBSET Hits :
         /\ Enough(T, memory.n)
         /\ \A o \in T : /\ hit[o].at = "over" /\ hit[o].by = "memory" /\ hit[o].allowed
                         /\ hit[o].end >= memory.start
  BY DEF ByMemory
<1>3. r \notin T /\ \A o \in T : hit'[o] = hit[o]
  BY <1>1, <1>2
<1>4. PICK d : d = memory'
  OBVIOUS
<1>5. CASE d = memory
  BY <1>2, <1>3, <1>4, <1>5 DEF ByMemory
<1>6. CASE Remembers(r)
  <2>1. d = MemoryWindow /\ hit'[r].at = "over" /\ hit'[r].by = "memory" /\ hit'[r].end = now
    BY <1>4, <1>6 DEF Remembers, Counts
  <2>2. d.n <= Limit => hit'[r].allowed
    <3>1. hit'[r].allowed = (d.n <= Limit)
      BY <1>4, <1>6 DEF Remembers, Counts
    <3>2. QED
      BY <3>1, Zenon
  <2>3. memory.start <= now
    BY <1>6 DEF Fixed, Remembers
  <2>4. CASE now - memory.start >= Window
    <3>1. d.n = 1 /\ d.start = now
      BY <2>1, <2>4 DEF MemoryWindow
    <3>2. PICK S \in SUBSET Hits : S = {} \cup {r}
      OBVIOUS
    <3>3. Enough(S, d.n)
      <4>1. Enough({} \cup {r}, 0 + 1)
        BY NoneNeeded, OneMoreNeeded
      <4>2. QED
        BY <3>1, <3>2, <4>1
    <3>4. hit'[r].allowed
      BY <2>2, <3>1, NatLimit
    <3>5. \A o \in S : /\ hit'[o].at = "over" /\ hit'[o].by = "memory" /\ hit'[o].allowed
                       /\ hit'[o].end >= d.start
      BY <1>1, <2>1, <3>1, <3>2, <3>4
    <3>6. QED
      BY <1>4, <3>3, <3>5 DEF ByMemory
  <2>5. CASE ~(now - memory.start >= Window)
    <3>1. d.n = memory.n + 1 /\ d.start = memory.start
      BY <1>1, <2>1, <2>5 DEF MemoryWindow
    <3>2. PICK S \in SUBSET Hits :
             /\ Enough(S, d.n)
             /\ \A o \in S : o \in T \/ (o = r /\ d.n <= Limit)
      <4>1. Enough(T \cup {r}, memory.n + 1) /\ (memory.n + 1 > Limit => Enough(T, memory.n + 1))
        BY <1>1, <1>2, <1>3, OneMoreNeeded
      <4>2. CASE d.n <= Limit
        BY <3>1, <4>1, <4>2
      <4>3. CASE d.n > Limit
        BY <3>1, <4>1, <4>3
      <4>4. QED
        BY <1>1, <3>1, <4>2, <4>3, NatLimit
    <3>3. \A o \in S : /\ hit'[o].at = "over" /\ hit'[o].by = "memory" /\ hit'[o].allowed
                       /\ hit'[o].end >= d.start
      BY <1>1, <1>2, <1>3, <2>1, <2>2, <2>3, <3>1, <3>2
    <3>4. QED
      BY <1>4, <3>2, <3>3 DEF ByMemory
  <2>6. QED
    BY <2>4, <2>5
<1>7. QED
  BY <1>4, <1>5, <1>6 DEF StepOf

LEMMA SetStep ==
    ASSUME RateTypes, BySet, NEW r \in Hits, hit' \in [Hits -> Hit], StepOf(r)
    PROVE  BySet'
<1>1. SUFFICES ASSUME ~RedisMayFail
               PROVE  \A o \in members' : hit'[o].allowed \/ hit'[o].at = "takeback"
  BY DEF BySet
<1>2. \A x \in Hits : x # r => hit'[x] = hit[x]
  BY DEF StepOf, SameButFor, Comes, Counts, HitEnds, Remembers
<1>3. /\ members \in SUBSET Hits /\ Fits(hit[r], now)
      /\ \A m \in members : hit[m].at \notin {"new", "read"}
      /\ \A m \in members : hit[m].allowed \/ hit[m].at = "takeback"
  BY <1>1 DEF BySet, RateTypes, RateTypeOK, Tallied, Clocks
<1>4. CASE hit[r].at = "read" /\ Slid(r)
  <2>1. PICK M \in SUBSET Hits : M = Kept(r) \cup {r} /\ M = members'
    BY <1>3, <1>4 DEF Slid, Kept
  <2>2. /\ hit'[r].allowed = (Cardinality(M) <= Limit)
        /\ hit'[r].at = IF Cardinality(M) > Limit THEN "takeback" ELSE "over"
    BY <1>1, <1>4, <2>1 DEF StepOf, Counted, Slid, Comes, Counts
  <2>3. Cardinality(M) \in Nat
    BY HitsAreFinite
  <2>4. CASE Cardinality(M) > Limit
    BY <1>2, <1>3, <1>4, <2>1, <2>2, <2>4 DEF Kept
  <2>5. CASE Cardinality(M) <= Limit
    <3>1. hit'[r].allowed
      BY <2>2, <2>5, Zenon
    <3>2. QED
      BY <1>2, <1>3, <1>4, <2>1, <3>1 DEF Kept
  <2>6. QED
    BY <2>3, <2>4, <2>5, NatLimit
<1>5. CASE hit[r].at = "takeback"
  <2>1. members' = members \ {r}
    BY <1>1, <1>5 DEF StepOf, Comes
  <2>2. QED
    BY <1>2, <1>3, <2>1
<1>6. CASE hit[r].at # "takeback" /\ ~(hit[r].at = "read" /\ Slid(r))
  <2>1. members' = members /\ (hit[r].at \in {"new", "read"} \/ (hit[r].at = "expire" /\ HitEnds(hit, hit', r, now)))
    BY <1>1, <1>6 DEF StepOf, Comes, Counted
  <2>2. hit'[r].allowed = hit[r].allowed \/ r \notin members
    BY <1>3, <2>1 DEF HitEnds, Fits
  <2>3. QED
    BY <1>2, <1>3, <1>6, <2>1, <2>2
<1>7. QED
  BY <1>4, <1>5, <1>6

\* Whoever a step refuses, as many as the limit use it.
LEMMA RefusedSo ==
    ASSUME RateTypes, Fixed, Used, NEW q \in Hits, hit' \in [Hits -> Hit], StepOf(q),
           NEW r \in Hits, Refuses(r)
    PROVE  Cardinality({o \in Hits \ {r} : UsesLimit(o) /\ Recently(o)}) >= Limit
<1>1. /\ now \in Nat /\ algorithm \in Algorithms /\ members \in SUBSET Hits
      /\ counter.n \in Nat /\ counter.expires \in Nat /\ memory.n \in Nat /\ memory.start \in Nat
      /\ \A o \in Hits : Fits(hit[o], now) /\ hit[o].end \in Int /\ hit[o].stamp \in Nat
      /\ \A m \in members : hit[m].at \notin {"new", "read"}
  BY HitsAreFinite DEF RateTypes, RateTypeOK, Clocks, Tallied, Times, Expiry, Never, Hit
<1>2. PICK D \in SUBSET Hits : D = {o \in Hits \ {r} : UsesLimit(o) /\ Recently(o)}
  OBVIOUS
<1>3. ASSUME NEW T \in SUBSET D, Cardinality(T) >= Limit
      PROVE  Cardinality(D) >= Limit
  BY <1>3, FewerHits, HitsAreFinite, NatLimit
<1>4. q = r /\ ~hit'[r].allowed /\ hit'[r].by # hit[r].by
  BY DEF Refuses, StepOf, SameButFor, Comes, Counts, HitEnds, Remembers
<1>5. ~Comes(hit, hit', r, now) /\ ~HitEnds(hit, hit', r, now)
  BY <1>4 DEF Comes, HitEnds
<1>6. CASE hit[r].at = "read" /\ Counted(r) /\ Counts(hit, hit', r, now, "redis", counter.n + 1)
  <2>1. PICK T \in SUBSET Hits :
           /\ Enough(T, counter.n) /\ \A o \in T : Stands(hit, o)
           /\ ~lost => /\ Timely(hit, counter.expires, T)
                       /\ counter.n > 0 /\ counter.expires = Never =>
                             \E x \in Hits : hit[x].at = "expire"
    BY <1>6 DEF Used, ByCounter, Counted
  <2>2. counter.n >= Limit
    <3>1. hit'[r].allowed = (counter.n + 1 <= Limit)
      BY <1>6 DEF Counts
    <3>2. ~(counter.n + 1 <= Limit)
      BY <1>4, <3>1, Zenon
    <3>3. QED
      BY <1>1, <3>2, NatLimit
  <2>3. Cardinality(T) >= Limit
    BY <1>1, <2>1, <2>2, HitsAreFinite, NatLimit DEF Enough
  <2>4. ASSUME NEW o \in T
        PROVE  o \in D
    <3>1. o \in Hits /\ o # r /\ UsesLimit(o) /\ hit[o].at \notin {"new", "read"}
      BY <1>6, <2>1, <2>4 DEF Stands, UsesLimit
    <3>2. lost \/ hit[o].end = -1 \/ hit[o].end > now - Window - MaxDelay
      <4>1. SUFFICES ASSUME ~lost, hit[o].end # -1
                     PROVE  hit[o].end > now - Window - MaxDelay
        OBVIOUS
      <4>2. /\ counter.expires # Never => hit[o].end >= counter.expires - Window - MaxDelay
            /\ \A x \in Hits : hit[x].at = "expire" => hit[o].end >= hit[x].stamp
        BY <2>1, <2>4, <4>1 DEF Timely
      <4>3. CASE counter.expires # Never
        <5>1. counter.expires > now
          BY <1>6, <4>3 DEF Fixed, Counted
        <5>2. QED
          BY <1>1, <3>1, <4>2, <4>3, <5>1, NatLimit
      <4>4. CASE counter.expires = Never
        <5>1. PICK x \in Hits : hit[x].at = "expire"
          BY <1>1, <2>1, <2>2, <4>1, <4>4, NatLimit
        <5>2. hit[x].stamp >= now - MaxDelay /\ hit[o].end >= hit[x].stamp
          BY <1>1, <4>2, <5>1, NatLimit DEF Fits
        <5>3. QED
          BY <1>1, <3>1, <5>2, NatLimit
      <4>5. QED
        BY <4>3, <4>4
    <3>3. QED
      BY <1>2, <3>1, <3>2 DEF Recently
  <2>5. QED
    BY <1>2, <1>3, <2>3, <2>4
<1>7. CASE hit[r].at = "read" /\ Slid(r) /\ Counts(hit, hit', r, now, "redis", Cardinality(members'))
  <2>1. PICK M \in SUBSET members : M = Kept(r) /\ members' = M \cup {r}
    BY <1>7 DEF Slid, Kept
  <2>2. r \notin members
    BY <1>1, <1>7
  <2>3. Cardinality(M \cup {r}) = Cardinality(M) + 1 /\ Cardinality(M) \in Nat
    BY <1>1, <2>1, <2>2, HitsAreFinite, FS_AddElement
  <2>4. hit'[r].allowed = (Cardinality(M \cup {r}) <= Limit)
    BY <1>7, <2>1 DEF Counts
  <2>5. ~(Cardinality(M \cup {r}) <= Limit)
    BY <1>4, <2>4, Zenon
  <2>6. Cardinality(M) >= Limit
    BY <2>3, <2>5, NatLimit
  <2>7. ASSUME NEW o \in M
        PROVE  o \in D
    <3>1. o \in Hits /\ o # r /\ hit[o].at \notin {"new", "read"} /\ hit[o].stamp > hit[r].stamp - Window
      BY <1>1, <2>1, <2>2, <2>7 DEF Kept
    <3>2. UsesLimit(o)
      BY <2>1, <2>7 DEF UsesLimit, Used, BySet
    <3>3. hit[o].end = -1 \/ hit[o].end >= hit[o].stamp
      <4>1. hit[o] \in Hit /\ Fits(hit[o], now)
        BY <1>1, <3>1 DEF RateTypes, RateTypeOK
      <4>2. QED
        BY <3>1, <4>1 DEF Fits, Hit
    <3>4. hit[r].stamp >= now - MaxDelay
      BY <1>1, <1>7, NatLimit DEF Fits
    <3>5. hit[o].end = -1 \/ hit[o].end > now - Window - MaxDelay
      BY <1>1, <3>1, <3>3, <3>4, NatLimit
    <3>6. QED
      BY <1>2, <3>1, <3>2, <3>5 DEF Recently
  <2>8. QED
    BY <1>2, <1>3, <2>6, <2>7
<1>8. CASE RedisMayFail /\ hit[r].at \in {"read", "expire"} /\ Remembers(r)
  <2>1. PICK T \in SUBSET Hits :
           /\ Enough(T, memory.n)
           /\ \A o \in T : /\ hit[o].at = "over" /\ hit[o].by = "memory" /\ hit[o].allowed
                           /\ hit[o].end >= memory.start
    BY DEF Used, ByMemory
  <2>2. PICK m \in Nat : m = memory'.n /\ Counts(hit, hit', r, now, "memory", m) /\ memory' = MemoryWindow
    BY <1>8 DEF Remembers
  <2>3. hit'[r].allowed = (m <= Limit)
    BY <2>2 DEF Counts
  <2>4. ~(m <= Limit)
    BY <1>4, <2>3, Zenon
  <2>5. now - memory.start < Window /\ memory.n >= Limit
    BY <1>1, <2>2, <2>4, NatLimit DEF MemoryWindow, RateTypes, RateTypeOK
  <2>6. Cardinality(T) >= Limit
    BY <1>1, <2>1, <2>5, HitsAreFinite, NatLimit DEF Enough
  <2>7. ASSUME NEW o \in T
        PROVE  o \in D
    <3>1. o \in Hits /\ o # r /\ UsesLimit(o) /\ hit[o].at \notin {"new", "read"}
      BY <1>8, <2>1, <2>7 DEF UsesLimit
    <3>2. hit[o].end > now - Window - MaxDelay
      BY <1>1, <2>1, <2>5, <2>7, NatLimit
    <3>3. QED
      BY <1>2, <3>1, <3>2 DEF Recently
  <2>8. QED
    BY <1>2, <1>3, <2>6, <2>7
<1>9. QED
  BY <1>4, <1>5, <1>6, <1>7, <1>8 DEF StepOf

-----------------------------------------------------------------------------
(* The promise *)

RateInv == RateTypes /\ Fixed /\ Sliding /\ Used

LEMMA RateInvKept ==
    ASSUME RateInv, [RateNext]_rateVars
    PROVE  RateInv'
<1>1. RateTypes /\ Fixed /\ Sliding /\ Used /\ RateTypes'
  BY TypesNext DEF RateInv
<1>2. CASE Tick
  BY <1>1, <1>2, FixedTick, SlidingTick, UsedTick DEF RateInv
<1>3. CASE UNCHANGED rateVars
  <2>1. Fixed' /\ Sliding'
    BY <1>1, <1>3 DEF rateVars, Fixed, Sliding
  <2>2. Used'
    BY <1>1, <1>3 DEF rateVars, Used, ByCounter, ByMemory, BySet, Stands, Timely
  <2>3. QED
    BY <1>1, <2>1, <2>2 DEF RateInv
<1>4. ASSUME NEW r \in Hits, hit' \in [Hits -> Hit], StepOf(r)
      PROVE  RateInv'
  BY <1>1, <1>4, FixedStep, SlidingStep, CounterStep, MemoryStep, SetStep DEF RateInv, Used
<1>5. QED
  BY <1>1, <1>2, <1>3, <1>4, TypesNext

LEMMA RateInvHolds == RateSpec => []RateInv
<1>1. RateInit => RateInv
  BY TypesInit, FixedInit, SlidingInit, UsedInit DEF RateInv
<1>2. QED
  BY <1>1, RateInvKept, PTL DEF RateSpec

\* What is let through within a window, as the property has it.
LEMMA LetThroughIs ==
    ASSUME RateTypeOK, NEW by, NEW from \in Times, NEW span \in Nat
    PROVE  LetThrough(by, from, span) = Within(hit, by, from, span)
<1>1. \A q \in Hits : hit[q].counted \in Int
  BY DEF RateTypeOK, Hit, Times
<1>2. QED
  BY <1>1 DEF LetThrough, Within, LetIn, Times

\* Every variable of the limiters keeps its type, however many requests there are.
THEOREM RateTypesHold == RateSpec => []RateTypeOK
<1>1. RateInv => RateTypeOK
  BY DEF RateInv, RateTypes
<1>2. QED
  BY <1>1, RateInvHolds, PTL

\* Of the requests that a count decides no limiter lets more through than it says, and
\* none refuses a request while fewer others than the limit use it: for any limit and
\* window, any number of requests, however late they reach Redis and whichever calls fail.
THEOREM LimitersHold == RateSpec => LimitHolds
<1>1. ASSUME RateInv
      PROVE  NeverOverLimit
  <2>1. RateTypeOK /\ Fixed /\ Sliding
    BY <1>1 DEF RateInv, RateTypes
  <2>2. Window - MaxDelay \in Nat /\ Window \in Nat
    BY NatLimit
  <2>3. CASE algorithm = "sliding"
    BY <2>1, <2>2, <2>3, LetThroughIs DEF NeverOverLimit, Sliding
  <2>4. CASE algorithm # "sliding"
    BY <2>1, <2>2, <2>4, LetThroughIs DEF NeverOverLimit, Fixed, NoneTwice
  <2>5. QED
    BY <2>3, <2>4
<1>2. ASSUME RateInv, [RateNext]_rateVars
      PROVE  [RefusedForAReason]_rateVars
  <2>1. RateTypes /\ Fixed /\ Used
    BY <1>2 DEF RateInv
  <2>2. ASSUME NEW r \in Hits, Refuses(r)
        PROVE  Cardinality({o \in Hits \ {r} : UsesLimit(o) /\ Recently(o)}) >= Limit
    <3>1. \E q \in Hits : hit' \in [Hits -> Hit] /\ StepOf(q)
      BY <1>2, <2>1, <2>2, TypesNext DEF Tick, Refuses, rateVars
    <3>2. QED
      BY <2>1, <2>2, <3>1, RefusedSo
  <2>3. QED
    BY <2>2 DEF RefusedForAReason
<1>3. QED
  BY <1>1, <1>2, RateInvHolds, PTL DEF RateSpec, LimitHolds

=============================================================================
