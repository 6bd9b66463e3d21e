------------------------------- MODULE Leads -------------------------------
(***************************************************************************)
(* The enquiry pipeline of api-core: leads, the agent each is assigned to  *)
(* and the leads counted on a listing.  An update reads the lead, checks   *)
(* the move against what it read, and writes the fields it was given; each *)
(* await is a step.  Names, messages, notes and the references checked     *)
(* before a lead is created are left out: a request that fails those       *)
(* checks changes nothing.                                                 *)
(***************************************************************************)
EXTENDS Integers, FiniteSets

CONSTANTS
    Leads,            \* bounds the number of leads ever created
    Properties,
    Users,
    Handlers,         \* bounds the number of requests in flight
    None,             \* undefined: the request does not name the field
    Null,
    Asked,            \* the statuses the requests of a run ask for
    RoleChanges,      \* a superadmin may change roles in this run
    MayFail           \* a call may throw, or the process die before it

Statuses == {"new", "contacted", "qualified", "viewing", "negotiating", "won", "lost"}

TRANSITIONS ==
    [s \in Statuses |->
        CASE s = "new"         -> {"contacted", "qualified", "lost"}
          [] s = "contacted"   -> {"qualified", "viewing", "lost"}
          [] s = "qualified"   -> {"viewing", "negotiating", "lost"}
          [] s = "viewing"     -> {"negotiating", "won", "lost"}
          [] s = "negotiating" -> {"won", "lost"}
          [] OTHER             -> {}]

ASSUME LeadsAssumption ==
    /\ {None, Null} \cap (Users \cup Properties \cup Leads \cup Statuses) = {}
    /\ None # Null
    /\ Asked \subseteq Statuses
    /\ RoleChanges \in BOOLEAN
    /\ MayFail \in BOOLEAN

Labels  == {"idle", "create", "bump", "read", "checkAgent", "write", "exists", "delete"}
Lead    == [status : Statuses, agent : Users \cup {Null}, contactedAt : Nat,
            property : Properties \cup {Null}]
NoLead  == [status |-> "none", agent |-> Null, contactedAt |-> 0, property |-> Null]
Request == [id : Leads \cup {None}, status : Statuses \cup {None},
            agent : Users \cup {None, Null}, property : Properties \cup {Null}]
NoRequest == [id |-> None, status |-> None, agent |-> None, property |-> Null]

VARIABLES
    lead,             \* leads, by id; contactedAt 0 is null
    leads,            \* stats.leads of each listing
    staff,            \* users whose role is agent, admin or superadmin
    been,             \* history: the statuses a lead has had
    clock,            \* the last instant stamped
    pc, req,
    existing          \* the lead an update read

vars == <<lead, leads, staff, been, clock, pc, req, existing>>

TypeOK ==
    /\ lead \in [Leads -> Lead \cup {NoLead}]
    /\ leads \in [Properties -> Nat]
    /\ staff \subseteq Users
    /\ been \in [Leads -> SUBSET Statuses]
    /\ clock \in Nat
    /\ pc \in [Handlers -> Labels]
    /\ req \in [Handlers -> Request]
    /\ existing \in [Handlers -> Lead \cup {NoLead}]

Init ==
    /\ lead = [l \in Leads |-> NoLead]
    /\ leads = [h \in Properties |-> 0]
    /\ staff = Users
    /\ been = [l \in Leads |-> {}]
    /\ clock = 0
    /\ pc = [p \in Handlers |-> "idle"]
    /\ req = [p \in Handlers |-> NoRequest]
    /\ existing = [p \in Handlers |-> NoLead]

-----------------------------------------------------------------------------
Exists(l) == lead[l] # NoLead

\* A uuid nothing remembers.
Unused(l) == been[l] = {} /\ \A p \in Handlers : req[p].id # l

Goto(p, label) == pc' = [pc EXCEPT ![p] = label]

Finish(p) == /\ Goto(p, "idle")
             /\ req' = [req EXCEPT ![p] = NoRequest]
             /\ existing' = [existing EXCEPT ![p] = NoLead]

Begin(p, r, label) ==
    /\ pc[p] = "idle"
    /\ req' = [req EXCEPT ![p] = r]
    /\ Goto(p, label)
    /\ UNCHANGED <<lead, leads, staff, been, clock, existing>>

\* Mutant: a step of the pipeline may be skipped.
AllowedSkipping(from, to) ==
    to \in {None, from} \cup UNION {TRANSITIONS[s] : s \in TRANSITIONS[from] \cup {from}}

\* assertTransition, which a request that leaves the status alone skips.
Allowed(from, to) == to \in {None, from} \/ to \in TRANSITIONS[from]

-----------------------------------------------------------------------------
Create(p, l, h) ==
    /\ Unused(l)
    /\ Begin(p, [NoRequest EXCEPT !.id = l, !.property = h], "create")

CreateLead(p) ==
    /\ pc[p] = "create"
    /\ LET l == req[p].id
           h == req[p].property
           d == [status |-> "new", agent |-> Null, contactedAt |-> 0, property |-> h]
       IN  /\ lead' = [lead EXCEPT ![l] = d]
           /\ been' = [been EXCEPT ![l] = {"new"}]
           /\ IF h = Null THEN Finish(p)
              ELSE Goto(p, "bump") /\ UNCHANGED <<req, existing>>
    /\ UNCHANGED <<leads, staff, clock>>

\* incrementLeadCount swallows its error: MayFail's Abort is that case as well.
Bump(p) ==
    /\ pc[p] = "bump"
    /\ leads' = [leads EXCEPT ![req[p].property] = @ + 1]
    /\ Finish(p)
    /\ UNCHANGED <<lead, staff, been, clock>>

Update(p, l, s, a) ==
    /\ been[l] # {}
    /\ <<s, a>> # <<None, None>>
    /\ Begin(p, [NoRequest EXCEPT !.id = l, !.status = s, !.agent = a], "read")

Read(p) ==
    /\ pc[p] = "read"
    /\ LET l == req[p].id
       IN  IF Exists(l) /\ Allowed(lead[l].status, req[p].status)
           THEN /\ existing' = [existing EXCEPT ![p] = lead[l]]
                /\ Goto(p, IF req[p].agent \in Users THEN "checkAgent" ELSE "write")
                /\ UNCHANGED req
           ELSE Finish(p)
    /\ UNCHANGED <<lead, leads, staff, been, clock>>

CheckAgent(p) ==
    /\ pc[p] = "checkAgent"
    /\ IF req[p].agent \in staff
       THEN Goto(p, "write") /\ UNCHANGED <<req, existing>>
       ELSE Finish(p)
    /\ UNCHANGED <<lead, leads, staff, been, clock>>

\* movingToContacted, from the lead as it was read.
Stamped(p) == req[p].status = "contacted" /\ existing[p].contactedAt = 0

\* Mutant: the status is written whether the request names one or not.
WrittenUndefined(p, d) ==
    [d EXCEPT !.status      = req[p].status,
              !.agent       = IF req[p].agent = None THEN @ ELSE req[p].agent,
              !.contactedAt = IF Stamped(p) THEN clock + 1 ELSE @]

\* Mutant: the update spreads the lead it read, not the fields of the request.
WrittenWhole(p, d) ==
    [existing[p] EXCEPT !.status      = IF req[p].status = None THEN @ ELSE req[p].status,
                        !.agent       = IF req[p].agent = None THEN @ ELSE req[p].agent,
                        !.contactedAt = IF Stamped(p) THEN clock + 1 ELSE @]

Written(p, d) ==
    [d EXCEPT !.status      = IF req[p].status = None THEN @ ELSE req[p].status,
              !.agent       = IF req[p].agent = None THEN @ ELSE req[p].agent,
              !.contactedAt = IF Stamped(p) THEN clock + 1 ELSE @]

\* Prisma's update throws when the lead is gone.
Write(p) ==
    /\ pc[p] = "write"
    /\ LET l == req[p].id
           d == Written(p, lead[l])
       IN  IF Exists(l)
           THEN /\ lead' = [lead EXCEPT ![l] = d]
                /\ been' = [been EXCEPT ![l] = @ \cup {d.status}]
                /\ clock' = IF Stamped(p) THEN clock + 1 ELSE clock
           ELSE UNCHANGED <<lead, been, clock>>
    /\ Finish(p)
    /\ UNCHANGED <<leads, staff>>

Remove(p, l) ==
    /\ been[l] # {}
    /\ Begin(p, [NoRequest EXCEPT !.id = l], "exists")

CheckExists(p) ==
    /\ pc[p] = "exists"
    /\ IF Exists(req[p].id)
       THEN Goto(p, "delete") /\ UNCHANGED <<req, existing>>
       ELSE Finish(p)
    /\ UNCHANGED <<lead, leads, staff, been, clock>>

Delete(p) ==
    /\ pc[p] = "delete"
    /\ lead' = [lead EXCEPT ![req[p].id] = NoLead]
    /\ Finish(p)
    /\ UNCHANGED <<leads, staff, been, clock>>

\* adminUpdate with a role; the leads of a demoted agent are not touched.
SetRole(u) ==
    /\ RoleChanges
    /\ staff' = IF u \in staff THEN staff \ {u} ELSE staff \cup {u}
    /\ UNCHANGED <<lead, leads, been, clock, pc, req, existing>>

Abort(p) ==
    /\ MayFail
    /\ pc[p] # "idle"
    /\ Finish(p)
    /\ UNCHANGED <<lead, leads, staff, been, clock>>

-----------------------------------------------------------------------------
Arrive(p) ==
    \E l \in Leads :
        \/ \E h \in Properties \cup {Null} : Create(p, l, h)
        \/ \E s \in Asked \cup {None}, a \in Users \cup {None, Null} : Update(p, l, s, a)
        \/ Remove(p, l)

Step(p) == \/ CreateLead(p) \/ Bump(p)
           \/ Read(p) \/ CheckAgent(p) \/ Write(p)
           \/ CheckExists(p) \/ Delete(p)

Next == \/ \E p \in Handlers : Arrive(p) \/ Step(p) \/ Abort(p)
        \/ \E u \in Users : SetRole(u)

Spec == Init /\ [][Next]_vars
-----------------------------------------------------------------------------
\* A lead is won only if it has been in viewing or in negotiating, however updates
\* that read the same status race, fail or come late.
WonWasEarned ==
    \A l \in Leads : lead[l].status = "won" => been[l] \cap {"viewing", "negotiating"} # {}

\* A lead that has been contacted says when: no update that read it before its
\* first contact takes the date away, or moves it on without one.
ContactKnown ==
    \A l \in Leads : Exists(l) /\ "contacted" \in been[l] => lead[l].contactedAt > 0

\* However updates race, a lead takes no status that was not a legal move from one
\* it has had: a late update may bring an old status back, or leave a final one, but
\* it never skips the pipeline.
LegalMoves ==
    [][\A l \in Leads :
          Exists(l) /\ Exists(l)' =>
             lead'[l].status \in been[l] \cup UNION {TRANSITIONS[s] : s \in been[l]}]_vars
=============================================================================
