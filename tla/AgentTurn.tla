----------------------------- MODULE AgentTurn -----------------------------
(***************************************************************************)
(* One turn of the agent of rag-svc, from the message to the answer: the   *)
(* guard, the router, the loop of rewriting, retrieving and grading, the   *)
(* tools and the generation.  The compiled graph, the sequential fallback  *)
(* and the streaming executor walk the same edges; what a turn stores      *)
(* afterwards is ChatTurns.                                                *)
(*                                                                         *)
(* A message is the part it plays, not its words.  A listing is the set of *)
(* the filters it fails, and the market the listings search-svc has.  The  *)
(* model is anybody's guess: it may route, grade, plan and fail as it      *)
(* likes.  Prompts, wording, locale and token counts are left out.         *)
(***************************************************************************)
EXTENDS Integers, Sequences, FiniteSets

CONSTANTS
    Markets,           \* what search-svc may have: sets of sets of failed filters
    Wishes,            \* the sets of filters a message, or the model, may name
    MaxTurns,          \* bounds the turns of the thread
    MaxPlanned,        \* bounds a plan; the code keeps the first three calls
    CallsMayBreak      \* the model, a tool's service or the memory may fail

MAX_ITERATIONS == 2
Filters == {"maxPrice", "bedrooms", "propertyType"}
Routes  == {"smalltalk", "knowledge", "listing_search", "web", "handoff"}
Tools   == {"search_listings", "get_property_details", "calculate_mortgage", "create_lead",
            "escalate_to_human", "web_search"}
\* "term": nothing but a new repayment term; "yes": a confirmation.
Messages == {"empty", "blocked", "yes", "sum", "term", "other"}

ASSUME AgentAssumption ==
    /\ Markets \subseteq SUBSET SUBSET Filters
    /\ Wishes \subseteq SUBSET Filters /\ {} \in Wishes
    /\ MaxTurns \in Nat /\ MaxPlanned \in 1..3 /\ CallsMayBreak \in BOOLEAN

VARIABLES
    agent,             \* GraphState, and the node the turn is at
    recall,            \* the buyer's profile: what was last done, a stated price, filters
    posted,            \* history: leads api-core stored for this turn
    turns

agentVars == <<agent, recall, posted, turns>>

Nodes   == {"load_memory", "guard", "classify", "rewrite_query", "retrieve", "grade_context",
            "call_tools", "run_tools", "generate", "persist"}
ToolOutcome == [tool : Tools, ok : BOOLEAN, asked : SUBSET Filters, market : SUBSET SUBSET Filters,
            without : Filters \cup {"none"}, shown : SUBSET SUBSET Filters]
\* Of the tools last used, whether one was the calculator.
Profile == [calculated : BOOLEAN, price : BOOLEAN, filters : SUBSET Filters]
Agent   == [at         : Nodes \cup {"idle"},
            streams    : BOOLEAN,
            online     : BOOLEAN,             \* a generation model is configured
            message    : Messages,
            history    : BOOLEAN,             \* the thread has earlier messages
            profile    : Profile,
            confirmed  : BOOLEAN,
            route      : Routes,
            iteration  : Nat,
            retrieved  : BOOLEAN,             \* until it is graded
            plan       : Seq(Tools),
            results    : SUBSET ToolOutcome,
            calls      : Nat,                 \* of the model
            answer     : {"none", "canned", "partial", "apology", "full"}]
NoProfile == [calculated |-> FALSE, price |-> FALSE, filters |-> {}]
NoAgent   == [at |-> "idle", streams |-> FALSE, online |-> FALSE, message |-> "other",
              history |-> FALSE, profile |-> NoProfile, confirmed |-> FALSE,
              route |-> "knowledge", iteration |-> 0, retrieved |-> FALSE, plan |-> <<>>, results |-> {}, calls |-> 0, answer |-> "none"]

AgentTypeOK ==
    /\ agent \in Agent
    \* However the router, the judge and the planner answer: one call to route, two in
    \* each loop, one to plan and one to answer.
    /\ agent.calls <= 2 * MAX_ITERATIONS + 3
    /\ recall \in Profile
    /\ posted \in 0..MaxPlanned
    /\ turns \in 0..MaxTurns

AgentInit == agent = NoAgent /\ recall = NoProfile /\ posted = 0 /\ turns = 0

-----------------------------------------------------------------------------
AtNode(node)       == agent.at = node
GoTo(node)     == agent' = [agent EXCEPT !.at = node]
Asking(a)      == [a EXCEPT !.calls = @ + 1]          \* one more call of the model
KeepThread     == UNCHANGED <<recall, turns>>
MayBreak       == {TRUE} \cup IF CallsMayBreak THEN {FALSE} ELSE {}
\* A plain financing question, or a new term after a calculation, for a known amount.
wants_mortgage_calculation(a, amount) ==
    /\ a.message = "sum" \/ (a.message = "term" /\ a.profile.calculated)
    /\ amount

\* initial_state
StartTurn(streams, online, message, history) ==
    /\ AtNode("idle") /\ turns < MaxTurns
    /\ turns = 0 => ~history
    /\ agent' = [NoAgent EXCEPT !.at = "load_memory", !.streams = streams, !.online = online,
                                !.message = message, !.history = history]
    /\ turns' = turns + 1 /\ posted' = 0
    /\ UNCHANGED recall

\* What the message states is folded into the profile that was loaded.
load_memory(names, filters) ==
    /\ AtNode("load_memory")
    /\ names => agent.message = "sum"
    /\ filters # {} => agent.message = "other"
    /\ agent' = [agent EXCEPT !.at = "guard", !.confirmed = agent.message = "yes",
                    !.profile = [recall EXCEPT !.filters = @ \cup filters,
                                               !.price = @ \/ names]]
    /\ UNCHANGED posted /\ KeepThread

guard ==
    /\ AtNode("guard")
    /\ agent' = IF agent.message \in {"empty", "blocked"}
                THEN [agent EXCEPT !.at = "persist", !.answer = "canned"]
                ELSE [agent EXCEPT !.at = "classify"]
    /\ UNCHANGED posted /\ KeepThread

\* The route is the model's verdict, or the keywords' when it fails or is not there.
AfterRoute(a, route) ==
    IF route = "smalltalk" THEN "generate"
    ELSE IF route = "knowledge" /\ ~wants_mortgage_calculation(a, a.profile.price)
         THEN "rewrite_query" ELSE "call_tools"
classify(route) ==
    /\ AtNode("classify")
    /\ LET a == IF agent.online THEN Asking(agent) ELSE agent
       IN  agent' = [a EXCEPT !.route = route, !.at = AfterRoute(a, route)]
    /\ UNCHANGED posted /\ KeepThread

rewrite_query ==
    /\ AtNode("rewrite_query")
    /\ LET a == IF agent.online /\ agent.history THEN Asking(agent) ELSE agent
       IN  agent' = [a EXCEPT !.at = "retrieve"]
    /\ UNCHANGED posted /\ KeepThread

retrieve(found) ==
    /\ AtNode("retrieve")
    /\ agent' = [agent EXCEPT !.at = "grade_context", !.retrieved = found, !.iteration = @ + 1]
    /\ UNCHANGED posted /\ KeepThread

AfterGrade(a, sufficient) ==
    IF sufficient THEN "generate"
    ELSE IF a.iteration < MAX_ITERATIONS THEN "rewrite_query" ELSE "call_tools"

\* Nothing retrieved is not enough; without a judge, something is.
grade_context(verdict) ==
    /\ AtNode("grade_context")
    /\ LET judged == agent.retrieved /\ agent.online
           a == IF judged THEN Asking(agent) ELSE agent
           sufficient == agent.retrieved /\ (~judged \/ verdict)
       IN  agent' = [a EXCEPT !.at = AfterGrade(a, sufficient), !.retrieved = FALSE]
    /\ UNCHANGED posted /\ KeepThread

-----------------------------------------------------------------------------
(* call_tools: one plan, then its calls one by one *)

ROUTE_TOOLS == [r \in Routes |->
    CASE r = "smalltalk"      -> {}
      [] r = "knowledge"      -> {"search_listings", "get_property_details", "calculate_mortgage"}
      [] r = "listing_search" -> {"search_listings", "get_property_details", "calculate_mortgage",
                                  "create_lead"}
      [] r = "web"            -> {"web_search"}
      [] r = "handoff"        -> {"escalate_to_human", "create_lead"}]

DefaultToolCalls(a) ==
    CASE a.route = "listing_search" -> <<"search_listings">>
      [] a.route = "knowledge" ->
            IF wants_mortgage_calculation(a, a.profile.price \/ "maxPrice" \in a.profile.filters)
            THEN <<"calculate_mortgage">> ELSE <<>>
      [] a.route = "web"     -> <<"web_search">>
      [] a.route = "handoff" -> <<"escalate_to_human">>
      [] OTHER               -> <<>>

\* The model's plan keeps the calls of this route's tools; none is the default's turn.
PlanToolCalls(plan) ==
    /\ AtNode("call_tools")
    /\ LET a == IF agent.online THEN Asking(agent) ELSE agent
           chosen == IF agent.online /\ plan # <<>> THEN plan ELSE DefaultToolCalls(agent)
       IN  /\ \A i \in DOMAIN plan : agent.online /\ plan[i] \in ROUTE_TOOLS[agent.route]
           /\ agent' = [a EXCEPT !.at = "run_tools", !.plan = chosen,
                 !.profile.calculated = \E i \in DOMAIN chosen : chosen[i] = "calculate_mortgage"]
    /\ UNCHANGED posted /\ KeepThread

Matches(market, asked) == {fails \in market : fails \cap asked = {}}
Widening == <<"maxPrice", "bedrooms", "propertyType">>

\* Mutant: each widening starts from the last one.
WidenFurther(market, asked) ==
    LET Wider(i) == asked \ {Widening[j] : j \in 1..i}
        found == {i \in 1..3 : Widening[i] \in asked /\ Matches(market, Wider(i)) # {}}
        first == CHOOSE i \in found : \A j \in found : i <= j
    IN  IF Matches(market, asked) # {} THEN [without |-> "none", shown |-> Matches(market, asked)]
        ELSE IF found = {} THEN [without |-> "none", shown |-> {}]
        ELSE [without |-> Widening[first], shown |-> Matches(market, Wider(first))]

\* SearchListingsTool: when nothing matches, one filter is dropped at a time.
Widen(market, asked) ==
    LET found == {i \in 1..3 : /\ Widening[i] \in asked
                               /\ Matches(market, asked \ {Widening[i]}) # {}}
        first == CHOOSE i \in found : \A j \in found : i <= j
    IN  IF Matches(market, asked) # {} THEN [without |-> "none", shown |-> Matches(market, asked)]
        ELSE IF found = {} THEN [without |-> "none", shown |-> {}]
        ELSE [without |-> Widening[first], shown |-> Matches(market, asked \ {Widening[first]})]

Plain(tool, ok) == [tool |-> tool, ok |-> ok, asked |-> {}, market |-> {}, without |-> "none",
                    shown |-> {}]
Done(result) == agent' = [agent EXCEPT !.plan = Tail(@), !.results = @ \cup {result}]
Due(tool)    == AtNode("run_tools") /\ agent.plan # <<>> /\ Head(agent.plan) = tool

\* The default plan searches by what the buyer said so far; the model by what it likes.
search_listings(market, asked) ==
    /\ Due("search_listings")
    /\ ~agent.online => asked = agent.profile.filters
    /\ \E ok \in MayBreak :
          IF ~ok THEN Done(Plain("search_listings", FALSE))
          ELSE LET w == Widen(market, asked)
               IN  Done([tool |-> "search_listings", ok |-> TRUE, asked |-> asked,
                         market |-> market, without |-> w.without, shown |-> w.shown])
    /\ UNCHANGED posted /\ KeepThread

\* Unknown listings, refused arguments, services that do not answer: a failed result.
ask_service(tool) ==
    /\ tool \in {"get_property_details", "calculate_mortgage"}
    /\ Due(tool)
    /\ \E ok \in MayBreak : Done(Plain(tool, ok))
    /\ UNCHANGED posted /\ KeepThread

web_search ==
    /\ Due("web_search")
    /\ \E ok \in IF agent.online THEN MayBreak ELSE {FALSE} : Done(Plain("web_search", ok))
    /\ UNCHANGED posted /\ KeepThread

escalate_to_human ==
    /\ Due("escalate_to_human")
    /\ Done(Plain("escalate_to_human", TRUE))
    /\ UNCHANGED posted /\ KeepThread

\* A lead whose answer does not come in time is reported as failed, and may be stored.
create_lead ==
    /\ Due("create_lead")
    /\ \/ ~agent.confirmed /\ Done(Plain("create_lead", FALSE)) /\ UNCHANGED posted
       \/ agent.confirmed /\ Done(Plain("create_lead", TRUE)) /\ posted' = posted + 1
       \/ /\ agent.confirmed /\ CallsMayBreak
          /\ Done(Plain("create_lead", FALSE))
          /\ posted' \in {posted, posted + 1}
    /\ KeepThread

ToolsDone ==
    /\ AtNode("run_tools") /\ agent.plan = <<>>
    /\ GoTo("generate")
    /\ UNCHANGED posted /\ KeepThread

-----------------------------------------------------------------------------
\* A reply that breaks is an apology, a stream that breaks is what was sent of it.
generate ==
    /\ AtNode("generate")
    /\ LET a == IF agent.online THEN Asking(agent) ELSE agent
       IN  \E ok \in IF agent.online THEN MayBreak ELSE {TRUE} :
              agent' = [a EXCEPT !.at = "persist",
                           !.answer = IF ok THEN "full"
                                      ELSE IF agent.streams THEN "partial" ELSE "apology"]
    /\ UNCHANGED posted /\ KeepThread

\* _persist: of what it stores, the profile.
persist ==
    /\ AtNode("persist")
    /\ agent' = NoAgent /\ posted' = 0
    /\ recall' \in {agent.profile} \cup IF CallsMayBreak THEN {recall} ELSE {}
    /\ UNCHANGED turns

\* A memory that does not load ends the turn, and so does a client that leaves.
Abandon ==
    /\ CallsMayBreak
    /\ AtNode("load_memory") \/ (agent.streams /\ ~AtNode("idle"))
    /\ agent' = NoAgent /\ posted' = 0
    /\ UNCHANGED <<recall, turns>>

AgentNext ==
    \/ \E streams, online, history \in BOOLEAN, message \in Messages :
          StartTurn(streams, online, message, history)
    \/ \E names \in BOOLEAN, filters \in Wishes : load_memory(names, filters)
    \/ \E b \in BOOLEAN : retrieve(b) \/ grade_context(b)
    \/ guard \/ rewrite_query
    \/ \E r \in Routes : classify(r)
    \/ \E n \in 0..MaxPlanned : \E plan \in [1..n -> Tools] : PlanToolCalls(plan)
    \/ \E market \in Markets, asked \in Wishes : search_listings(market, asked)
    \/ \E tool \in Tools : ask_service(tool)
    \/ web_search \/ escalate_to_human \/ create_lead \/ ToolsDone
    \/ generate \/ persist \/ Abandon

AgentSpec == AgentInit /\ [][AgentNext]_agentVars
-----------------------------------------------------------------------------
(* What a turn promises *)

\* What the tools tell the model is so: a listing shown as a match fails none of the
\* filters, one shown as close fails only the one that is named, "nothing at all" means
\* that dropping any one filter would not have helped; a lead reported as recorded is
\* stored, and none is stored in a turn that was not a confirmation.
ToolsAreHonest ==
    /\ \A r \in agent.results : r.tool = "search_listings" /\ r.ok =>
          /\ \A fails \in r.shown : fails \cap r.asked \subseteq {r.without}
          /\ r.shown = {} => \A f \in Filters : Matches(r.market, r.asked \ {f}) = {}
    /\ (\E r \in agent.results : r.tool = "create_lead" /\ r.ok) => posted > 0
    /\ posted > 0 => agent.message = "yes"
=============================================================================
