------------------------------ MODULE MCMarket ------------------------------
(* The enquiries of api-core, the rate limiters, the finance of reports-svc, *)
(* the web client and the retrieval of rag-svc, for TLC: they share no       *)
(* state, and a behaviour is a behaviour of one of them.                     *)
EXTENDS Leads, RateLimits, Finance, WebClient, WebQueries, ChatWidget, MCSearchPage,
        MCRetrieval, TLC

CONSTANTS p1, p2, f1, f2

\* One way through the pipeline.
Shortcuts == {"contacted", "viewing", "won"}

\* Two handlers, two people: the parts share no state, and so may share the names.
MCPair   == {p1, p2}
MCProps  == {f1, f2}
Symmetry == Permutations(MCPair)

VARIABLE part

Fields == {"leads", "limits", "finance", "web", "queries", "chat", "page", "retrieval"}

\* The states of the others' choices at the start are one.
MarketInit ==
    /\ part \in Fields
    /\ Init /\ RateInit /\ FinanceInit /\ WebInit /\ QueriesInit
    /\ WidgetInit /\ SearchPageInit /\ RetrievalInit
    /\ part # "limits"    => algorithm = "fixed"
    /\ part # "web"       => saved = [who \in People |-> {}]
    /\ part # "queries"   => space = "search" /\ user = Stranger
    /\ part # "retrieval" => takes

Others(name, variables) == IF part = name THEN TRUE ELSE UNCHANGED variables
Only(name) ==
    /\ part = name /\ UNCHANGED part
    /\ Others("leads", vars)
    /\ Others("limits", rateVars) /\ Others("finance", financeVars)
    /\ Others("web", webVars) /\ Others("queries", queriesVars)
    /\ Others("chat", widgetVars) /\ Others("page", searchPageVars)
    /\ Others("retrieval", retrievalVars)

MarketNext ==
    \/ Only("leads") /\ Next
    \/ Only("limits") /\ RateNext
    \/ Only("finance") /\ FinanceNext
    \/ Only("web") /\ WebNext
    \/ Only("queries") /\ QueriesNext
    \/ Only("chat") /\ WidgetNext
    \/ Only("page") /\ SearchPageNext
    \/ Only("retrieval") /\ RetrievalNext

MarketSpec == MarketInit /\ [][MarketNext]_<<part, vars, rateVars, financeVars,
                                             webVars, queriesVars,
                                             widgetVars, searchPageVars, retrievalVars>>

\* Every part keeps to the states its module declares.
MarketTypesOK ==
    /\ part = "leads"     => TypeOK
    /\ part = "limits"    => RateTypeOK
    /\ part = "finance"   => FinanceTypeOK
    /\ part = "web"       => WebTypeOK
    /\ part = "queries"   => QueriesTypeOK
    /\ part = "chat"      => WidgetTypeOK
    /\ part = "page"      => SearchPageTypeOK
    /\ part = "retrieval" => RetrievalTypeOK
=============================================================================
