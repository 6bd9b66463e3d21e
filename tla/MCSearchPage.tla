---------------------------- MODULE MCSearchPage ----------------------------
(* An instance of SearchPage for TLC: what is found, and the addresses the   *)
(* page may be opened at. *)
EXTENDS SearchPage

\* Two pages of everything, one of villas, none of the villas that are typed for.
MCFound(q, types) ==
    IF types = <<"villa">> THEN IF q = "" THEN 1 ELSE 0
    ELSE IF q = "" THEN 2 ELSE 1

\* The bare page, a second page of what was typed, and a link with two types.
MCAddresses ==
    {[q |-> "",  types |-> <<>>, page |-> 0],
     [q |-> "a", types |-> <<>>, page |-> 2],
     [q |-> "",  types |-> <<"apartment", "villa">>, page |-> 0]}
=============================================================================
