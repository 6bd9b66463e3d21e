---------------------------- MODULE MCRetrieval ----------------------------
(* An instance of Retrieval for TLC: what the documents say, and what is     *)
(* asked. *)
EXTENDS Retrieval

CONSTANTS d1, d2, d3

MCLoaded == <<d1, d2, d3>>

Million == 1000000

\* A flat whose price goes up, a dear villa, and an answer to a common question.
MCFacts(d, v) ==
    [listing |-> d # d3,
     price   |-> IF d = d1 THEN (4 + 2 * v) * Million ELSE IF d = d2 THEN 12 * Million ELSE 0,
     type    |-> IF d = d2 THEN "villa" ELSE "apartment"]

MCVersions == [d \in Docs |-> IF d = d1 THEN 2 ELSE 1]

MCWords(q) == IF q.type = Missing THEN {d1, d2, d3} ELSE {d1, d3}

Figure(n, u) == [num |-> n, unit |-> u, sqm |-> FALSE]
Plain == [low |-> Missing, high |-> Missing, below |-> <<>>, above |-> <<>>, budget |-> Missing,
          type |-> Missing]

\* "Apartments over 9 million and under 5",
\* "under 200 square metres, a budget of 7 million".
MCQuestions ==
    {[Plain EXCEPT !.above = <<Figure(9, "m")>>, !.below = <<Figure(5, "m")>>,
                   !.type = "apartment"],
     [Plain EXCEPT !.below = <<[num |-> 200, unit |-> "", sqm |-> TRUE]>>,
                   !.budget = Figure(7, "m")]}
=============================================================================
