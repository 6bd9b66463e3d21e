------------------------- MODULE SingleUseSessions -------------------------
(***************************************************************************)
(* What TokenService promises about refresh tokens, with no stores and no  *)
(* handlers: a token in force buys at most one heir, and a token that has  *)
(* ended never comes back.                                                 *)
(***************************************************************************)
CONSTANT Pairs

VARIABLES
    alive,            \* tokens in a client's hands that would be accepted
    ended,            \* tokens that were alive and no longer are
    due               \* spent tokens whose heir has not reached the client

vars == <<alive, ended, due>>

Init == alive = {} /\ ended = {} /\ due = {}

Unused(j) == j \notin alive \cup ended

Start(j) == /\ Unused(j)
            /\ alive' = alive \cup {j}
            /\ UNCHANGED <<ended, due>>

Spend(i) == /\ i \in alive
            /\ alive' = alive \ {i}
            /\ ended' = ended \cup {i}
            /\ due' = due \cup {i}

Grant(i, j) == /\ i \in due /\ Unused(j)
               /\ alive' = alive \cup {j}
               /\ due' = due \ {i}
               /\ UNCHANGED ended

\* The answer is lost: the client holds nothing and logs in again.
Forfeit(i) == /\ i \in due
              /\ due' = due \ {i}
              /\ UNCHANGED <<alive, ended>>

End(S) == /\ S # {} /\ S \subseteq alive
          /\ alive' = alive \ S
          /\ ended' = ended \cup S
          /\ UNCHANGED due

Next == \/ \E i \in Pairs : Start(i) \/ Spend(i) \/ Forfeit(i)
        \/ \E i, j \in Pairs : Grant(i, j)
        \/ \E S \in SUBSET Pairs : End(S)

Spec == Init /\ [][Next]_vars
=============================================================================
