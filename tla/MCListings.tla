----------------------------- MODULE MCListings -----------------------------
(* Instances of Listings for TLC: the operations and the failures of a run. *)
EXTENDS Listings, TLC

OnlyOk      == {"ok"}
OkOrRefused == {"ok", "refused"}

SerialOps    == {"create", "update", "remove", "favourite", "unfavourite", "get"}
WriteOps     == {"create", "update", "remove", "favourite", "unfavourite"}
UpdateOps   == {"create", "update"}
CacheOps     == {"create", "update", "remove", "favourite", "get"}

\* Undone updates lose counts without end: the run follows two of them.
LittleDrift == \A l \in Listings : doc[l].favs \in -2..2

\* Sound for the safety runs: no expression singles out a value of these sets.
Symmetry == Permutations(Facts) \cup Permutations(Areas) \cup Permutations(Users)
              \cup Permutations(Handlers) \cup Permutations(Listings)
=============================================================================
