----------------------------- MODULE MCSessions -----------------------------
(* Instances of Sessions for TLC: which operations a run exercises. *)
EXTENDS Sessions, TLC

LifetimeOps == {"login", "refresh", "logout", "expire"}
LivenessOps == {"login", "refresh", "password", "deactivate", "activate"}
SerialOps   == {"login", "refresh", "logout", "password"}
RefreshOps  == {"login", "refresh"}

\* Sound for the safety runs: no expression singles out a pair, user or handler.
Symmetry == Permutations(Pairs) \cup Permutations(Handlers) \cup Permutations(Users)

\* One logout at a time, beside whatever else goes on.
OneLogout == Cardinality({p \in Handlers : req[p].op = "logout"}) <= 1
=============================================================================
