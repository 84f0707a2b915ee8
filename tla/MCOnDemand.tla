----------------------------- MODULE MCOnDemand -----------------------------
(* Values for model checking OnDemand: one row, and process incarnations of  *)
(* which the first and the last share a PID number.                          *)
EXTENDS OnDemand, TLC

CONSTANTS m1, r1, r2, r3, s1, o1, p1, p2, p3

MCModels   == {m1}
MCPort     == (m1 :> 8081)
MCProcs    == {p1, p2, p3}
MCTwoProcs == {p1, p2}
MCPid      == (p1 :> 1) @@ (p2 :> 2) @@ (p3 :> 1)
MCPidOfTwo == (p1 :> 1) @@ (p2 :> 2)
MCThreads  == Requests \cup Sweepers \cup Operators
\* p1 and p3 differ in nothing but their names.
Symmetry   == Permutations(Requests) \cup Permutations({p1, p3})
=============================================================================
