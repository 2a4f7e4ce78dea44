--------------------------- MODULE MCPlanRevision ---------------------------
(* TLC instances of PlanRevision. *)
EXTENDS PlanRevision, TLC

CONSTANTS a, d1, d2, work, ka, kb

SameWork == d1 :> work @@ d2 :> work
KeyTask == ka :> a
KeyTasks == KeyTask @@ kb :> a

\* Handlers are alike, and so are the two ids for the same work.
Symmetry == Permutations(Handlers) \cup Permutations(Discovered)
=============================================================================
