------------------------- MODULE MCParallelExecutor -------------------------
(* TLC instances of ParallelExecutor. *)
EXTENDS ParallelExecutor

CONSTANTS a, b, c

\* The edges a plan may have, and the plan of some of the tasks.
Ordered == {<<a, b>>, <<a, c>>, <<b, c>>}
PlanWith(E, has) ==
    [status |-> [t \in Tasks |-> IF t \in has THEN "PENDING" ELSE "ABSENT"],
     edges |-> {e \in E : e[1] \in has /\ e[2] \in has},
     supersedes |-> [t \in Tasks |-> NoTask]]

\* Plans of a and b; c may be added.
SmallPlans == {PlanWith(E, {a, b}) : E \in {{}, {<<a, b>>}}}
=============================================================================
