-------------------------- MODULE RunnerAndPlanner --------------------------
(***************************************************************************)
(* The turns of conversations, and the planning in the session of a turn.  *)
(* A turn sees of the planner whether it got a plan and whether the plan   *)
(* was installed, and the planner sees of the runner one session's plan,   *)
(* so a behaviour here follows one of them.                                *)
(***************************************************************************)
EXTENDS Turns, Planner

VARIABLE followed    \* the one this behaviour follows

vars == <<followed, turns, queue, convos, current, announced, anchor, closed, closing,
          plan, call>>

Init ==
    /\ TurnsInit /\ PlannerInit
    /\ followed \in {"turns", "planner"}
    /\ followed = "turns" => plan = NoTasks

Next ==
    /\ UNCHANGED followed
    /\ \/ followed = "turns" /\ TurnsNext /\ UNCHANGED plannerVars
       \/ followed = "planner" /\ PlannerNext /\ UNCHANGED turnVars

Spec == Init /\ [][Next]_vars
=============================================================================
