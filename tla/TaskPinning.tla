---------------------------- MODULE TaskPinning -----------------------------
(***************************************************************************)
(* How the ADK plugin (adapters/_adk_plugin.py) finds the task an agent    *)
(* works on.  The model supplies no task ids: a delegation pins a task     *)
(* before it is dispatched, and the turn it starts pins one again by a     *)
(* ladder of weaker and weaker signals.                                    *)
(*                                                                         *)
(* Scores of arguments against titles, stems of names and sets of tools    *)
(* are left open: such a rung yields any of its candidates, or none.  A    *)
(* rung is the set of its possible results, NoTask being none.             *)
(***************************************************************************)
EXTENDS PlanGraph

CONSTANTS
    Reasoned,      \* Reasoned[a]: the task a's reasoning was bound to, or NoTask
    Corrections,   \* pairs of an agent and a task with a pending correction
    BareName       \* BareName[a]: the other form of a's name, or a itself

\* The next rung, where the one before has no result.
Else(rung, next) == (rung \ {NoTask}) \cup (IF NoTask \in rung THEN next ELSE {})

Only(S) == IF Cardinality(S) = 1 THEN S ELSE {NoTask}

\* _score_candidates_by_args: a best one, or a tie.
Scored(S) == IF S = {} THEN {NoTask} ELSE S \cup {NoTask}

\* _candidates_for_agent
Candidates(p, owner, a) == {t \in Ids(p) : owner[t] = a /\ p.status[t] \in {"PENDING", "RUNNING"}}

\* _filter_dag_ready
DagReady(p, owner, a) == {t \in Candidates(p, owner, a) : UpstreamReady(p, t)}

\* The rungs for one form of the name: the single ready task, the best ready
\* one, and then without the dependencies.
ByAssignee(p, owner, a) ==
    LET ready == DagReady(p, owner, a)
        open == Candidates(p, owner, a)
    IN  Else(Only(ready), Else(Scored(ready), Else(Only(open), Scored(open))))

\* Rung 1: a pin of pending_delegations, whoever it was meant for.
FromDelegation(p, owner, a, pinned) ==
    LET mine == pinned \cap Candidates(p, owner, a)
    IN  IF mine = {} THEN {NoTask} ELSE mine

\* _task_from_parent_pin_downstream
FromParent(p, owner, a, parentPin) ==
    LET next == {t \in Candidates(p, owner, a) : <<parentPin, t>> \in p.edges}
    IN  Else(Only(next), Scored(next))

Open(p, t) == t \in Ids(p) /\ p.status[t] \in {"PENDING", "RUNNING"}

\* _task_from_reasoning_binding
FromReasoning(p, a) == {IF Reasoned[a] \in Tasks /\ Open(p, Reasoned[a]) THEN Reasoned[a] ELSE NoTask}

\* _task_from_pending_correction
FromCorrection(p, a) ==
    LET due == {t \in Tasks : <<a, t>> \in Corrections /\ Open(p, t)}
    IN  IF due = {} THEN {NoTask} ELSE due

\* _alternate_agent_name_form
FromBareName(p, owner, a) ==
    IF BareName[a] = a THEN {NoTask} ELSE ByAssignee(p, owner, BareName[a])

\* _low_confidence_best_guess
BestGuess(p, owner, a) ==
    LET open == Candidates(p, owner, a) IN IF open = {} THEN {NoTask} ELSE open

\* _pin_current_task_id_for_agent
Ladder(p, owner, a, pinned, parentPin) ==
    Else(FromDelegation(p, owner, a, pinned),
    Else(ByAssignee(p, owner, a),
    Else(FromParent(p, owner, a, parentPin),
    Else(FromReasoning(p, a),
    Else(FromCorrection(p, a),
    Else(FromBareName(p, owner, a), BestGuess(p, owner, a)))))))

\* The candidates of _maybe_pin_delegation_task, whoever they are assigned to,
\* and its choice without growth: there is one as soon as there is a candidate.
Eligible(p) == {t \in Tasks : Pickable(p, t)}
DelegationChoice(p) == IF Eligible(p) = {} THEN {NoTask} ELSE Eligible(p)

\* With growth, a planned task the agent's tools or name point to; NoTask asks
\* for a new task.
GrowthChoice(p, discovered) == Scored(Eligible(p) \ discovered)

\* _pin_delegation_task_id: the pin kept for one function call.
CallChoice(p, owner, a) ==
    LET ready == {t \in Candidates(p, owner, a) : \A u \in Preds(p, t) : p.status[u] = "COMPLETED"}
    IN  Else(Only(ready), Scored(ready))

\* _maybe_redirect_completed_agent: all of the agent's tasks are finished, and
\* the first task that can start, which may be any here, is another agent's.
Redirects(p, owner, a) ==
    LET mine == {t \in Ids(p) : owner[t] = a}
        done == mine # {} /\ \A t \in mine : p.status[t] \in Terminal
    IN  IF Eligible(p) = {} THEN {FALSE} ELSE {done /\ owner[t] # a : t \in Eligible(p)}
=============================================================================
