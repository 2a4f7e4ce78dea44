----------------------------- MODULE PlanGraph ------------------------------
(***************************************************************************)
(* The algorithms on a plan that the executors share: Plan.validate,       *)
(* Plan.topological_stages and task_upstream_ready of types.py, and the    *)
(* reachability helpers of executors/sequential.py.                        *)
(*                                                                         *)
(* A plan is a record: its statuses (a function on all task ids, "ABSENT"  *)
(* for those it does not have), its edges (a set of pairs) and, for each   *)
(* task, the task it supersedes (NoTask for none).                         *)
(***************************************************************************)
EXTENDS Naturals, FiniteSets

CONSTANTS Tasks, NoTask

ASSUME NoTaskAssumption == NoTask \notin Tasks

Terminal == {"COMPLETED", "FAILED", "CANCELLED", "NOT_NEEDED"}
Live == {"PENDING", "RUNNING", "BLOCKED"}
Status == {"ABSENT"} \cup Live \cup Terminal
Dead == Terminal \ {"COMPLETED"}

Plans == [status : [Tasks -> Status], edges : SUBSET (Tasks \X Tasks),
          supersedes : [Tasks -> Tasks \cup {NoTask}]]

Ids(p) == {t \in Tasks : p.status[t] # "ABSENT"}
Preds(p, t) == {e[1] : e \in {f \in p.edges : f[2] = t}}
WithStatus(p, t, to) == [p EXCEPT !.status[t] = to]

\* The tasks reachable from S along the edges E, S included.
Reach(E, S) ==
    {u \in Tasks : \A C \in SUBSET Tasks :
        S \subseteq C /\ (\A e \in E : e[1] \in C => e[2] \in C) => u \in C}

\* mark_task_cancelled and a fatal mark_task_failed, with the cascade, which
\* goes through live tasks only.
LiveReach(p, S) ==
    Reach({e \in p.edges : p.status[e[1]] \in Live /\ p.status[e[2]] \in Live}, S)
WithCascade(p, t, to) ==
    [p EXCEPT !.status = [u \in Tasks |->
        IF u = t THEN to
        ELSE IF u \in LiveReach(p, {t}) THEN "CANCELLED" ELSE p.status[u]]]

-----------------------------------------------------------------------------
(***************************************************************************)
(* topological_stages: Kahn's algorithm.                                   *)
(***************************************************************************)

\* Mutant: a task is placed with the first of its predecessors.
PlacedEarly(p, n) ==
    LET placed[k \in 0 .. n] ==
            IF k = 0 THEN {t \in Ids(p) : Preds(p, t) = {}}
            ELSE placed[k - 1] \cup {t \in Ids(p) : Preds(p, t) \cap placed[k - 1] # {}}
    IN  placed[n]

\* The tasks of the stages 0 .. n: a task is placed in the first stage that
\* comes after those of all its predecessors.
Placed(p, n) ==
    LET placed[k \in 0 .. n] ==
            IF k = 0 THEN {t \in Ids(p) : Preds(p, t) = {}}
            ELSE placed[k - 1] \cup {t \in Ids(p) : Preds(p, t) \subseteq placed[k - 1]}
    IN  placed[n]

\* The stage with number n.  The tasks that are never placed, those on a cycle
\* or behind one, are the last stage.
LastStage == Cardinality(Tasks)
Stage(p, n) ==
    IF n = 0 THEN Placed(p, 0)
    ELSE IF n < LastStage THEN Placed(p, n) \ Placed(p, n - 1)
    ELSE Ids(p) \ Placed(p, LastStage - 1)

Acyclic(p) == Placed(p, LastStage) = Ids(p)

-----------------------------------------------------------------------------
(***************************************************************************)
(* validate.  Task ids are unique and not empty by the shape of a plan.    *)
(***************************************************************************)

\* Checks 3 and 4: edges between tasks of the plan, and no cycle.
Structure(p) ==
    /\ \A e \in p.edges : e[1] \in Ids(p) /\ e[2] \in Ids(p)
    /\ Acyclic(p)

\* Check 5, for a plan that is created.
AllPending(p) == \A t \in Ids(p) : p.status[t] = "PENDING"

\* Check 6: what is finished in the prior plan, and the edges between finished
\* tasks, are kept.
KeepsTerminal(p, prior) ==
    /\ \A t \in Tasks : prior.status[t] \in Terminal => p.status[t] = prior.status[t]
    /\ \A e \in prior.edges :
          prior.status[e[1]] \in Terminal /\ prior.status[e[2]] \in Terminal => e \in p.edges

\* Check 7: no pending task waits for one that can never complete.
NoGraft(p) ==
    \A e \in p.edges : p.status[e[1]] \in Dead => p.status[e[2]] # "PENDING"

\* Check 8: what a task supersedes is known, and neither the task itself nor
\* one that supersedes it; if it was not finished, either it waits for the new
\* task or the tasks that waited for it do.
Corrective(p, prior) ==
    \A x \in Ids(p) :
        LET y == p.supersedes[x]
        IN  y # NoTask =>
              /\ y # x
              /\ y \in Ids(prior) \cup Ids(p)
              /\ y \in Ids(p) => p.supersedes[y] # x
              /\ prior.status[y] \in Live /\ p.status[y] \notin Terminal =>
                   \/ p.status[y] = "PENDING" /\ <<x, y>> \in p.edges
                   \/ \A e \in prior.edges :
                         e[1] = y /\ p.status[e[2]] \in Live => <<x, e[2]>> \in p.edges

ValidCreation(p) == Structure(p) /\ AllPending(p) /\ NoGraft(p)
ValidRevision(p, prior) ==
    Structure(p) /\ KeepsTerminal(p, prior) /\ NoGraft(p) /\ Corrective(p, prior)

-----------------------------------------------------------------------------
(***************************************************************************)
(* Readiness and reachability.                                             *)
(***************************************************************************)

\* _pick_next_task of the sequential executor.
Pickable(p, t) ==
    p.status[t] = "PENDING" /\ \A u \in Preds(p, t) : p.status[u] = "COMPLETED"

\* task_upstream_ready: for a predecessor that was superseded, its replacement
\* counts, and of several the one the plan lists last, which may be any here.
UpstreamReady(p, t) ==
    \A u \in Preds(p, t) :
        /\ p.status[u] # "ABSENT"
        /\ LET by == {r \in Ids(p) : p.supersedes[r] = u}
           IN  IF by = {} THEN p.status[u] = "COMPLETED"
               ELSE \E r \in by : p.status[r] = "COMPLETED"

\* _has_live_replacement: a task that supersedes t, directly or through others,
\* and neither failed nor is cancelled.
Superseders(p, t) ==
    Reach({<<p.supersedes[r], r>> : r \in {q \in Ids(p) : p.supersedes[q] # NoTask}}, {t}) \ {t}
Replaced(p, t) ==
    \E r \in Superseders(p, t) : p.status[r] \notin {"ABSENT", "FAILED", "CANCELLED"}

\* _fatally_failed_task_ids
FatallyFailed(p) == {t \in Tasks : p.status[t] = "FAILED" /\ ~Replaced(p, t)}

\* _unreachable_pending_task_ids: from the broken tasks, through pending ones.
Unreachable(p) ==
    LET broken == {t \in Ids(p) : p.status[t] \in Dead /\
                                  ~(p.status[t] = "FAILED" /\ Replaced(p, t))}
    IN  Reach({e \in p.edges : p.status[e[2]] = "PENDING"}, broken) \ broken
=============================================================================
