------------------------------ MODULE GoalJudge -----------------------------
(***************************************************************************)
(* The judges of progress in drift_observer.py and drift/goals.py.  The    *)
(* goal judge runs in the background, as many at a time as were spawned,   *)
(* and its verdict is about a plan that moves on while the model thinks.   *)
(* The reflective check runs within the observed call, every so many calls *)
(* of the model on one task.                                               *)
(***************************************************************************)
EXTENDS Naturals, Sequences, FiniteSets

CONSTANTS
    PlanSteps, NoStep,     \* the tasks of the plan, and none
    ReflectInterval,   \* _reflective_check_interval
    Graduated,         \* ledger mode: the verdict has a band
    MaxGoalJudges,     \* bound on the goal judges spawned
    MaxMoves           \* bound on the changes of the plan

ASSUME GoalAssumption ==
    /\ NoStep \notin PlanSteps /\ ReflectInterval \in Nat \ {0} /\ Graduated \in BOOLEAN
    /\ MaxGoalJudges \in Nat /\ MaxMoves \in Nat

VARIABLES
    trajectory,   \* the statuses and the revision_index of session.plan
    moves,        \* how many changes it has seen
    focus,        \* session.current_task_id
    goalJudges,   \* the background tasks and what they were asked about
    reflected,    \* _reflective_check_task_id, _llm_calls_since_check
    reflecting,   \* the tasks reflective checks are waiting for an answer about
    goalDrift     \* the last GOAL_DRIFT: who raised it and the task it names

goals == <<trajectory, moves, focus, goalJudges, reflected, reflecting, goalDrift>>

NoDrift == [judge |-> 0, names |-> NoStep, severity |-> "none"]

GoalInit ==
    /\ trajectory = [rev |-> 0, status |-> [t \in PlanSteps |-> "PENDING"]]
    /\ moves = 0 /\ focus = NoStep /\ goalJudges = <<>>
    /\ reflected = [task |-> NoStep, calls |-> 0] /\ reflecting = {}
    /\ goalDrift = NoDrift

\* _spawn_goal_drift_judge_background: after some turns, at a task boundary or
\* when the agent is idle (StallWatchdog has the counters).
SpawnGoalJudge ==
    /\ Len(goalJudges) < MaxGoalJudges
    /\ goalJudges' = Append(goalJudges, [pc |-> "spawned", about |-> trajectory])
    /\ UNCHANGED <<trajectory, moves, focus, reflected, reflecting, goalDrift>>

\* classify_goal_drift up to the call of the model: revision and statuses as they
\* are now.
AskGoal(j) ==
    /\ goalJudges[j].pc = "spawned"
    /\ goalJudges' = [goalJudges EXCEPT ![j] = [pc |-> "asking", about |-> trajectory]]
    /\ UNCHANGED <<trajectory, moves, focus, reflected, reflecting, goalDrift>>

\* A verdict that names a task stands unless that task's status has changed; one
\* that names none stands only if nothing has.
GoalVerdictStale(j, names) ==
    IF names \in PlanSteps THEN trajectory.status[names] # goalJudges[j].about.status[names]
    ELSE trajectory # goalJudges[j].about

\* _GRADUATED_BAND_SEVERITY; a band that is missing or unknown is critical.
GoalSeverities == IF Graduated THEN {"info", "warning", "critical"} ELSE {"critical"}

\* The answer is that the agents do not make progress.  handle_drift follows.
GoalNotProgressing(j, names, severity) ==
    /\ goalJudges[j].pc = "asking" /\ ~GoalVerdictStale(j, names)
    /\ goalDrift' = [judge |-> j, names |-> names, severity |-> severity]
    /\ goalJudges' = [goalJudges EXCEPT ![j].pc = "done"]
    /\ UNCHANGED <<trajectory, moves, focus, reflected, reflecting>>

\* Progress, a stale verdict, a failed call or an answer that says neither: there
\* is no drift.
GoalNoDrift(j) ==
    /\ goalJudges[j].pc = "asking"
    /\ goalJudges' = [goalJudges EXCEPT ![j].pc = "done"]
    /\ UNCHANGED <<trajectory, moves, focus, reflected, reflecting, goalDrift>>

-----------------------------------------------------------------------------

\* note_llm_call: calls are counted for the task they are made under; the count
\* starts over when that changes and when a check begins.
CountedCalls == IF focus = reflected.task THEN reflected.calls + 1 ELSE 1

NoteLlmCall ==
    LET due == CountedCalls >= ReflectInterval
    IN  /\ reflected' = [task |-> focus, calls |-> IF due THEN 0 ELSE CountedCalls]
        /\ reflecting' = IF due /\ focus # NoStep THEN reflecting \cup {focus} ELSE reflecting
        /\ UNCHANGED <<trajectory, moves, focus, goalJudges, goalDrift>>

\* maybe_run_reflective_check gets its answer: stuck, unsure, fine, or nothing that
\* can be used.  The drift is announced for the task the check began with.
ReflectiveAnswer(t) ==
    /\ t \in reflecting /\ reflecting' = reflecting \ {t}
    /\ UNCHANGED <<trajectory, moves, focus, goalJudges, reflected, goalDrift>>

-----------------------------------------------------------------------------

StepFinishes(t) ==
    /\ moves < MaxMoves /\ moves' = moves + 1
    /\ trajectory.status[t] = "PENDING"
    /\ trajectory' = [trajectory EXCEPT !.status[t] = "COMPLETED"]
    /\ UNCHANGED <<focus, goalJudges, reflected, reflecting, goalDrift>>

\* A revision keeps the statuses it finds and raises the index.
PlanIsRevised ==
    /\ moves < MaxMoves /\ moves' = moves + 1
    /\ trajectory' = [trajectory EXCEPT !.rev = @ + 1]
    /\ UNCHANGED <<focus, goalJudges, reflected, reflecting, goalDrift>>

FocusMoves(t) ==
    /\ t # focus /\ focus' = t
    /\ UNCHANGED <<trajectory, moves, goalJudges, reflected, reflecting, goalDrift>>

GoalNext ==
    \/ SpawnGoalJudge \/ PlanIsRevised
    \/ \E j \in DOMAIN goalJudges :
          \/ AskGoal(j) \/ GoalNoDrift(j)
          \/ \E names \in PlanSteps \cup {NoStep}, severity \in GoalSeverities :
                GoalNotProgressing(j, names, severity)
    \/ \E t \in PlanSteps : StepFinishes(t)

ReflectNext ==
    \/ NoteLlmCall
    \/ \E t \in PlanSteps : ReflectiveAnswer(t)
    \/ \E t \in PlanSteps \cup {NoStep} : FocusMoves(t)

-----------------------------------------------------------------------------
(***************************************************************************)
(* Properties.                                                             *)
(***************************************************************************)

\* A task that was finished while the goal judge was thinking is never blamed:
\* the drift names a task only if that task was as open, or as finished, when the
\* model was asked, and if it names none the run has not moved at all.
GoalDriftIsFresh ==
    [][goalDrift' # goalDrift =>
          LET about == goalJudges[goalDrift'.judge].about
              done == {t \in PlanSteps : trajectory.status[t] = "COMPLETED"}
              doneThen == {t \in PlanSteps : about.status[t] = "COMPLETED"}
          IN  IF goalDrift'.names = NoStep THEN done = doneThen /\ about.rev = trajectory.rev
              ELSE goalDrift'.names \notin done \ doneThen]_goals
=============================================================================
