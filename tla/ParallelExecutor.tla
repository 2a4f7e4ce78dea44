-------------------------- MODULE ParallelExecutor ---------------------------
(***************************************************************************)
(* ParallelDAGExecutor (executors/parallel.py): it walks the stages of the *)
(* plan, runs the tasks of a stage next to each other under a semaphore,   *)
(* listens to the control channel meanwhile, folds the results into the    *)
(* plan and lets the planner refine it between stages.                     *)
(*                                                                         *)
(* Drift handlers of the steerer revise the plan at any suspension of the  *)
(* executor; agents report on their tasks.  A status transition with its   *)
(* cascade is one step (TaskLifecycle has the steps in between).           *)
(***************************************************************************)
EXTENDS PlanGraph, Sequences

CONSTANTS
    InitialPlans,    \* the plans a run may start with
    Edges,           \* the dependencies of the tasks that revisions add
    MaxConcurrency,  \* max_concurrency, 0 for no limit
    CancelStage,     \* drift_policy = "cancel_stage"
    MaxRefines,      \* max_task_invocations
    Threshold,       \* REFINE_FAILURE_THRESHOLD
    Kinds,           \* the control messages that are sent
    MaxMsgs,         \* bound on the messages sent, besides one that answers a pause
    MaxRevisions,    \* bound on the revisions drift handlers install
    MaxDrifts        \* bound on the drifts that agents cause

\* GOLDFIVE_PAUSE_DEADLINE is GOLDFIVE_PAUSE_ESCALATE with a deadline_s.
Pauses == {"PAUSE", "GOLDFIVE_PAUSE_DEADLINE"}
AllKinds == Pauses \cup {"CANCEL", "RESUME", "STEER", "REWIND_TO", "STATUS_QUERY"}

ASSUME ParallelAssumption ==
    /\ IsFiniteSet(Tasks)
    /\ InitialPlans \subseteq Plans /\ \A p \in InitialPlans : ValidCreation(p)
    /\ Edges \subseteq Tasks \X Tasks
    /\ CancelStage \in BOOLEAN /\ Kinds \subseteq AllKinds
    /\ {MaxConcurrency, MaxRefines, Threshold, MaxMsgs, MaxRevisions, MaxDrifts} \subseteq Nat

VARIABLES
    plan,       \* session.plan
    revisions,  \* how many revisions drift handlers have installed
    inbox,      \* the control channel: kinds, in order
    sent,       \* how many messages were sent
    held,       \* the message the finished recv_task holds
    drained,    \* what _apply_pre_stage_controls has collected
    pc,         \* where the executor is suspended
    stage,      \* stage_tasks: the status of each in the snapshot
    job,        \* the asyncio task of each: idle, queued, running, or its result
    results,    \* the tasks whose result was collected
    drift,      \* first_drift is set
    outcome,    \* stage_control_outcome: CANCEL, STEER, or none
    live,       \* live_status_by_id, during the fold
    todo,       \* the results that are still to be folded
    done,       \* completed_stage_ids
    base,       \* the plan _refine was called with
    refines,    \* refinements_used
    failures,   \* fail_count of refine_outcomes: the drifts of a run have one kind here,
                \* and the executor does not move session.current_task_id
    drifts,     \* how many drifts agents have caused
    invoked     \* history: how often each task was invoked

control == <<inbox, sent, held>>
round == <<stage, job, results, drift, outcome>>
fold == <<live, todo, done>>
refining == <<base, refines, failures>>
parallelVars == <<plan, revisions, control, drained, pc, round, fold, refining, drifts, invoked>>

NoMsg == "none"
NothingDrained == [cancel |-> FALSE, steer |-> FALSE, paused |-> FALSE, deadline |-> FALSE]
Idle == [t \in Tasks |-> "idle"]
NoStatus == [t \in Tasks |-> "ABSENT"]
NoPlan == [status |-> NoStatus, edges |-> {}, supersedes |-> [t \in Tasks |-> NoTask]]

ParallelInit ==
    /\ plan \in InitialPlans /\ revisions = 0
    /\ inbox = <<>> /\ sent = 0 /\ held = NoMsg
    /\ drained = NothingDrained /\ pc = "drain"
    /\ stage = <<>> /\ job = Idle /\ results = {} /\ drift = FALSE /\ outcome = NoMsg
    /\ live = NoStatus /\ todo = {} /\ done = {}
    /\ base = NoPlan /\ refines = 0 /\ failures = 0
    /\ drifts = 0 /\ invoked = [t \in Tasks |-> 0]

Over == pc \in {"completed", "aborted"}
Chosen == DOMAIN stage
Pending == Chosen \ results
Finished == {"ok", "drift", "error", "cancelled"}

\* Mutant: finished tasks are moved as well.
TransitionAny(t, to) ==
    IF plan.status[t] = "ABSENT" THEN plan ELSE WithStatus(plan, t, to)

\* steerer.transition: a finished task, or one that is not in the plan, is left
\* alone; a cancellation cascades, a failure here does not.
Transition(t, to) ==
    IF plan.status[t] \notin Live THEN plan
    ELSE IF to = "CANCELLED" THEN WithCascade(plan, t, to) ELSE WithStatus(plan, t, to)

\* What validation lets through when a planner revises p: live tasks are
\* cancelled, tasks are added, and no pending task waits for a broken one.
Revise(p, drop, add) ==
    LET s == [t \in Tasks |-> IF t \in drop THEN "CANCELLED"
                              ELSE IF t \in add THEN "PENDING" ELSE p.status[t]]
        new == {e \in Edges : e[2] \in add /\ s[e[1]] # "ABSENT"}
    IN  [p EXCEPT !.status = s,
                  !.edges = {e \in @ \cup new : ~(s[e[1]] \in Dead /\ s[e[2]] = "PENDING")}]
RevisionsOf(p) ==
    {q \in {Revise(p, drop, add) : drop \in SUBSET {t \in Tasks : p.status[t] \in Live},
                                   add \in SUBSET {t \in Tasks : p.status[t] = "ABSENT"}} :
        ValidRevision(q, p) /\ q # p}

-----------------------------------------------------------------------------
(***************************************************************************)
(* Control before a stage: _apply_pre_stage_controls.                      *)
(***************************************************************************)

\* _rewind_plan: the task and all that depends on it are pending again.
Rewinds ==
    {[plan EXCEPT !.status = [u \in Tasks |->
        IF u \in Reach(plan.edges, {t}) THEN "PENDING" ELSE plan.status[u]]] : t \in Ids(plan)}

\* dispatch_control changes the plan for REWIND_TO only.
DispatchPlan(kind) == IF kind = "REWIND_TO" THEN plan' \in Rewinds ELSE UNCHANGED plan

\* drain_controls takes one message.
DrainOne ==
    /\ pc = "drain" /\ inbox # <<>>
    /\ LET kind == Head(inbox)
       IN  /\ DispatchPlan(kind)
           /\ drained' = [cancel   |-> drained.cancel \/ kind = "CANCEL",
                          steer    |-> drained.steer \/ kind = "STEER",
                          paused   |-> (drained.paused \/ kind \in Pauses) /\ kind # "RESUME",
                          deadline |-> (drained.deadline \/ kind = "GOLDFIVE_PAUSE_DEADLINE")
                                       /\ kind # "RESUME"]
    /\ inbox' = Tail(inbox)
    /\ UNCHANGED <<revisions, sent, held, pc, round, fold, refining, drifts, invoked>>

\* The inbox is empty: CANCEL aborts, a pause blocks, a steer is applied.
Drained ==
    /\ pc = "drain" /\ inbox = <<>>
    /\ pc' = IF drained.cancel THEN "aborted"
             ELSE IF drained.paused THEN "paused"
             ELSE IF drained.steer THEN "steer" ELSE "form"
    /\ UNCHANGED <<plan, revisions, control, drained, round, fold, refining, drifts, invoked>>

\* In the pause, the next message: a steer, a resume or a rewind ends it.
PausedReceive ==
    /\ pc = "paused" /\ inbox # <<>>
    /\ LET kind == Head(inbox)
       IN  /\ DispatchPlan(kind)
           /\ drained' = [drained EXCEPT !.steer = @ \/ kind = "STEER",
                                         !.deadline = @ \/ kind = "GOLDFIVE_PAUSE_DEADLINE"]
           /\ pc' = CASE kind = "CANCEL" -> "aborted"
                      [] kind \in {"RESUME", "STEER", "REWIND_TO"} ->
                            IF drained'.steer THEN "steer" ELSE "form"
                      [] OTHER -> "paused"
    /\ inbox' = Tail(inbox)
    /\ UNCHANGED <<revisions, sent, held, round, fold, refining, drifts, invoked>>

\* abort_expired_pause: every live task is cancelled, then the run aborts.
PauseExpires ==
    /\ pc = "paused" /\ drained.deadline
    /\ plan' = [plan EXCEPT !.status = [t \in Tasks |-> IF @[t] \in Live THEN "CANCELLED" ELSE @[t]]]
    /\ pc' = "aborted"
    /\ UNCHANGED <<revisions, control, drained, round, fold, refining, drifts, invoked>>

\* apply_steer: the steerer's handler may revise the plan.
ApplySteer ==
    /\ pc \in {"steer", "stageSteer"}
    /\ plan' \in RevisionsOf(plan) \cup {plan}
    /\ pc' = IF pc = "steer" THEN "form" ELSE "drain"
    /\ drained' = NothingDrained
    /\ UNCHANGED <<revisions, control, round, fold, refining, drifts, invoked>>

-----------------------------------------------------------------------------
(***************************************************************************)
(* A stage.                                                                *)
(***************************************************************************)

\* _pending: tasks that were neither run nor finished.
IsPending(t) == t \in Ids(plan) \ done /\ plan.status[t] \notin Terminal

\* The first stage with pending tasks, of the plan as it is now.
FormStage ==
    /\ pc = "form"
    /\ \E n \in 0 .. LastStage :
          /\ \E t \in Stage(plan, n) : IsPending(t)
          /\ \A k \in 0 .. n - 1 : \A t \in Stage(plan, k) : ~IsPending(t)
          /\ stage' = [t \in {u \in Stage(plan, n) : IsPending(u)} |-> plan.status[t]]
    /\ job' = [t \in Tasks |-> IF t \in DOMAIN stage' THEN "queued" ELSE "idle"]
    /\ results' = {} /\ drift' = FALSE /\ outcome' = NoMsg
    /\ drained' = NothingDrained
    /\ pc' = "stage"
    /\ UNCHANGED <<plan, revisions, control, fold, refining, drifts, invoked>>

\* No stage is left: the goals decide, and their answer is open here.
NoStage ==
    /\ pc = "form" /\ \A t \in Tasks : ~IsPending(t)
    /\ pc' \in {"completed", "aborted"}
    /\ UNCHANGED <<plan, revisions, control, drained, round, fold, refining, drifts, invoked>>

\* Mutant: a failed invocation keeps its seat.
SeatsLeaking == Cardinality({t \in Chosen : job[t] \in {"running", "error"}})

\* The semaphore: a seat is released however the job ends.
Seats == Cardinality({t \in Chosen : job[t] = "running"})

\* run_one up to the invocation: the task is made RUNNING if the snapshot says
\* that it is not, whatever the plan says by now.
JobStarts(t) ==
    /\ job[t] = "queued"
    /\ MaxConcurrency > 0 => Seats < MaxConcurrency
    /\ job' = [job EXCEPT ![t] = "running"]
    /\ invoked' = [invoked EXCEPT ![t] = @ + 1]
    /\ plan' = IF stage[t] # "RUNNING" /\ plan.status[t] # "ABSENT"
               THEN WithStatus(plan, t, "RUNNING") ELSE plan
    /\ UNCHANGED <<revisions, control, drained, pc, stage, results, drift, outcome, fold,
                   refining, drifts>>

\* The invocation ends: with a result, in which the steerer may see a drift of
\* at least WARNING, with an error, or cancelled by a handler of a drift.
JobEnds(t, how) ==
    /\ job[t] = "running"
    /\ how = "drift" => drifts < MaxDrifts
    /\ drifts' = IF how = "drift" THEN drifts + 1 ELSE drifts
    /\ job' = [job EXCEPT ![t] = how]
    /\ UNCHANGED <<plan, revisions, control, drained, pc, stage, results, drift, outcome, fold,
                   refining, invoked>>

\* A reporting tool moves the task its agent runs; a fatal failure cascades.
AgentReports(t) ==
    /\ job[t] = "running" /\ plan.status[t] \in Live
    /\ plan' \in {WithStatus(plan, t, "COMPLETED"), WithCascade(plan, t, "FAILED")}
    /\ UNCHANGED <<revisions, control, drained, pc, round, fold, refining, drifts, invoked>>

\* The executor collects a job that has ended.  The first drift cancels the
\* rest of the stage if the policy says so; it waits until all have ended.
Collect(t) ==
    /\ pc = "stage" /\ t \in Pending /\ job[t] \in Finished
    /\ results' = results \cup {t}
    /\ IF job[t] = "drift" /\ ~drift
       THEN drift' = TRUE /\ pc' = IF CancelStage /\ Pending # {t} THEN "reap" ELSE pc
       ELSE UNCHANGED <<drift, pc>>
    /\ UNCHANGED <<plan, revisions, control, drained, stage, job, outcome, fold, refining,
                   drifts, invoked>>

\* The recv_task of the stage takes a message.
Receive ==
    /\ pc = "stage" /\ Pending # {} /\ held = NoMsg /\ inbox # <<>>
    /\ held' = Head(inbox) /\ inbox' = Tail(inbox)
    /\ UNCHANGED <<plan, revisions, sent, drained, pc, round, fold, refining, drifts, invoked>>

\* The message is dispatched; CANCEL and STEER cancel the stage.  A pause is
\* acknowledged and has no effect.
StageControl ==
    /\ pc = "stage" /\ Pending # {} /\ held # NoMsg
    /\ DispatchPlan(held)
    /\ held' = NoMsg
    /\ IF held \in {"CANCEL", "STEER"} THEN outcome' = held /\ pc' = "reap"
       ELSE UNCHANGED <<outcome, pc>>
    /\ UNCHANGED <<revisions, inbox, sent, drained, stage, job, results, drift, fold, refining,
                   drifts, invoked>>

\* _cancel_stage_tasks: a job that has not ended ends cancelled, or with the
\* result it had by then; there is no time limit.
Reaped(t) ==
    /\ pc = "reap" /\ t \in Pending
    /\ job' = IF job[t] \in Finished THEN job ELSE [job EXCEPT ![t] = "cancelled"]
    /\ results' = results \cup {t}
    /\ UNCHANGED <<plan, revisions, control, drained, pc, stage, drift, outcome, fold, refining,
                   drifts, invoked>>

\* The stage is over: a message the recv_task holds is dropped.  After a CANCEL
\* the tasks of the stage that are live are cancelled and the run aborts;
\* otherwise the statuses of the plan are read, once, for the fold.
StageEnds ==
    /\ pc \in {"stage", "reap"} /\ Pending = {}
    /\ held' = NoMsg
    /\ IF outcome = "CANCEL"
       THEN /\ pc' = "cancel" /\ todo' = Chosen /\ UNCHANGED live
       ELSE /\ pc' = "fold" /\ todo' = Chosen /\ live' = plan.status
    /\ UNCHANGED <<plan, revisions, inbox, sent, drained, round, done, refining, drifts, invoked>>

\* mark_cancelled_if_live, for every task of the stage.
MarkCancelled(t) ==
    /\ pc = "cancel" /\ t \in todo
    /\ plan' = Transition(t, "CANCELLED")
    /\ todo' = todo \ {t}
    /\ pc' = IF todo = {t} THEN "aborted" ELSE pc
    /\ UNCHANGED <<revisions, control, drained, round, live, done, refining, drifts, invoked>>

AfterFold == IF outcome = "STEER" THEN "stageSteer" ELSE IF drift THEN "drift" ELSE "drain"

\* A result is folded into the plan, unless the status read before was final.
Fold(t) ==
    /\ pc = "fold" /\ t \in todo
    /\ plan' = IF live[t] \in Terminal THEN plan
               ELSE Transition(t, CASE job[t] \in {"ok", "drift"} -> "COMPLETED"
                                    [] job[t] = "error" -> "FAILED"
                                    [] job[t] = "cancelled" -> "CANCELLED")
    /\ done' = done \cup {t}
    /\ todo' = todo \ {t}
    /\ IF todo = {t} THEN pc' = AfterFold /\ live' = NoStatus ELSE UNCHANGED <<pc, live>>
    /\ UNCHANGED <<revisions, control, drained, round, refining, drifts, invoked>>

-----------------------------------------------------------------------------
(***************************************************************************)
(* Refining after a stage.                                                 *)
(***************************************************************************)

\* The budget, then _refine with the plan as it is.
RefineStarts ==
    /\ pc = "drift"
    /\ IF refines >= MaxRefines THEN pc' = "aborted" /\ UNCHANGED base
       ELSE pc' = "refine" /\ base' = plan
    /\ UNCHANGED <<plan, revisions, control, drained, round, fold, refines, failures, drifts,
                   invoked>>

\* The planner's plan was validated against base and replaces whatever the plan
\* is now; the drift's count of failures starts again.
RefineInstalls ==
    /\ pc = "refine"
    /\ plan' \in RevisionsOf(base)
    /\ refines' = refines + 1
    /\ failures' = 0 /\ base' = NoPlan
    /\ pc' = "drain"
    /\ UNCHANGED <<revisions, control, drained, round, fold, drifts, invoked>>

\* _bump_refine_failure: the planner fails, returns nothing, or a plan that is
\* refused; the second time in a row for one drift the run aborts.
RefineFails ==
    /\ pc = "refine"
    /\ failures' = failures + 1 /\ base' = NoPlan
    /\ pc' = IF failures' >= Threshold THEN "aborted" ELSE "drain"
    /\ UNCHANGED <<plan, revisions, control, drained, round, fold, refines, drifts, invoked>>

-----------------------------------------------------------------------------
(***************************************************************************)
(* The others.                                                             *)
(***************************************************************************)

\* A drift handler of the steerer installs a revision.
DriftRevises ==
    /\ ~Over /\ revisions < MaxRevisions
    /\ revisions' = revisions + 1
    /\ plan' \in RevisionsOf(plan)
    /\ UNCHANGED <<control, drained, pc, round, fold, refining, drifts, invoked>>

Send(kind) ==
    /\ ~Over
    /\ sent < MaxMsgs \/ (sent = MaxMsgs /\ pc = "paused")
    /\ inbox' = Append(inbox, kind) /\ sent' = sent + 1
    /\ UNCHANGED <<plan, revisions, held, drained, pc, round, fold, refining, drifts, invoked>>

Executor ==
    \/ DrainOne \/ Drained \/ PausedReceive \/ ApplySteer \/ FormStage \/ NoStage
    \/ StageControl \/ StageEnds
    \/ \E t \in Tasks : Collect(t) \/ Reaped(t) \/ MarkCancelled(t) \/ Fold(t)
    \/ RefineStarts \/ RefineInstalls \/ RefineFails

ParallelNext ==
    \/ Executor \/ Receive \/ PauseExpires \/ DriftRevises
    \/ \E t \in Tasks : JobStarts(t) \/ AgentReports(t)
    \/ \E t \in Tasks, how \in Finished : JobEnds(t, how)
    \/ \E kind \in Kinds : Send(kind)

ParallelSpec == ParallelInit /\ [][ParallelNext]_parallelVars

\* The event loop runs what can run; invocations end and the planner answers.
ParallelFairSpec ==
    /\ ParallelSpec
    /\ WF_parallelVars(Executor) /\ WF_parallelVars(Receive) /\ WF_parallelVars(PauseExpires)
    /\ \A t \in Tasks : WF_parallelVars(JobStarts(t))
    /\ \A t \in Tasks : WF_parallelVars(\E how \in Finished : JobEnds(t, how))

-----------------------------------------------------------------------------
(***************************************************************************)
(* Properties.                                                             *)
(***************************************************************************)

\* A task is given to an agent at most once in a run, also when it was rewound,
\* when its stage was cancelled by a steer, and when the plan was revised
\* meanwhile: completed_stage_ids remembers it.  And a stage is formed of tasks
\* whose predecessors have all been run or are finished, in the plan as it is
\* then, however it was revised before.
OnceAndInOrder ==
    [][/\ \A t \in Tasks : invoked'[t] <= 1
       /\ FormStage => \A t \in DOMAIN stage' : \A u \in Preds(plan, t) :
                          u \in done \/ plan.status[u] \in Terminal]_parallelVars

\* The status of a finished task changes only by a rewind, when a task that was
\* waiting for its seat starts, or when a refine replaces a plan that was
\* changed under it.  The fold in particular never does it, though it works
\* with statuses that were read before it started.
FinishedKept ==
    [][\A t \in Tasks : plan.status[t] \in Terminal /\ plan'.status[t] # plan.status[t] =>
          \/ plan'.status[t] = "PENDING" /\ (DrainOne \/ PausedReceive \/ StageControl)
          \/ job[t] = "queued" /\ job'[t] = "running"
          \/ RefineInstalls /\ base # plan]_parallelVars

\* The run ends, or stays paused: jobs get their seats, stages are folded, and
\* refines are bounded.
EndsOrWaits == <>(Over \/ pc = "paused")
=============================================================================
