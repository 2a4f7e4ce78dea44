------------------------------ MODULE Planner -------------------------------
(***************************************************************************)
(* The planner (planner.py): generate, refine, the refine of a steer and   *)
(* of a loop, and handle_turn; and the installation of what they return    *)
(* (drift_observer.py, plan_reviser.py).  A call asks a model, which may   *)
(* answer anything; tasks move on meanwhile, so that a plan is installed   *)
(* on another one than it was made for.                                    *)
(*                                                                         *)
(* A plan is one of PlanGraph with the set of its tasks whose supersedes   *)
(* link is of the kind CORRECT.                                            *)
(***************************************************************************)
EXTENDS PlanGraph

CONSTANTS
    InitialPlans,   \* the plans a session may start from
    Answers,        \* the plans a model may answer with, as _plan_from_json reads them
    RetryOf,        \* the task whose retry a task's id says it is, or NoTask
    MaxAttempts     \* max_refine_attempts

VARIABLES
    plan,           \* the session's plan
    call            \* the planner call under way

plannerVars == <<plan, call>>

-----------------------------------------------------------------------------
(***************************************************************************)
(* Plans with kinds of links.                                              *)
(***************************************************************************)

PlansWithKinds ==
    [status : [Tasks -> Status], edges : SUBSET (Tasks \X Tasks),
     supersedes : [Tasks -> Tasks \cup {NoTask}], correct : SUBSET Tasks]

Dependents(p, t) == {e[2] : e \in {f \in p.edges : f[1] = t}}

\* What _integrate_correction_supersedes works with: tasks whose link is of the
\* kind CORRECT and goes to another task of the plan.
Corrections(p) == {x \in p.correct \cap Ids(p) : p.supersedes[x] \in Ids(p) \ {x}}

\* What came after a task that was corrected comes after its corrections, unless
\* that task is a correction itself: in what order the two are integrated depends
\* on how the model listed them.
Routed(p) ==
    \A x \in Corrections(p) :
        LET old == p.supersedes[x] IN
        old \notin Corrections(p) =>
            \A u \in Dependents(p, old) : u \in Corrections(p) /\ p.supersedes[u] = old

\* A session starts without a plan or from the one the last session left.
ASSUME PlannerAssumption ==
    /\ IsFiniteSet(Tasks)
    /\ \A p \in InitialPlans : p \in PlansWithKinds /\ Routed(p)
    /\ Answers \subseteq PlansWithKinds
    /\ RetryOf \in [Tasks -> Tasks \cup {NoTask}]

NoTasks == [status |-> [t \in Tasks |-> "ABSENT"], edges |-> {},
            supersedes |-> [t \in Tasks |-> NoTask], correct |-> {}]

Idle == [op |-> "none", at |-> "idle", task |-> NoTask, attempt |-> 0,
         prior |-> NoTasks, error |-> "none", result |-> NoTasks, flag |-> "none"]

PlannerInit == plan \in InitialPlans /\ call = Idle

-----------------------------------------------------------------------------
(***************************************************************************)
(* What is done to the plan a model answered with.                         *)
(***************************************************************************)

\* _backfill_retry_supersedes: a retry of a task that failed or was cancelled
\* supersedes it; no task supersedes itself.
Backfilled(p, prior) ==
    [p EXCEPT !.supersedes = [t \in Tasks |->
        LET said == IF @[t] = t THEN NoTask ELSE @[t]
            old == RetryOf[t]
        IN  IF t \in Ids(p) /\ said = NoTask /\ old # NoTask
            THEN IF prior.status[old] \in {"FAILED", "CANCELLED"} THEN old ELSE NoTask
            ELSE said]]

\* _normalize_supersession_kinds: CORRECT is the kind of a link to a completed
\* task, as the prior plan has it, or else the new one.
Normalized(p, prior) ==
    LET links == [t \in Tasks |-> IF p.supersedes[t] = t THEN NoTask ELSE p.supersedes[t]]
        old(y) == IF y \in Ids(prior) THEN prior.status[y] ELSE p.status[y]
    IN  [p EXCEPT !.supersedes = links,
                  !.correct = {t \in Ids(p) : links[t] # NoTask /\ old(links[t]) = "COMPLETED"}]

Repaired(p, prior) == Normalized(Backfilled(p, prior), prior)

\* Mutant: only a task that is running is failed.
ForceRunningFailed(p, prior, t) ==
    IF t # NoTask /\ p.status[t] = "RUNNING" THEN WithStatus(p, t, "FAILED") ELSE p

\* _force_looper_failed: the looping task fails, and is put back if it is gone.
ForceLooperFailed(p, prior, t) ==
    IF t = NoTask THEN p
    ELSE IF p.status[t] \in Live THEN WithStatus(p, t, "FAILED")
    ELSE IF p.status[t] = "ABSENT" /\ t \in Ids(prior)
    THEN [WithStatus(p, t, "FAILED") EXCEPT !.supersedes[t] = prior.supersedes[t],
                                            !.correct = @ \cup ({t} \cap prior.correct)]
    ELSE p

\* _fallback_fail_loop_plan: the plan as it is, with the looping task failed.
FallbackFailLoop(prior, t) ==
    IF t # NoTask /\ t \in Ids(prior) /\ prior.status[t] \in Live
    THEN WithStatus(prior, t, "FAILED") ELSE prior

\* ... where a task that is finished is listed a second time.
ListsTwice(prior, t) == t # NoTask /\ prior.status[t] \in Terminal

\* _user_steer_one_attempt: what is finished stays as it is and the rest is the
\* model's, with the edges of both that have their two ends.
SteerMerge(p, prior) ==
    LET kept == {t \in Tasks : prior.status[t] \in Terminal}
        known == kept \cup Ids(p)
    IN  [status |-> [t \in Tasks |-> IF t \in kept THEN prior.status[t] ELSE p.status[t]],
         edges |-> {e \in prior.edges : e[1] \in known /\ e[2] \in known} \cup p.edges,
         supersedes |-> [t \in Tasks |->
             IF t \in kept THEN prior.supersedes[t] ELSE p.supersedes[t]],
         correct |-> (p.correct \ kept) \cup (prior.correct \cap kept)]

\* _extract_rejection_kind: the kind of what Plan.validate reports first.
Rejection(p, prior) ==
    IF ~Structure(p) THEN "structure"
    ELSE IF \E t \in Ids(prior) \ Ids(p) : prior.status[t] \in Terminal THEN "terminal_missing"
    ELSE IF \E t \in Ids(prior) : prior.status[t] \in Terminal /\ p.status[t] # prior.status[t]
    THEN "terminal_regressed"
    ELSE IF ~KeepsTerminal(p, prior) THEN "edge_missing"
    ELSE IF ValidRevision(p, prior) THEN "none" ELSE "topology"

-----------------------------------------------------------------------------
(***************************************************************************)
(* A call.                                                                 *)
(***************************************************************************)

Operations == {"generate", "turn", "refine", "steer", "loop"}

Ask(op, t) ==
    /\ call = Idle
    /\ (t # NoTask) => op = "loop"
    /\ call' = [Idle EXCEPT !.op = op, !.at = "asking", !.task = t, !.attempt = 1, !.prior = plan]
    /\ UNCHANGED plan

Gives(p, flag) ==
    /\ call' = [call EXCEPT !.at = "returned", !.result = p, !.flag = flag]
    /\ UNCHANGED plan

\* The call returns no plan; a loop's then returns its fallback.
GivesUp ==
    IF call.op = "loop"
    THEN Gives(FallbackFailLoop(call.prior, call.task),
               IF ListsTwice(call.prior, call.task) THEN "twice" ELSE "none")
    ELSE call' = Idle /\ UNCHANGED plan

\* The model is asked again, with the error, while attempts are left.  A steer
\* is given up when the validator finds the same fault twice in a row.
Retry(error) ==
    LET same == call.op = "steer" /\ call.attempt > 1 /\ error = call.error /\
                error \in {"terminal_missing", "terminal_regressed", "edge_missing"}
    IN  IF call.attempt < MaxAttempts /\ ~same
        THEN call' = [call EXCEPT !.attempt = @ + 1, !.error = error] /\ UNCHANGED plan
        ELSE GivesUp

\* The prompt cannot be built.
PromptFails ==
    call.at = "asking" /\ call.attempt = 1 /\ call.op \in {"refine", "steer", "loop"} /\ GivesUp

\* The call of the model raises, or its answer is not JSON or no plan.
BadAnswer == call.at = "asking" /\ IF call.op = "turn" THEN GivesUp ELSE Retry("none")

\* An empty answer, and a refusal where refine allows one, end the call.
EmptyAnswer == call.at = "asking" /\ GivesUp
RejectAnswer == call.at = "asking" /\ call.op = "refine" /\ GivesUp

\* The plan is used if the validator has it and, in a refine, if the goals the
\* user steered to are still in it, which is a matter of its texts.
Considered(p, error) ==
    \E keepsGoals \in IF call.op = "generate" THEN {TRUE} ELSE BOOLEAN :
        IF error = "none" /\ keepsGoals THEN Gives(p, "none")
        ELSE Retry(IF error = "none" THEN "goals" ELSE error)

AnswerGenerate(a) ==
    call.op = "generate" /\ Considered(a, IF ValidCreation(a) THEN "none" ELSE "creation")
AnswerRefine(a) ==
    LET p == Repaired(a, call.prior)
    IN  call.op = "refine" /\ Considered(p, Rejection(p, call.prior))
AnswerLoop(a) ==
    LET p == Repaired(ForceLooperFailed(a, call.prior, call.task), call.prior)
    IN  call.op = "loop" /\ Considered(p, Rejection(p, call.prior))
AnswerSteer(a) ==
    LET p == Normalized(SteerMerge(Backfilled(a, call.prior), call.prior), call.prior)
    IN  call.op = "steer" /\ Considered(p, Rejection(p, call.prior))

\* handle_turn: a second plan is returned though the validator refuses it.
AnswerTurn(a) ==
    /\ call.op = "turn"
    /\ \E pivot \in BOOLEAN :
          LET alone == pivot \/ Ids(call.prior) = {}
              valid == IF alone THEN Structure(a) /\ NoGraft(a) ELSE ValidRevision(a, call.prior)
          IN  IF valid \/ call.attempt = 2 THEN Gives(a, IF pivot THEN "pivot" ELSE "none")
              ELSE call' = [call EXCEPT !.attempt = 2] /\ UNCHANGED plan

Answer(a) ==
    /\ call.at = "asking"
    /\ \/ AnswerGenerate(a) \/ AnswerRefine(a) \/ AnswerLoop(a) \/ AnswerSteer(a) \/ AnswerTurn(a)

-----------------------------------------------------------------------------
(***************************************************************************)
(* Installation.                                                           *)
(***************************************************************************)

\* _fold_runtime_terminal_statuses
Folded(p, prior) ==
    [p EXCEPT !.status = [t \in Tasks |->
        IF @[t] \in Live /\ prior.status[t] \in Terminal THEN prior.status[t] ELSE @[t]]]

\* Mutant: the correction is put behind the old task, and nothing else moves.
CorrectedAppended(p, links, x) ==
    [links EXCEPT !.edges = @ \cup {<<p.supersedes[x], x>>}]

\* One correction: it comes after the task it corrects and before all that came
\* after that.  existing_edges keeps an edge that was moved onto another one.
Corrected(p, links, x) ==
    LET old == p.supersedes[x]
        edges == links.edges \cup ({<<old, x>>} \ links.existing)
        moved == {e \in edges : e[1] = old /\ e[2] # x}
        fresh == {e \in moved : <<x, e[2]>> \notin links.existing}
    IN  [edges |-> (edges \ moved) \cup {<<x, e[2]>> : e \in moved},
         existing |-> ((links.existing \cup {<<old, x>>}) \ fresh) \cup {<<x, e[2]>> : e \in fresh}]

\* The orders in which a plan may list the tasks of S.
Orders(S) ==
    {order \in [1 .. Cardinality(S) -> S] : \A x \in S : \E i \in DOMAIN order : order[i] = x}

\* All corrections, in the order of the plan's tasks.
Integrated(p, order) ==
    LET links[n \in 0 .. Cardinality(Corrections(p))] ==
            IF n = 0 THEN [edges |-> p.edges, existing |-> p.edges]
            ELSE Corrected(p, links[n - 1], order[n])
    IN  [p EXCEPT !.edges = links[Cardinality(Corrections(p))].edges]

SameShape(p, q) == p.status = q.status /\ p.edges = q.edges

\* The plan is folded, validated against the session's and, unless nothing would
\* change, installed with its corrections; a pivot is validated by itself.
Install ==
    LET pivot == call.flag = "pivot"
        new == IF pivot THEN call.result ELSE Folded(call.result, plan)
        valid == /\ call.flag # "twice"
                 /\ IF pivot THEN Structure(new) /\ NoGraft(new) ELSE ValidRevision(new, plan)
    IN  /\ call.at = "returned"
        /\ call' = Idle
        /\ IF valid /\ (pivot \/ ~SameShape(new, plan))
           THEN \E order \in Orders(Corrections(new)) : plan' = Integrated(new, order)
           ELSE UNCHANGED plan

-----------------------------------------------------------------------------
(***************************************************************************)
(* Tasks move while the model is thinking.                                 *)
(***************************************************************************)

Start(t) == Pickable(plan, t) /\ plan' = WithStatus(plan, t, "RUNNING") /\ UNCHANGED call
Complete(t) ==
    plan.status[t] = "RUNNING" /\ plan' = WithStatus(plan, t, "COMPLETED") /\ UNCHANGED call
\* A recoverable failure leaves what comes after the task as it is.
Fail(t) == plan.status[t] = "RUNNING" /\ plan' = WithStatus(plan, t, "FAILED") /\ UNCHANGED call
CancelTask(t) ==
    plan.status[t] \in Live /\ plan' = WithCascade(plan, t, "CANCELLED") /\ UNCHANGED call

PlannerNext ==
    \/ \E op \in Operations, t \in Tasks \cup {NoTask} : Ask(op, t)
    \/ PromptFails \/ BadAnswer \/ EmptyAnswer \/ RejectAnswer
    \/ \E a \in Answers : Answer(a)
    \/ Install
    \/ \E t \in Tasks : Start(t) \/ Complete(t) \/ Fail(t) \/ CancelTask(t)

-----------------------------------------------------------------------------
(***************************************************************************)
(* Properties.                                                             *)
(***************************************************************************)

LoopHandled == call.op = "loop" /\ call.task \in Ids(plan) /\ call' = Idle /\ call.prior = plan

\* Whatever the model answers, or not, the handling of a loop stops the looping
\* task, when no pending task depends on it and the plan is a valid revision of
\* itself: the promise of _refine_looping_tool_call, where the validator lets
\* the fallback pass.
LoopStops ==
    [][LoopHandled /\ ValidRevision(plan, plan) /\
       (\A u \in Dependents(plan, call.task) : plan.status[u] # "PENDING")
       => plan'.status[call.task] \notin Live]_plannerVars

\* What came after a task that was corrected comes after its corrections, through
\* every later revision and in whatever order they were integrated: the topology
\* of _integrate_correction_supersedes.
CorrectionsRoute == Routed(plan)
=============================================================================
