--------------------------- MODULE TaskLifecycle ---------------------------
(***************************************************************************)
(* The task state machine of goldfive (goldfive/task_state_machine.py).    *)
(*                                                                         *)
(* Every status transition of a task is one call of the mark_task_* family *)
(* on the session's plan.  A call swaps the immutable plan in one step and *)
(* then suspends on the emission of its events; a cancellation and a fatal *)
(* failure go on to cancel everything downstream, one task per step, with  *)
(* two suspensions between two tasks.  The calls come from the executor,   *)
(* from the reporting tools and the reconciler (both inside the agent's    *)
(* invocation) and from background drift handlers, so they interleave at   *)
(* every suspension.  A caller inside the agent's invocation is cancelled  *)
(* with it, at whatever suspension it is in.                               *)
(*                                                                         *)
(* The shape of the plan (its tasks and edges) is fixed here; PlanRevision *)
(* models the operations that replace it.                                  *)
(***************************************************************************)
EXTENDS FiniteSets

CONSTANTS
    Tasks,        \* the task ids of session.plan
    Edges,        \* the dependency edges <<from, to>> of session.plan
    Callers,      \* coroutines that call mark_task_*
    Cancellable,  \* the callers that run inside the agent's invocation task
    NoTask        \* "no current task" in the orchestration state

ASSUME PlanAssumption == Edges \subseteq Tasks \X Tasks
ASSUME CallerAssumption == Cancellable \subseteq Callers
ASSUME NoTaskAssumption == NoTask \notin Tasks

VARIABLES
    status,     \* session.plan: the status of each task
    lineage,    \* the keys of session.task_lineage
    pin,        \* the current-task entry of session.state
    fatal,      \* tasks for which TaskFailed(recoverable=False) was emitted
    announced,  \* tasks with a TaskTransitioned event into a terminal status
    drifts,     \* tasks whose TASK_FAILED_FATAL drift handler was spawned
    pc,         \* where each caller is suspended
    call,       \* what each caller's mark_task_* call does
    live,       \* cascade: tasks that were not terminal in its snapshot
    todo,       \* cascade: its queue
    visited,    \* cascade: the tasks it has cancelled
    item,       \* cascade: the task it is emitting events for
    abandoned   \* history: initiators and victims of a cancelled call

plan == <<status, lineage, pin>>
sinks == <<fatal, announced, drifts>>
cascade == <<live, todo, visited, item>>
vars == <<plan, sinks, pc, call, cascade, abandoned>>

Terminal == {"COMPLETED", "FAILED", "CANCELLED", "NOT_NEEDED"}
Status == {"PENDING", "RUNNING", "BLOCKED"} \cup Terminal

Finished(t) == status[t] \in Terminal
Unfinished == {t \in Tasks : ~Finished(t)}
Downstream(t) == {u \in Tasks : <<t, u>> \in Edges}

\* A call in progress: its task, the status it moved it to, whether the
\* failure is recoverable and whether the drift handler is to be spawned.
Call == [task : Tasks, to : Status, recoverable : BOOLEAN, dispatch : BOOLEAN]

Init ==
    /\ status = [t \in Tasks |-> "PENDING"]
    /\ lineage = {}
    /\ pin = NoTask
    /\ fatal = {} /\ announced = {} /\ drifts = {}
    /\ pc = [c \in Callers |-> "idle"]
    /\ call = [c \in Callers |-> NoTask]
    /\ live = [c \in Callers |-> {}]
    /\ todo = [c \in Callers |-> {}]
    /\ visited = [c \in Callers |-> {}]
    /\ item = [c \in Callers |-> NoTask]
    /\ abandoned = {}

(***************************************************************************)
(* The first step of a call: the guard shared by the family (a terminal    *)
(* task is left alone and nothing is emitted), the plan swap and the       *)
(* bookkeeping, up to the emission of the Task* event.                     *)
(***************************************************************************)

Swap(c, t, to, recoverable, dispatch) ==
    /\ pc[c] = "idle"
    /\ ~Finished(t)
    /\ status' = [status EXCEPT ![t] = to]
    /\ pc' = [pc EXCEPT ![c] = "swapped"]
    /\ call' = [call EXCEPT ![c] = [task |-> t, to |-> to,
                    recoverable |-> recoverable, dispatch |-> dispatch]]
    /\ UNCHANGED <<announced, drifts, cascade, abandoned>>

\* Mutant: the status is stored where the id belongs.
SyncStoresStatus(t, to) == pin' = IF to = "RUNNING" THEN to ELSE pin

\* state_store.sync_current_task_from_transition
SyncCurrentTask(t, to) ==
    pin' = IF to = "RUNNING" THEN t
           ELSE IF to \in Terminal /\ pin = t THEN NoTask ELSE pin

MarkTaskRunning(c, t) ==
    /\ Swap(c, t, "RUNNING", TRUE, FALSE)
    /\ SyncCurrentTask(t, "RUNNING")
    /\ lineage' = lineage \cup {t}
    /\ UNCHANGED fatal

MarkTaskCompleted(c, t) ==
    /\ Swap(c, t, "COMPLETED", TRUE, FALSE)
    /\ SyncCurrentTask(t, "COMPLETED")
    /\ lineage' = lineage \ {t}
    /\ UNCHANGED fatal

MarkTaskFailed(c, t, recoverable, dispatch) ==
    /\ Swap(c, t, "FAILED", recoverable, dispatch)
    /\ SyncCurrentTask(t, "FAILED")
    /\ lineage' = lineage \ {t}
    /\ fatal' = IF recoverable THEN fatal ELSE fatal \cup {t}

MarkTaskBlocked(c, t) ==
    /\ Swap(c, t, "BLOCKED", TRUE, TRUE)
    /\ UNCHANGED <<pin, lineage, fatal>>

MarkTaskCancelled(c, t) ==
    /\ Swap(c, t, "CANCELLED", TRUE, FALSE)
    /\ SyncCurrentTask(t, "CANCELLED")
    /\ lineage' = lineage \ {t}
    /\ UNCHANGED fatal

\* Mutant: the lineage entry is not dropped.
NotNeededKeepsLineage(c, t) ==
    /\ Swap(c, t, "NOT_NEEDED", TRUE, FALSE)
    /\ SyncCurrentTask(t, "NOT_NEEDED")
    /\ UNCHANGED <<lineage, fatal>>

MarkTaskNotNeeded(c, t) ==
    /\ Swap(c, t, "NOT_NEEDED", TRUE, FALSE)
    /\ SyncCurrentTask(t, "NOT_NEEDED")
    /\ lineage' = lineage \ {t}
    /\ UNCHANGED fatal

(***************************************************************************)
(* The later steps of a call.                                              *)
(***************************************************************************)

\* Mutant: a fatal failure does not cascade.
CancelCascades(c) == call[c].to = "CANCELLED"

\* Only a cancellation and a fatal failure cascade.
Cascades(c) ==
    \/ call[c].to = "CANCELLED"
    \/ call[c].to = "FAILED" /\ ~call[c].recoverable

\* The coroutine's frame is gone.
Leave(c) ==
    /\ pc' = [pc EXCEPT ![c] = "idle"]
    /\ call' = [call EXCEPT ![c] = NoTask]
    /\ live' = [live EXCEPT ![c] = {}]
    /\ todo' = [todo EXCEPT ![c] = {}]
    /\ visited' = [visited EXCEPT ![c] = {}]
    /\ item' = [item EXCEPT ![c] = NoTask]

\* The call returns.  FAILED and BLOCKED spawn a drift handler last; only the
\* handler of a fatal failure depends on what the call did before.
Return(c) ==
    /\ Leave(c)
    /\ drifts' = IF call[c].dispatch /\ call[c].to = "FAILED" /\ ~call[c].recoverable
                   THEN drifts \cup {call[c].task} ELSE drifts

\* Mutant: NOT_NEEDED is not among the statuses announced.
EmitForgetsNotNeeded(c) ==
    /\ pc[c] = "swapped"
    /\ announced' = IF call[c].to \in Terminal \ {"NOT_NEEDED"}
                      THEN announced \cup {call[c].task} ELSE announced
    /\ pc' = [pc EXCEPT ![c] = "announced"]
    /\ UNCHANGED <<plan, fatal, drifts, call, cascade, abandoned>>

\* The Task* event is out: emit TaskTransitioned.
EmitTaskTransitioned(c) ==
    /\ pc[c] = "swapped"
    /\ announced' = IF call[c].to \in Terminal
                      THEN announced \cup {call[c].task} ELSE announced
    /\ pc' = [pc EXCEPT ![c] = "announced"]
    /\ UNCHANGED <<plan, fatal, drifts, call, cascade, abandoned>>

\* TaskTransitioned is out (and the goal-drift boundary check has been made):
\* a call that does not cascade returns.
FinishCall(c) ==
    /\ pc[c] = "announced"
    /\ ~Cascades(c)
    /\ Return(c)
    /\ UNCHANGED <<plan, fatal, announced, abandoned>>

\* Mutant: a dependent that runs already is not cancelled.
CascadeCancelPendingOnly(c, u, snap, queue, seen) ==
    /\ status' = IF status[u] = "PENDING" THEN [status EXCEPT ![u] = "CANCELLED"] ELSE status
    /\ lineage' = lineage \ {u}
    /\ live' = [live EXCEPT ![c] = snap]
    /\ todo' = [todo EXCEPT ![c] = queue \ {u}]
    /\ visited' = [visited EXCEPT ![c] = seen \cup {u}]
    /\ item' = [item EXCEPT ![c] = u]
    /\ pc' = [pc EXCEPT ![c] = "cancelling"]
    /\ UNCHANGED <<pin, call, drifts>>

\* Cancel u as part of c's cascade, whose snapshot and remaining queue are
\* snap and queue.  The terminal guard was evaluated on the snapshot; the
\* pin is not synchronised.
CascadeCancel(c, u, snap, queue, seen) ==
    /\ status' = [status EXCEPT ![u] = "CANCELLED"]
    /\ lineage' = lineage \ {u}
    /\ live' = [live EXCEPT ![c] = snap]
    /\ todo' = [todo EXCEPT ![c] = queue \ {u}]
    /\ visited' = [visited EXCEPT ![c] = seen \cup {u}]
    /\ item' = [item EXCEPT ![c] = u]
    /\ pc' = [pc EXCEPT ![c] = "cancelling"]
    /\ UNCHANGED <<pin, call, drifts>>

\* Go on with the queue: cancel one of its tasks, or return if none is left.
\* A queued task that was terminal in the snapshot is dropped without a
\* suspension, so the queue holds only the others; the order in which they
\* are taken is left open.
CascadeLoop(c, snap, queue, seen) ==
    /\ \/ \E u \in queue : CascadeCancel(c, u, snap, queue, seen)
       \/ queue = {} /\ Return(c) /\ UNCHANGED plan
    /\ UNCHANGED <<fatal, announced, abandoned>>

\* Mutant: the dependents are queued whatever their status.
StartQueuesFinished(c) ==
    /\ pc[c] = "announced"
    /\ Cascades(c)
    /\ CascadeLoop(c, Unfinished, Downstream(call[c].task), {})

\* cascade_cancel_downstream: snapshot the plan and take the first task.
CascadeStart(c) ==
    /\ pc[c] = "announced"
    /\ Cascades(c)
    /\ CascadeLoop(c, Unfinished, Downstream(call[c].task) \cap Unfinished, {})

\* TaskCancelled is out for the victim: emit its TaskTransitioned.
CascadeEmitTransitioned(c) ==
    /\ pc[c] = "cancelling"
    /\ announced' = announced \cup {item[c]}
    /\ pc' = [pc EXCEPT ![c] = "cascaded"]
    /\ UNCHANGED <<plan, fatal, drifts, call, cascade, abandoned>>

\* Mutant: the cascade does not go on below the victim.
CascadeStopsAtVictim(c) ==
    /\ pc[c] = "cascaded"
    /\ CascadeLoop(c, live[c], todo[c], visited[c])

\* Both events are out: queue the victim's dependents and take the next task.
CascadeNext(c) ==
    /\ pc[c] = "cascaded"
    /\ CascadeLoop(c, live[c],
                   todo[c] \cup ((Downstream(item[c]) \cap live[c]) \ visited[c]),
                   visited[c])

\* The agent's invocation is cancelled while c is suspended: CancelledError
\* leaves the call at the await, and nothing after it runs.
CancelCaller(c) ==
    /\ c \in Cancellable
    /\ pc[c] # "idle"
    /\ abandoned' = abandoned \cup {call[c].task} \cup visited[c]
    /\ Leave(c)
    /\ UNCHANGED <<plan, sinks>>

Resume(c) ==
    \/ EmitTaskTransitioned(c)
    \/ FinishCall(c)
    \/ CascadeStart(c)
    \/ CascadeEmitTransitioned(c)
    \/ CascadeNext(c)

Mark(c, t) ==
    \/ MarkTaskRunning(c, t)
    \/ MarkTaskCompleted(c, t)
    \/ \E recoverable, dispatch \in BOOLEAN :
           MarkTaskFailed(c, t, recoverable, dispatch)
    \/ MarkTaskBlocked(c, t)
    \/ MarkTaskCancelled(c, t)
    \/ MarkTaskNotNeeded(c, t)

Next ==
    \E c \in Callers :
        \/ \E t \in Tasks : Mark(c, t)
        \/ Resume(c)
        \/ CancelCaller(c)

Spec == Init /\ [][Next]_vars

-----------------------------------------------------------------------------
(***************************************************************************)
(* Properties.                                                             *)
(***************************************************************************)

InCascade(c) == pc[c] \in {"cancelling", "cascaded"}

\* Types of the session state and of the suspended calls.
TypeOK ==
    /\ status \in [Tasks -> Status]
    /\ lineage \subseteq Tasks
    /\ pin \in Tasks \cup {NoTask}
    /\ fatal \subseteq Tasks /\ announced \subseteq Tasks
    /\ drifts \subseteq Tasks
    /\ pc \in [Callers -> {"idle", "swapped", "announced", "cancelling", "cascaded"}]
    /\ call \in [Callers -> Call \cup {NoTask}]
    /\ \A c \in Callers : pc[c] # "idle" => call[c] \in Call
    /\ live \in [Callers -> SUBSET Tasks]
    /\ todo \in [Callers -> SUBSET Tasks]
    /\ visited \in [Callers -> SUBSET Tasks]
    /\ item \in [Callers -> Tasks \cup {NoTask}]
    /\ \A c \in Callers : InCascade(c) => item[c] \in Tasks
    /\ abandoned \subseteq Tasks

\* A task that can never run again: cancelled, or failed for good.
Doomed(t) == status[t] = "CANCELLED" \/ (status[t] = "FAILED" /\ t \in fatal)

\* Some call still in progress is going to cancel u because of t.
Covered(t, u) ==
    \E c \in Callers :
        \/ pc[c] \in {"swapped", "announced"} /\ call[c].task = t /\ Cascades(c)
        \/ InCascade(c) /\ u \in todo[c] /\ t \in visited[c] \cup {call[c].task}
        \/ InCascade(c) /\ item[c] = t /\ u \in live[c] \ visited[c]

\* What a cascade in progress has established: a task is finished unless it
\* was live in the cascade's snapshot and has not been visited; the queue holds
\* such tasks only, and every live dependent of the initiator is in it.
CascadeSound ==
    \A c \in Callers : InCascade(c) =>
        /\ Cascades(c)
        /\ item[c] \in visited[c]
        /\ todo[c] \subseteq live[c] \ visited[c]
        /\ \A u \in Tasks \ (live[c] \ visited[c]) : Finished(u)
        /\ \A u \in Downstream(call[c].task) : Finished(u) \/ u \in todo[c]

\* "There is no state cancelled upstream, live downstream pending"
\* (docs/design/PLAN-LIFECYCLE.md, section 7), once the calls in progress are
\* taken into account: a dependent of a doomed task is finished, or a cascade
\* in progress is going to cancel it, unless a caller was cancelled before its
\* cascade was over.
NoOrphan ==
    \A t, u \in Tasks :
        <<t, u>> \in Edges /\ Doomed(t) /\ t \notin abandoned
            => Finished(u) \/ Covered(t, u)

\* The drift handler of a fatal failure is spawned after the cascade, so that
\* planner.refine never sees a live direct dependent of the failed task
\* (mark_task_failed: "The downstream cascade fires *before* we dispatch").
DriftAfterCascade ==
    \A t, u \in Tasks :
        <<t, u>> \in Edges /\ t \in drifts => Finished(u)

\* session.task_lineage holds no finished task: each terminal transition drops
\* the entry, the cascade's included, so that the reasoning judge never
\* attributes work to a finished task.
LineageIsLive == \A t \in lineage : ~Finished(t)

\* sync_current_task_from_transition is called "on every task transition", so
\* that the current-task pin is never left on a finished task.  The cascade
\* does not call it: the pin can stay on a task that a cascade cancelled, and
\* on no other finished task.
PinStrandedOnlyByCascade ==
    pin # NoTask => ~Finished(pin) \/ status[pin] = "CANCELLED"

\* What the code keeps next to the statuses follows them.
Bookkeeping == LineageIsLive /\ PinStrandedOnlyByCascade

\* A terminal status is announced to the sinks by a TaskTransitioned event, or a
\* call in progress still owes it, unless the caller that owed it was cancelled:
\* _emit_task_transitioned after every swap, the cascade's included.
Owes(c, t) ==
    \/ pc[c] = "swapped" /\ call[c].task = t /\ call[c].to \in Terminal
    \/ pc[c] = "cancelling" /\ item[c] = t
FinishAnnounced ==
    \A t \in Tasks : Finished(t) => t \in announced \cup abandoned \/ \E c \in Callers : Owes(c, t)

\* A finished task stays finished, and the only thing that can still happen to
\* its status is that a cascade whose snapshot predates the finish overwrites
\* it with CANCELLED.
FinishedIsFinal ==
    [][\A t \in Tasks :
          Finished(t) /\ status'[t] # status[t] =>
              /\ status'[t] = "CANCELLED"
              /\ \E c \in Callers : InCascade(c) /\ t \in live[c] \ visited[c]]_vars

(***************************************************************************)
(* What the documentation says, and the code does not do.                  *)
(***************************************************************************)

\* docs/design/STATE-MACHINE.md, Invariant 1: "Once a task is in COMPLETED,
\* FAILED, CANCELLED, or NOT_NEEDED, no further transition is legal."  A
\* cascade evaluates that guard on the plan it started from, so a task that
\* finishes while the cascade is suspended is overwritten.
TerminalStatesAbsorb ==
    [][\A t \in Tasks : Finished(t) => status'[t] = status[t]]_vars
=============================================================================
