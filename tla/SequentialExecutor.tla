------------------------- MODULE SequentialExecutor -------------------------
(***************************************************************************)
(* The per-task loop of SequentialExecutor.run (executors/sequential.py)   *)
(* with the control messages that reach it (control.py,                    *)
(* executors/_control.py).                                                 *)
(*                                                                         *)
(* The executor drains the control channel, picks a task whose             *)
(* dependencies are completed, and waits for the agent's invocation and    *)
(* the next control message together, whichever comes first.  The operator *)
(* (and the steerer, for the goldfive kinds) sends messages and may close  *)
(* the channel at any time; the agent reports on tasks and ends; drift     *)
(* handlers revise the plan at any suspension of the executor.             *)
(*                                                                         *)
(* A status transition is one step here, with its cascade, and so is a     *)
(* loop of transitions: TaskLifecycle has the steps in between.            *)
(***************************************************************************)
EXTENDS Naturals, Sequences, FiniteSets

CONSTANTS
    Tasks,           \* task ids
    InitialPlan,     \* those in the plan at the start
    Edges,           \* dependency edges <<from, to>>
    Root,            \* _lineage_root of each task
    Supersedes,      \* pairs <<r, t>>: r supersedes t, by link or by name
    Kinds,           \* the control kinds that are sent
    FailFast,        \* fail_fast
    Active,          \* steering_is_active
    MaxInvocations,  \* max_task_invocations
    LineageCap,      \* max_retries_per_task_lineage
    MaxMsgs,         \* bound on the messages sent
    MaxRevisions,    \* bound: drift handlers act below this revision index
    NoTask

\* GOLDFIVE_PAUSE_DEADLINE is GOLDFIVE_PAUSE_ESCALATE with a deadline_s.
Pauses == {"PAUSE", "GOLDFIVE_PAUSE_ESCALATE", "GOLDFIVE_PAUSE_DEADLINE"}
AllKinds == Pauses \cup {"CANCEL", "RESUME", "STEER", "REWIND_TO", "STATUS_QUERY",
                         "GOLDFIVE_STEER"}

ASSUME PlanAssumption ==
    /\ InitialPlan \subseteq Tasks
    /\ Edges \subseteq Tasks \X Tasks
    /\ Supersedes \subseteq Tasks \X Tasks
    /\ Root \in [Tasks -> Tasks]
    /\ NoTask \notin Tasks
ASSUME ControlAssumption == Kinds \subseteq AllKinds
ASSUME ParameterAssumption ==
    /\ FailFast \in BOOLEAN /\ Active \in BOOLEAN
    /\ MaxInvocations \in Nat /\ LineageCap \in Nat
    /\ MaxMsgs \in Nat /\ MaxRevisions \in Nat

Terminal == {"COMPLETED", "FAILED", "CANCELLED", "NOT_NEEDED"}
Live == {"PENDING", "RUNNING", "BLOCKED"}
NoPlan == [t \in Tasks |-> "ABSENT"]
NoMsg == 0

VARIABLES
    status,       \* session.plan: the status of each task
    revisions,    \* its revision_index
    seen,         \* last_revision_index
    view,         \* current_plan, while PlanRevised is emitted for it
    invocations,  \* invocations
    attempts,     \* lineage_invocations
    sent,         \* the messages, in the order they were sent
    inbox,        \* the channel's inbox: positions in sent
    closed,       \* the channel was closed
    held,         \* the message the finished recv_task holds
    acked,        \* the messages that were acknowledged
    lost,         \* messages taken from the inbox and then dropped
    pc,           \* where the executor is suspended
    cur,          \* the task it is working on
    invoke,       \* the invocation: none, running, or how it ended
    drained,      \* what _apply_pre_task_controls has collected
    steer,        \* the steer message to be applied
    applied       \* the steer messages given to the steerer

plan == <<status, revisions>>
cursor == <<seen, view>>
budget == <<invocations, attempts>>
channel == <<sent, inbox, closed>>
deliveries == <<held, acked, lost>>
steers == <<steer, applied>>
vars == <<plan, cursor, budget, channel, deliveries, pc, cur, invoke, drained, steers>>

NothingDrained == [cancel |-> FALSE, paused |-> FALSE, deadline |-> FALSE]

Init ==
    /\ status = [t \in Tasks |-> IF t \in InitialPlan THEN "PENDING" ELSE "ABSENT"]
    /\ revisions = 0 /\ seen = 0 /\ view = NoPlan
    /\ invocations = 0
    /\ attempts = [t \in Tasks |-> 0]
    /\ sent = <<>> /\ inbox = <<>> /\ closed = FALSE
    /\ held = NoMsg /\ acked = {} /\ lost = {}
    /\ pc = "drain" /\ cur = NoTask /\ invoke = "none"
    /\ drained = NothingDrained
    /\ steer = NoMsg /\ applied = {}

Over == pc \in {"completed", "aborted"}

\* The condition of the outer loop is evaluated at the start of an iteration.
NextIteration(used) == IF used < MaxInvocations THEN "drain" ELSE "end"

-----------------------------------------------------------------------------
(***************************************************************************)
(* The plan.  A plan has the edges between the tasks it has.               *)
(***************************************************************************)

PlanEdges(s) == {e \in Edges : s[e[1]] # "ABSENT" /\ s[e[2]] # "ABSENT"}

\* The tasks reachable from t along the edges E, t included.
Reach(E, t) ==
    {u \in Tasks : \A S \in SUBSET Tasks :
        t \in S /\ (\A e \in E : e[1] \in S => e[2] \in S) => u \in S}

\* mark_task_cancelled and a fatal mark_task_failed, with the cascade, which
\* goes through live tasks only.
LiveReach(t) ==
    Reach({e \in Edges : status[e[1]] \in Live /\ status[e[2]] \in Live}, t)
WithCascade(t, to) ==
    [u \in Tasks |-> IF u = t THEN to
                     ELSE IF u \in LiveReach(t) THEN "CANCELLED" ELSE status[u]]

\* mark_cancelled_if_live
CancelIfLive(t) == IF status[t] \in Live THEN WithCascade(t, "CANCELLED") ELSE status

\* Mutant: finished tasks are picked again.
ReadyAnyStatus(s, t) ==
    /\ s[t] # "ABSENT"
    /\ \A e \in PlanEdges(s) : e[2] = t => s[e[1]] = "COMPLETED"

\* _pick_next_task; tasks of one stage are in no particular order here.
Ready(s, t) ==
    /\ s[t] = "PENDING"
    /\ \A e \in PlanEdges(s) : e[2] = t => s[e[1]] = "COMPLETED"

Pending == {t \in Tasks : status[t] = "PENDING"}

\* _has_live_replacement and _fatally_failed_task_ids
Replaced(t) ==
    \E r \in Tasks \ {t} :
        \/ <<r, t>> \in Supersedes /\ status[r] \notin {"ABSENT", "FAILED", "CANCELLED"}
        \/ Root[r] = Root[t] /\ status[r] \in {"PENDING", "RUNNING"}
FatallyFailed == {t \in Tasks : status[t] = "FAILED" /\ ~Replaced(t)}

\* A drift handler installs a revision (PlanRevision): live tasks are dropped
\* or cancelled, new tasks are added; Plan.validate refuses a pending task
\* behind a task that can never complete.
Revise ==
    /\ ~Over
    /\ revisions < MaxRevisions
    /\ revisions' = revisions + 1
    /\ \E drop, cancel \in SUBSET {t \in Tasks : status[t] \in Live},
          add \in SUBSET {t \in Tasks : status[t] = "ABSENT"} :
         /\ drop \cap cancel = {}
         /\ status' = [t \in Tasks |->
                IF t \in drop THEN "ABSENT"
                ELSE IF t \in cancel THEN "CANCELLED"
                ELSE IF t \in add THEN "PENDING" ELSE status[t]]
         /\ \A e \in Edges : ~(/\ status'[e[1]] \in {"CANCELLED", "FAILED", "NOT_NEEDED"}
                               /\ status'[e[2]] = "PENDING")
    /\ UNCHANGED <<cursor, budget, channel, deliveries, pc, cur, invoke, drained, steers>>

\* The refines for a task failed once too often: the handler fails the task.
RefineGivesUp(t) ==
    /\ ~Over
    /\ revisions < MaxRevisions
    /\ status[t] \in Live
    /\ status' = WithCascade(t, "FAILED")
    /\ UNCHANGED <<revisions, cursor, budget, channel, deliveries, pc, cur, invoke,
                   drained, steers>>

-----------------------------------------------------------------------------
(***************************************************************************)
(* The control channel.                                                    *)
(***************************************************************************)

\* ControlChannel.send, while the run lasts.
Send(k, t) ==
    /\ ~Over
    /\ Len(sent) < MaxMsgs
    /\ k = "REWIND_TO" <=> t # NoTask
    /\ sent' = Append(sent, [kind |-> k, task |-> t])
    /\ inbox' = Append(inbox, Len(sent) + 1)
    /\ UNCHANGED <<plan, cursor, budget, closed, deliveries, pc, cur, invoke, drained,
                   steers>>

\* ControlChannel.close
Close ==
    /\ ~Over
    /\ ~closed
    /\ closed' = TRUE
    /\ UNCHANGED <<plan, cursor, budget, sent, inbox, deliveries, pc, cur, invoke, drained,
                   steers>>

Kind(m) == sent[m].kind

\* dispatch_control: only REWIND_TO changes the plan (_rewind_plan); a target
\* that is not in the plan is refused.  The message is acknowledged either way.
Rewinds(m) ==
    IF Kind(m) = "REWIND_TO" /\ status[sent[m].task] # "ABSENT"
      THEN Reach(PlanEdges(status), sent[m].task) ELSE {}

\* Mutant: a rewind that is refused is not acknowledged.
DispatchSilentRefusal(m) ==
    /\ status' = [t \in Tasks |-> IF t \in Rewinds(m) THEN "PENDING" ELSE status[t]]
    /\ acked' = IF Kind(m) = "REWIND_TO" /\ Rewinds(m) = {} THEN acked ELSE acked \cup {m}

Dispatch(m) ==
    /\ status' = [t \in Tasks |-> IF t \in Rewinds(m) THEN "PENDING" ELSE status[t]]
    /\ acked' = acked \cup {m}

\* A message of these kinds becomes the steer to be applied; the last one wins.
KeepSteer(m, kinds) == IF Kind(m) \in kinds THEN m ELSE steer

-----------------------------------------------------------------------------
(***************************************************************************)
(* Between tasks: _apply_pre_task_controls.                                *)
(***************************************************************************)

\* Mutant: the outcomes after a cancellation count.
CollectAfterCancel(d, k) ==
    [cancel   |-> k = "CANCEL",
     paused   |-> k \in Pauses \/ (d.paused /\ k # "RESUME"),
     deadline |-> k = "GOLDFIVE_PAUSE_DEADLINE"]
\* The outcomes are looked at in order, up to the first cancellation.
Collect(d, k) ==
    IF d.cancel THEN d
    ELSE [cancel   |-> k = "CANCEL",
          paused   |-> k \in Pauses \/ (d.paused /\ k # "RESUME"),
          deadline |-> \/ k = "GOLDFIVE_PAUSE_DEADLINE"
                       \/ d.deadline /\ k \notin {"RESUME", "GOLDFIVE_PAUSE_ESCALATE"}]

\* drain_controls takes and dispatches one message.
DrainOne ==
    /\ pc = "drain"
    /\ inbox # <<>>
    /\ inbox' = Tail(inbox)
    /\ LET m == Head(inbox)
           k == Kind(m)
       IN  /\ Dispatch(m)
           /\ drained' = Collect(drained, k)
           /\ steer' = IF drained.cancel THEN steer ELSE KeepSteer(m, {"STEER"})
    /\ UNCHANGED <<revisions, cursor, budget, sent, closed, held, lost, pc, cur, invoke,
                   applied>>

\* The inbox is empty: cancel, wait for a resume, or go on.  A receive on a
\* closed channel returns at once, which ends the pause.
DrainDone ==
    /\ pc = "drain"
    /\ inbox = <<>>
    /\ pc' = IF drained.cancel THEN "aborting"
             ELSE IF drained.paused /\ ~closed THEN "paused"
             ELSE IF steer # NoMsg THEN "steering" ELSE "read"
    /\ drained' = IF pc' = "paused" THEN drained ELSE NothingDrained
    /\ UNCHANGED <<plan, cursor, budget, channel, deliveries, cur, invoke, steers>>

\* The loop of the pause: one message is received and dispatched, and unless
\* it ends the pause receive is called again.
PausedReceive ==
    /\ pc = "paused"
    /\ inbox # <<>>
    /\ inbox' = Tail(inbox)
    /\ LET m == Head(inbox)
           k == Kind(m)
           ends == k \in {"RESUME", "STEER", "GOLDFIVE_STEER"} \/ Rewinds(m) # {} \/ closed
       IN  /\ Dispatch(m)
           /\ steer' = KeepSteer(m, {"STEER", "GOLDFIVE_STEER"})
           /\ pc' = IF k = "CANCEL" THEN "aborting"
                    ELSE IF ~ends THEN "paused"
                    ELSE IF steer' # NoMsg THEN "steering" ELSE "read"
           /\ drained' = IF pc' # "paused" THEN NothingDrained
                         ELSE [drained EXCEPT !.deadline = @ \/ k = "GOLDFIVE_PAUSE_DEADLINE"]
    /\ UNCHANGED <<revisions, cursor, budget, sent, closed, held, lost, cur, invoke,
                   applied>>

\* abort_expired_pause: nobody answered an escalation in time.
PauseExpires ==
    /\ pc = "paused"
    /\ drained.deadline
    /\ status' = [t \in Tasks |-> IF status[t] \in Live THEN "CANCELLED" ELSE status[t]]
    /\ pc' = "aborting"
    /\ drained' = NothingDrained
    /\ UNCHANGED <<revisions, cursor, budget, channel, deliveries, cur, invoke, steers>>

\* apply_steer: steerer.drift.observe(msg), which asks for a refine.  A steer
\* that interrupted a task starts a new iteration.
ApplySteer ==
    /\ pc = "steering"
    /\ applied' = applied \cup {steer}
    /\ steer' = NoMsg
    /\ pc' = IF cur = NoTask THEN "read" ELSE NextIteration(invocations)
    /\ cur' = NoTask
    /\ UNCHANGED <<plan, cursor, budget, channel, deliveries, invoke, drained>>

-----------------------------------------------------------------------------
(***************************************************************************)
(* The task: read the plan, pick, invoke, settle.                          *)
(***************************************************************************)

\* The plan was revised: PlanRevised is emitted before the plan that was read
\* is used.
AnnounceRevision ==
    /\ pc = "read"
    /\ revisions # seen
    /\ seen' = revisions
    /\ view' = status
    /\ pc' = "announcing"
    /\ UNCHANGED <<plan, budget, channel, deliveries, cur, invoke, drained, steers>>

CurrentPlan == IF pc = "announcing" THEN view ELSE status
Picking == pc = "announcing" \/ (pc = "read" /\ revisions = seen)

\* A ready task whose lineage has attempts left is started and invoked;
\* mark_task_running leaves a finished task alone.
StartTask(t) ==
    /\ Picking
    /\ Ready(CurrentPlan, t)
    /\ attempts[Root[t]] < LineageCap
    /\ invocations' = invocations + 1
    /\ attempts' = [attempts EXCEPT ![Root[t]] = @ + 1]
    /\ status' = IF status[t] \in Live THEN [status EXCEPT ![t] = "RUNNING"] ELSE status
    /\ view' = NoPlan
    /\ cur' = t
    /\ invoke' = "running"
    /\ pc' = IF closed THEN "awaiting" ELSE "invoking"
    /\ UNCHANGED <<revisions, seen, channel, deliveries, drained, steers>>

\* The lineage's attempts are spent: the task fails without an invocation.
SkipTask(t) ==
    /\ Picking
    /\ Ready(CurrentPlan, t)
    /\ attempts[Root[t]] >= LineageCap
    /\ status' = IF status[t] \in Live THEN [status EXCEPT ![t] = "FAILED"] ELSE status
    /\ view' = NoPlan
    /\ pc' = IF FailFast THEN "aborting" ELSE NextIteration(invocations)
    /\ UNCHANGED <<revisions, seen, budget, channel, deliveries, cur, invoke, drained,
                   steers>>

\* The agent reports on a task through the reporting tools.
AgentReports(t, to, recoverable) ==
    /\ pc \in {"invoking", "awaiting", "cancelling"}
    /\ invoke = "running"
    /\ status[t] \in Live
    /\ CASE to = "RUNNING" -> status[t] \in {"PENDING", "BLOCKED"}
         [] to = "BLOCKED" -> status[t] \in {"PENDING", "RUNNING"}
         [] to \in {"COMPLETED", "FAILED"} -> TRUE
    /\ status' = IF to = "FAILED" /\ ~recoverable
                   THEN WithCascade(t, "FAILED") ELSE [status EXCEPT ![t] = to]
    /\ UNCHANGED <<revisions, cursor, budget, channel, deliveries, pc, cur, invoke, drained,
                   steers>>

\* adapter.invoke returns a result, with or without an error, raises, or is
\* cancelled by somebody else.
AgentEnds(how) ==
    /\ pc \in {"invoking", "awaiting"}
    /\ invoke = "running"
    /\ invoke' = how
    /\ UNCHANGED <<plan, cursor, budget, channel, deliveries, pc, cur, drained, steers>>

\* recv_task takes a message from the inbox.
Receive ==
    /\ pc = "invoking"
    /\ held = NoMsg
    /\ inbox # <<>>
    /\ held' = Head(inbox)
    /\ inbox' = Tail(inbox)
    /\ UNCHANGED <<plan, cursor, budget, sent, closed, acked, lost, pc, cur, invoke,
                   drained, steers>>

\* asyncio.wait returns and the invocation is done.  recv_task is cancelled if
\* it is not done, and dropped with the message it holds if it is.
InvocationDone ==
    /\ pc \in {"invoking", "awaiting"}
    /\ invoke # "running"
    /\ lost' = IF held # NoMsg THEN lost \cup {held} ELSE lost
    /\ held' = NoMsg
    /\ pc' = CASE invoke = "raised" -> "aborting"
               [] invoke = "cancelled" -> "cancelling"
               [] invoke \in {"result", "error"} -> "observing"
    /\ UNCHANGED <<plan, cursor, budget, channel, acked, cur, invoke, drained, steers>>

\* asyncio.wait returns with a message while the invocation runs.  CANCEL and
\* STEER cancel the invocation; every other kind is acknowledged, and the
\* executor waits again.
MessageDone ==
    LET k == Kind(held)
    IN  /\ pc = "invoking"
        /\ invoke = "running"
        /\ held # NoMsg
        /\ Dispatch(held)
        /\ steer' = KeepSteer(held, {"STEER"})
        /\ pc' = IF k \in {"CANCEL", "STEER"} THEN "cancelling"
                 ELSE IF closed THEN "awaiting" ELSE "invoking"
        /\ held' = NoMsg
        /\ UNCHANGED <<revisions, cursor, budget, channel, lost, cur, invoke, drained,
                       applied>>

\* _cancel_invoke_task returned: the task is cancelled if it is still live.
InvocationCancelled ==
    /\ pc = "cancelling"
    /\ invoke' = "none"
    /\ status' = CancelIfLive(cur)
    /\ pc' = IF steer # NoMsg THEN "steering" ELSE "aborting"
    /\ UNCHANGED <<revisions, cursor, budget, channel, deliveries, cur, drained, steers>>

\* The result was observed: a task the agent left open is completed, or failed
\* if the invocation reported an error.
Settled ==
    IF status[cur] \in {"PENDING", "RUNNING"}
      THEN [status EXCEPT ![cur] = IF invoke = "error" THEN "FAILED" ELSE "COMPLETED"]
      ELSE status

Settle ==
    /\ pc = "observing"
    /\ status' = Settled
    /\ pc' = IF Settled[cur] = "FAILED" /\ FailFast /\ Active /\ ~Replaced(cur)
               THEN "aborting" ELSE NextIteration(invocations)
    /\ invoke' = "none"
    /\ cur' = NoTask
    /\ UNCHANGED <<revisions, cursor, budget, channel, deliveries, drained, steers>>

-----------------------------------------------------------------------------
(***************************************************************************)
(* The end of the run.                                                     *)
(***************************************************************************)

\* The loop is left: the invocations are used up, or nothing is ready in the
\* plan that was read.
LoopExit == pc = "end" \/ (Picking /\ \A t \in Tasks : ~Ready(CurrentPlan, t))

Exhausted == invocations >= MaxInvocations /\ \E t \in Tasks : Ready(status, t)
FailedForGood == FatallyFailed # {} /\ ~FailFast /\ Active

\* The invocations are used up, or a task failed for good.
EndAborts ==
    /\ LoopExit
    /\ Exhausted \/ FailedForGood
    /\ view' = NoPlan
    /\ pc' = "aborting"
    /\ UNCHANGED <<plan, seen, budget, channel, deliveries, cur, invoke, drained, steers>>

\* Tasks are pending and none was ready: they are cancelled as orphans.
EndCancelsOrphans ==
    /\ LoopExit
    /\ ~Exhausted /\ ~FailedForGood
    /\ Pending # {}
    /\ status' = [t \in Tasks |->
            IF \E o \in Pending : t \in LiveReach(o) THEN "CANCELLED" ELSE status[t]]
    /\ view' = NoPlan
    /\ pc' = "aborting"
    /\ UNCHANGED <<revisions, seen, budget, channel, deliveries, cur, invoke, drained,
                   steers>>

\* Nothing is pending: the goals' predicates decide.
EndEvaluatesGoals(met) ==
    /\ LoopExit
    /\ ~Exhausted /\ ~FailedForGood
    /\ Pending = {}
    /\ view' = NoPlan
    /\ pc' = IF met THEN "completing" ELSE "aborting"
    /\ UNCHANGED <<plan, seen, budget, channel, deliveries, cur, invoke, drained, steers>>

\* _drain_steerer_at_run_boundary is over: RunCompleted or RunAborted.
RunEnds ==
    /\ pc \in {"completing", "aborting"}
    /\ pc' = IF pc = "completing" THEN "completed" ELSE "aborted"
    /\ cur' = NoTask
    /\ invoke' = "none"
    /\ UNCHANGED <<plan, cursor, budget, channel, deliveries, drained, steers>>

Outcomes == {"result", "error", "raised", "cancelled"}

Executor ==
    \/ DrainOne \/ DrainDone \/ PausedReceive \/ ApplySteer \/ AnnounceRevision
    \/ \E t \in Tasks : StartTask(t) \/ SkipTask(t)
    \/ InvocationDone \/ MessageDone \/ InvocationCancelled \/ Settle
    \/ EndAborts \/ EndCancelsOrphans \/ RunEnds
    \/ \E met \in BOOLEAN : EndEvaluatesGoals(met)

Agent ==
    \/ \E t \in Tasks, to \in {"RUNNING", "BLOCKED", "COMPLETED", "FAILED"},
          recoverable \in BOOLEAN : AgentReports(t, to, recoverable)
    \/ \E how \in Outcomes : AgentEnds(how)

Operator ==
    \/ \E k \in Kinds, t \in Tasks \cup {NoTask} : Send(k, t)
    \/ Close

DriftHandlers == Revise \/ \E t \in Tasks : RefineGivesUp(t)

Next == Executor \/ PauseExpires \/ Receive \/ Agent \/ Operator \/ DriftHandlers

Spec == Init /\ [][Next]_vars

\* The event loop resumes the executor and recv_task, an invocation ends and a
\* deadline expires.  Nothing is assumed of the operator or of drift handlers.
FairSpec ==
    /\ Spec
    /\ WF_vars(Executor)
    /\ WF_vars(Receive)
    /\ WF_vars(PauseExpires)
    /\ WF_vars(\E how \in Outcomes : AgentEnds(how))

-----------------------------------------------------------------------------
(***************************************************************************)
(* Properties.                                                             *)
(***************************************************************************)

Messages == 1 .. Len(sent)
Queued == {inbox[i] : i \in 1 .. Len(inbox)}

\* "Every message produces exactly one ack" (docs/design/CONTROL.md, section
\* 2.b), except for the message recv_task holds when the invocation ends: a
\* message is in the inbox, held, acknowledged or lost, and in one of them only.
\* And an acknowledged STEER reaches the steerer, or a later steer does, unless
\* the run is over: it survives a pause, the cancellation of the invocation and
\* the statuses the agent reports meanwhile.
MessagesKept ==
    /\ Queued \cup {held} \cup acked \cup lost = Messages \cup {held}
    /\ held # NoMsg => pc = "invoking"
    /\ \A m \in Messages :
          Cardinality({i \in 1 .. Len(inbox) : inbox[i] = m})
            + (IF held = m THEN 1 ELSE 0) + (IF m \in acked THEN 1 ELSE 0)
            + (IF m \in lost THEN 1 ELSE 0) = 1
    /\ \A m \in acked : Kind(m) = "STEER" =>
          \/ drained.cancel
          \/ pc \in {"end", "aborting", "aborted", "completing", "completed"}
          \/ \E n \in applied \cup {steer} : n >= m

\* The run ends or comes to a pause that waits for an answer: neither rewinds,
\* nor revisions, nor an agent that changes its reports keep it going.
EndsOrWaits == []<>(Over \/ pc = "paused")

\* An acknowledged CANCEL aborts the run, also during an invocation and in a
\* pause.
CancelAborts == (\E m \in acked : Kind(m) = "CANCEL") ~> pc = "aborted"
=============================================================================
