--------------------------- MODULE OverlayExecutor ---------------------------
(***************************************************************************)
(* The overlay loop of SequentialExecutor (executors/sequential.py): the   *)
(* agent tree is invoked as a whole, the reconciler (reconciler.py) binds  *)
(* the turns of its agents to tasks of the plan, and drift handlers        *)
(* (drift_observer.py) may replace the plan and cancel the invocation.     *)
(*                                                                         *)
(* The loop tells a cancellation that a revision caused (it starts over)   *)
(* from any other (it aborts) by a flag of the session.  Without a control *)
(* channel a cancelled invocation is not told at all: it ends the run.     *)
(*                                                                         *)
(* An agent may have several turns open at once, for a model may call the  *)
(* same agent several times in one step; what the reconciler notes is kept *)
(* by the agent's name.  An invocation that ignores its cancellation for   *)
(* five seconds is left running next to the following one, with the same   *)
(* reconciler.                                                             *)
(*                                                                         *)
(* A status transition with its cascade is one step; TaskLifecycle has the *)
(* steps in between.  The cancellation marks kept per invocation           *)
(* (state_store.py) are set and cleared with the flag, and stand for it.   *)
(***************************************************************************)
EXTENDS PlanGraph, Sequences

CONSTANTS
    InitialPlan,    \* the tasks of the plan at the start
    Edges,          \* the dependencies plans are made of
    Supersedes,     \* Supersedes[r]: the task r replaces, or NoTask
    Outcomes,       \* the tasks of kind OUTCOME
    Agents, Host,   \* the agents of the tree, and its root
    Calls,          \* the turns of one invocation that may be open at once
    NameOf,         \* the agent of a turn
    Parent,         \* the turn that calls for a turn, NoTask for the root
    Assignee,       \* assignee_agent_id of each task, NoTask for none
    Active,         \* steering_is_active
    FailFast,       \* fail_fast
    FailOnCancel,   \* fail_fast_on_invoke_cancel
    Growth,         \* descriptive_growth_enabled
    Kinds,          \* the control messages that are sent
    Channels,       \* whether there is a control channel: TRUE, FALSE, or both are tried
    MaxReplays,     \* _MAX_NUDGE_REPLAYS
    MaxMsgs,        \* bound on the messages sent
    MaxRevisions    \* bound on the revisions drift handlers install

AllKinds == {"CANCEL", "STEER", "GOLDFIVE_STEER", "GOLDFIVE_PAUSE_ESCALATE", "REWIND_TO",
             "PAUSE"}

ASSUME OverlayAssumption ==
    /\ InitialPlan \subseteq Tasks /\ Outcomes \subseteq Tasks
    /\ Edges \subseteq Tasks \X Tasks
    /\ Supersedes \in [Tasks -> Tasks \cup {NoTask}]
    /\ Host \in Agents /\ NoTask \notin Calls
    /\ NameOf \in [Calls -> Agents]
    /\ Parent \in [Calls -> Calls \cup {NoTask}]
    /\ Assignee \in [Tasks -> Agents \cup {NoTask}] /\ NoTask \notin Agents
    /\ Channels \subseteq BOOLEAN
    /\ {Active, FailFast, FailOnCancel, Growth} \subseteq BOOLEAN
    /\ Kinds \subseteq AllKinds
    /\ MaxReplays \in Nat /\ MaxMsgs \in Nat /\ MaxRevisions \in Nat

VARIABLES
    plan,        \* session.plan
    revisions,   \* how many revisions were installed
    nudge,       \* a nudge or a broadcast observer note is pending
    channel,     \* control is not None
    inbox,       \* the control channel: kinds, in order
    sent,        \* how many messages were sent
    held,        \* the message the finished recv_task holds
    pc,          \* where the executor is suspended
    why,         \* how _invoke_passthrough_with_control will return
    invoke,      \* the invocation: none, running, dying, or how it ended
    flag,        \* _supersede_pending, and the registry next to it
    replays,     \* state.nudge_replays
    claim,       \* _running_by_agent
    offPlan,     \* _off_plan_seen
    seen,        \* the agents of _invocation_agent
    sweep,       \* unreachable, during the sweep
    attached,    \* the plugin has the pass's context and reconciler
    turn,        \* the open turns of the invocation, and of the one left behind:
                 \* the task a turn has claimed, NoTask for none
    stray,       \* an invocation was left behind and goes on
    overlapped,  \* history: agents two of whose turns were open at once
    causes,      \* history: who has cancelled the invocation
    stamped      \* history: a revision was stamped in this iteration

control == <<channel, inbox, sent, held>>
reconciler == <<claim, offPlan, seen>>
turns == <<attached, turn, stray, overlapped>>
history == <<causes, stamped>>
vars == <<plan, revisions, nudge, control, pc, why, invoke, flag, replays, reconciler,
          sweep, turns, history>>

Closed == "closed"     \* a turn that is not open
ASSUME ClosedAssumption == Closed \notin Tasks \cup {NoTask}
NoMsg == "none"
Flights == {"own", "left"}     \* the invocation, and the one left behind
NoTurns == [i \in Calls |-> Closed]
NoClaims == [a \in Agents |-> NoTask]

PlanOf(s) ==
    LET has == {t \in Tasks : s[t] # "ABSENT"}
    IN  [status |-> s,
         edges |-> {e \in Edges : e[1] \in has /\ e[2] \in has},
         supersedes |-> [t \in Tasks |-> IF t \in has THEN Supersedes[t] ELSE NoTask]]

Init ==
    /\ plan = PlanOf([t \in Tasks |-> IF t \in InitialPlan THEN "PENDING" ELSE "ABSENT"])
    /\ revisions = 0 /\ nudge = FALSE
    /\ channel \in Channels
    /\ inbox = <<>> /\ sent = 0 /\ held = NoMsg
    /\ pc = "top" /\ why = "none" /\ invoke = "none"
    /\ flag = FALSE /\ replays = 0
    /\ claim = NoClaims /\ offPlan = {} /\ seen = {}
    /\ sweep = {} /\ attached = FALSE
    /\ turn = [f \in Flights |-> NoTurns] /\ stray = FALSE /\ overlapped = {}
    /\ causes = {} /\ stamped = FALSE

Over == pc \in {"completed", "aborted", "paused", "raised"}
Set(t, to) == WithStatus(plan, t, to)

-----------------------------------------------------------------------------
(***************************************************************************)
(* The invocation.                                                         *)
(***************************************************************************)

Alive == invoke \in {"running", "dying"}
Endings == {"result", "cancelled", "error"}

\* The task of the invocation is cancelled: call_soon(task.cancel), or
\* invoke_task.cancel() directly.
Cancelled(by) ==
    /\ invoke' = IF Alive THEN "dying" ELSE invoke
    /\ causes' = IF Alive THEN causes \cup {by} ELSE causes

\* The adapter's coroutine ends, and drops the plugin's context and reconciler
\* (clear_active_context).  A CancelledError may come from the framework as
\* well, and a cancellation may be swallowed.
InvokeEnds(how) ==
    /\ Alive
    /\ invoke' = how
    /\ causes' = IF how = "cancelled" /\ invoke = "running" THEN causes \cup {"framework"}
                 ELSE causes
    /\ attached' = FALSE /\ turn' = [turn EXCEPT !["own"] = NoTurns]
    /\ UNCHANGED <<plan, revisions, nudge, control, pc, why, flag, replays, reconciler, sweep,
                   stray, overlapped, stamped>>

\* The invocation that was left behind ends at last.  The context and the
\* reconciler it drops are those of the pass under way.
StrayEnds ==
    /\ stray /\ stray' = FALSE
    /\ attached' = FALSE /\ turn' = [turn EXCEPT !["left"] = NoTurns]
    /\ UNCHANGED <<plan, revisions, nudge, control, pc, why, invoke, flag, replays,
                   reconciler, sweep, overlapped, history>>

-----------------------------------------------------------------------------
(***************************************************************************)
(* The reconciler.  The handlers are the same for a turn of the invocation *)
(* and for one of the invocation left behind.                              *)
(***************************************************************************)

\* _agent_has_any_plan_task, _pick_pending_for_agent: the first in plan order,
\* which is any here.  Dependencies play no part.
Planned(a) == \E t \in Ids(plan) : Assignee[t] = a
PendingFor(a) == {t \in Tasks : plan.status[t] = "PENDING" /\ Assignee[t] = a}

\* _parent_chain: the turns above that were observed.
Chain(i) ==
    LET up[n \in 0 .. Cardinality(Calls)] ==
            IF n = 0 THEN {i}
            ELSE up[n - 1] \cup ({Parent[j] : j \in up[n - 1]} \cap Calls)
    IN  {j \in up[Cardinality(Calls)] \ {i} : NameOf[j] \in seen}

\* _pick_pending_via_parent_chain: the nearest ancestor with pending tasks.
PendingAbove(i) ==
    LET with == {j \in Chain(i) : PendingFor(NameOf[j]) # {}}
    IN  UNION {PendingFor(NameOf[j]) : j \in {c \in with : \A d \in with : c \notin Chain(d)}}

\* _is_host_agent_turn: the root, when the plan has no task for it.
HostTurn(a) == a = Host /\ ~Planned(a)

\* The agent is known to the plan, directly, above it or below it; the last is
\* _invocation_chain_contains_plan_attached_descendant.
Known(i) ==
    \/ Planned(NameOf[i])
    \/ \E j \in Chain(i) : Planned(NameOf[j])
    \/ \E d \in Calls : NameOf[d] \in seen /\ i \in Chain(d) /\ Planned(NameOf[d])

Claims(a, t) == claim' = [claim EXCEPT ![a] = t]

\* on_before_agent: the turn claims the task mine, or none.  A claim that
\* another turn of the agent has made is overwritten.
BeforeAgent(i, mine) ==
    LET a == NameOf[i]
        picked == IF PendingFor(a) # {} THEN PendingFor(a) ELSE PendingAbove(i)
        grown == {t \in Tasks : plan.status[t] = "ABSENT" /\ Assignee[t] = a}
    IN  /\ seen' = seen \cup {a}
        /\ \/ /\ ~HostTurn(a)                       \* a task is matched
              /\ mine \in picked
              /\ Claims(a, mine)
              /\ plan' = Set(mine, "RUNNING")
              /\ UNCHANGED offPlan
           \/ /\ ~HostTurn(a) /\ picked = {}        \* the plan grows by a task, without edges
              /\ a \notin offPlan /\ ~Known(i)
              /\ Growth
              /\ mine \in grown
              /\ Claims(a, mine)
              /\ plan' = Set(mine, "RUNNING")
              /\ UNCHANGED offPlan
           \/ /\ ~HostTurn(a) /\ picked = {}        \* growth is off or fails: a divergence
              /\ a \notin offPlan /\ ~Known(i)
              /\ mine = NoTask
              /\ offPlan' = offPlan \cup {a}
              /\ UNCHANGED <<claim, plan>>
           \/ /\ mine = NoTask                      \* nothing to do
              /\ HostTurn(a) \/ (picked = {} /\ (a \in offPlan \/ Known(i)))
              /\ UNCHANGED <<claim, plan, offPlan>>

\* on_after_agent: the claim of the agent's name is popped, whichever turn made
\* it.  FAILED is recoverable here and does not cascade.
AfterAgent(a, failed) ==
    LET t == IF HostTurn(a) THEN NoTask ELSE claim[a]
    IN  /\ IF t = NoTask \/ plan.status[t] \notin Live THEN UNCHANGED plan
           ELSE plan' = Set(t, IF failed THEN "FAILED" ELSE "COMPLETED")
        /\ claim' = IF HostTurn(a) THEN claim ELSE [claim EXCEPT ![a] = NoTask]
        /\ UNCHANGED <<offPlan, seen>>

Reconciled == UNCHANGED <<revisions, nudge, control, pc, why, invoke, flag, replays, sweep,
                          attached, stray, history>>

\* An invocation goes on until it ends, cancelled or not.
Going(f) == IF f = "own" THEN Alive ELSE stray

\* The other open turns of the agent of a turn.
Alongside(f, i) ==
    {x \in (Flights \X Calls) \ {<<f, i>>} :
        NameOf[x[2]] = NameOf[i] /\ turn[x[1]][x[2]] # Closed}

\* A turn starts when the turn that calls for it is open.
TurnBegins(f, i) ==
    /\ Going(f) /\ turn[f][i] = Closed
    /\ Parent[i] # NoTask => turn[f][Parent[i]] # Closed
    /\ \E mine \in Tasks \cup {NoTask} :
          /\ IF attached THEN BeforeAgent(i, mine)
             ELSE mine = NoTask /\ UNCHANGED <<plan, reconciler>>
          /\ turn' = [turn EXCEPT ![f][i] = mine]
    /\ overlapped' = IF f = "left" \/ Alongside(f, i) # {} THEN overlapped \cup {NameOf[i]}
                     ELSE overlapped
    /\ Reconciled

\* When the last turn of an agent ends, nothing of the overlap is left.
TurnEnds(f, i) ==
    /\ Going(f) /\ turn[f][i] # Closed
    /\ \A j \in Calls : Parent[j] = i => turn[f][j] = Closed
    /\ IF attached THEN \E failed \in BOOLEAN : AfterAgent(NameOf[i], failed)
       ELSE UNCHANGED <<plan, reconciler>>
    /\ turn' = [turn EXCEPT ![f][i] = Closed]
    /\ overlapped' = IF attached /\ Alongside(f, i) = {} THEN overlapped \ {NameOf[i]}
                     ELSE overlapped
    /\ Reconciled

\* A reporting tool of an agent moves the task of its turn; a fatal failure
\* cascades (reporting/handlers.py).
AgentReports(f, i) ==
    LET t == turn[f][i]
    IN  /\ Going(f) /\ attached /\ t \in Tasks
        /\ plan.status[t] \in Live
        /\ plan' \in {Set(t, "COMPLETED"), Set(t, "BLOCKED"), WithCascade(plan, t, "FAILED")}
        /\ UNCHANGED <<reconciler, turn, overlapped>> /\ Reconciled

Reconciler ==
    \E f \in Flights, i \in Calls : TurnBegins(f, i) \/ TurnEnds(f, i) \/ AgentReports(f, i)

-----------------------------------------------------------------------------
(***************************************************************************)
(* Drift handlers and the operator.                                        *)
(***************************************************************************)

\* A refine replaces live tasks and adds new ones, without edges from tasks
\* that cannot complete to pending ones; Plan.validate accepts it.
Revised(drop, add) ==
    LET new == PlanOf([t \in Tasks |-> IF t \in drop THEN "CANCELLED"
                                       ELSE IF t \in add THEN "PENDING" ELSE plan.status[t]])
    IN  [new EXCEPT !.edges = {e \in @ :
            ~(new.status[e[1]] \in Dead /\ new.status[e[2]] = "PENDING")}]
Revisions ==
    {p \in {Revised(drop, add) : drop \in SUBSET {t \in Tasks : plan.status[t] \in Live},
                                 add \in SUBSET {t \in Tasks : plan.status[t] = "ABSENT"}} :
        ValidRevision(p, plan) /\ p # plan}

\* _cancel_inflight_for_revision of a drift that may cancel: the mark first,
\* then request_invocation_cancel for the invocations that
\* _resolve_active_invocation_ids finds.  They are not reached when none is
\* registered, or when the same drift has already flagged them in the plugin
\* (_cancelled_drift_ids) and they are to end by themselves.
Supersede(reached) ==
    /\ stamped' = TRUE /\ flag' = TRUE
    /\ IF reached THEN Cancelled("supersede") ELSE UNCHANGED <<invoke, causes>>

\* _handle_drift_dispatch installs a revision, in the background, and may queue
\* a nudge for it.  A drift without authority to cancel
\* (_drift_authorizes_inflight_cancel) leaves the invocation alone.  Without
\* active steering nothing is installed and nobody is cancelled, but the mark
\* is made.
DriftRevises ==
    /\ ~Over /\ revisions < MaxRevisions
    /\ revisions' = revisions + 1
    /\ IF Active THEN plan' \in Revisions ELSE UNCHANGED plan
    /\ \E nudged \in BOOLEAN : nudge' = (nudge \/ nudged)
    /\ \/ UNCHANGED <<stamped, flag, invoke, causes>>
       \/ \E reached \in BOOLEAN : (reached => Active /\ Alive) /\ Supersede(reached)
    /\ UNCHANGED <<control, pc, why, replays, reconciler, sweep, turns>>

\* A drift at the absorb level queues a note (_route_corrective_note).
DriftNudges ==
    /\ ~Over /\ nudge' = TRUE
    /\ UNCHANGED <<plan, revisions, control, pc, why, invoke, flag, replays, reconciler, sweep,
                   turns, history>>

\* The operator, or the steerer for the goldfive kinds, sends a message.
Send(kind) ==
    /\ ~Over /\ channel /\ sent < MaxMsgs
    /\ inbox' = Append(inbox, kind) /\ sent' = sent + 1
    /\ UNCHANGED <<plan, revisions, nudge, channel, held, pc, why, invoke, flag, replays,
                   reconciler, sweep, turns, history>>

-----------------------------------------------------------------------------
(***************************************************************************)
(* The loop.                                                               *)
(***************************************************************************)

\* Mutant: the mark of the iteration before survives.
ForgetNoSupersede == stamped' = FALSE /\ UNCHANGED flag

\* _clear_stale_supersede at the top, then a fresh invocation, to which the
\* adapter attaches the plugin.
ClearStaleSupersede == flag' = FALSE /\ stamped' = FALSE

Iterate ==
    /\ pc = "top" /\ pc' = "race"
    /\ ClearStaleSupersede
    /\ invoke' = "running" /\ causes' = {} /\ why' = "none"
    /\ attached' = TRUE
    /\ UNCHANGED <<plan, revisions, nudge, control, replays, reconciler, sweep, turn, stray,
                   overlapped>>

\* The recv_task takes a message.
Receive ==
    /\ pc = "race" /\ held = NoMsg /\ inbox # <<>>
    /\ held' = Head(inbox) /\ inbox' = Tail(inbox)
    /\ UNCHANGED <<plan, revisions, nudge, channel, sent, pc, why, invoke, flag, replays,
                   reconciler, sweep, turns, history>>

\* The invocation has ended: a message the recv_task holds by now is dropped.
RaceWon ==
    /\ pc = "race" /\ ~Alive
    /\ channel \/ invoke # "cancelled"
    /\ pc' = "returned" /\ why' = invoke /\ invoke' = "none"
    /\ held' = NoMsg
    /\ UNCHANGED <<plan, revisions, nudge, channel, inbox, sent, flag, replays, reconciler,
                   sweep, turns, history>>

\* Without a control channel the CancelledError is raised again, whoever caused
\* it, and leaves run(): no RunCompleted or RunAborted.
RaceRaises ==
    /\ pc = "race" /\ ~channel /\ invoke = "cancelled"
    /\ pc' = "raised" /\ why' = invoke /\ invoke' = "none"
    /\ UNCHANGED <<plan, revisions, nudge, control, flag, replays, reconciler, sweep, turns,
                   history>>

\* _rewind_plan: the task and all that depends on it are pending again.
Rewound(t) ==
    [plan EXCEPT !.status = [u \in Tasks |->
        IF u \in Reach(plan.edges, {t}) THEN "PENDING" ELSE plan.status[u]]]

\* dispatch_control and the ack.  CANCEL, the steers and an active pause cancel
\* the invocation; the other kinds leave it alone.
Dispatch ==
    /\ pc = "race" /\ Alive /\ held # NoMsg
    /\ held' = NoMsg
    /\ IF held = "REWIND_TO" THEN \E t \in Ids(plan) : plan' = Rewound(t) ELSE UNCHANGED plan
    /\ IF \/ held \in {"CANCEL", "STEER", "GOLDFIVE_STEER"}
          \/ held = "GOLDFIVE_PAUSE_ESCALATE" /\ Active
       THEN pc' = "grace" /\ why' = held /\ Cancelled("control")
       ELSE UNCHANGED <<pc, why, invoke, causes>>
    /\ UNCHANGED <<revisions, nudge, channel, inbox, sent, flag, replays, reconciler, sweep,
                   turns, stamped>>

\* _cancel_invoke_task: until the invocation has ended ...
GraceOver ==
    /\ pc = "grace" /\ ~Alive
    /\ pc' = "returned" /\ invoke' = "none"
    /\ UNCHANGED <<plan, revisions, nudge, control, why, flag, replays, reconciler,
                   sweep, turns, history>>

\* ... or for five seconds; then it is left to itself, with the turns it has
\* open.  One at a time here.
GraceExpires ==
    /\ pc = "grace" /\ Alive /\ ~stray
    /\ pc' = "returned" /\ invoke' = "none"
    /\ stray' = TRUE
    /\ turn' = [f \in Flights |-> IF f = "left" THEN turn["own"] ELSE NoTurns]
    /\ overlapped' = overlapped \cup {NameOf[i] : i \in {j \in Calls : turn["own"][j] # Closed}}
    /\ UNCHANGED <<plan, revisions, nudge, control, why, flag, replays, reconciler, sweep,
                   attached, history>>

\* Mutant: what the agents of the cancelled invocation had claimed is kept.
ResetNothing == UNCHANGED <<claim, offPlan>>

\* reset_for_new_plan
Reset == claim' = NoClaims /\ offPlan' = {}

\* The loop starts over.  Of an overlap only the turns left behind remain.
StartsOver ==
    /\ Reset /\ pc' = "top"
    /\ overlapped' = {NameOf[i] : i \in {j \in Calls : turn["left"][j] # Closed}}
    /\ UNCHANGED <<attached, turn, stray>>

\* _handle_invoke_cancelled: the invocation was superseded, and the loop starts
\* over.
SupersedeRestarts ==
    /\ pc = "returned" /\ why \in {"cancelled", "CANCEL"}
    /\ flag /\ ~FailOnCancel
    /\ flag' = FALSE
    /\ StartsOver
    /\ UNCHANGED <<plan, revisions, nudge, control, why, invoke, replays, seen, sweep, history>>

\* _handle_invoke_cancelled: any other cancellation aborts the run.
CancelAborts ==
    /\ pc = "returned" /\ why \in {"cancelled", "CANCEL"}
    /\ ~flag \/ FailOnCancel
    /\ flag' = FALSE
    /\ pc' = "aborted"
    /\ UNCHANGED <<plan, revisions, nudge, control, why, invoke, replays, reconciler, sweep,
                   turns, history>>

ErrorAborts ==
    /\ pc = "returned" /\ why = "error"
    /\ pc' = "aborted"
    /\ UNCHANGED <<plan, revisions, nudge, control, why, invoke, flag, replays, reconciler,
                   sweep, turns, history>>

\* _restart_after_user_steer: apply_steer lets the steerer revise the plan, a
\* user-authored revision that always lands and marks the session, or not.
SteerRestarts ==
    /\ pc = "returned" /\ why = "STEER"
    /\ \/ /\ plan' \in Revisions /\ Supersede(FALSE)
       \/ UNCHANGED <<plan, flag, stamped, invoke, causes>>
    /\ StartsOver
    /\ UNCHANGED <<revisions, nudge, control, why, replays, seen, sweep>>

\* _restart_after_goldfive_steer: the plan was revised before the message.
GoldfiveSteerRestarts ==
    /\ pc = "returned" /\ why = "GOLDFIVE_STEER"
    /\ StartsOver
    /\ UNCHANGED <<plan, revisions, nudge, control, why, invoke, flag, replays, seen, sweep,
                   history>>

\* _handle_goldfive_pause ends the turn, without a RunCompleted or RunAborted.
PauseEnds ==
    /\ pc = "returned" /\ why = "GOLDFIVE_PAUSE_ESCALATE"
    /\ pc' = "paused"
    /\ UNCHANGED <<plan, revisions, nudge, control, why, invoke, flag, replays, reconciler,
                   sweep, turns, history>>

\* _has_live_pending_or_running
Unfinished(p) == \E t \in Tasks \ Outcomes : p.status[t] \in {"PENDING", "RUNNING"}

\* Mutant: replays are not counted.
ReplayForever ==
    /\ pc = "returned" /\ why = "result"
    /\ nudge /\ Unfinished(plan) /\ Active
    /\ nudge' = FALSE
    /\ StartsOver
    /\ UNCHANGED <<plan, revisions, control, why, invoke, flag, replays, seen, sweep, history>>

\* _drain_nudges: a nudge is replayed to the tree as a new message.
Replay ==
    /\ pc = "returned" /\ why = "result"
    /\ nudge /\ replays < MaxReplays /\ Unfinished(plan) /\ Active
    /\ nudge' = FALSE /\ replays' = replays + 1
    /\ StartsOver
    /\ UNCHANGED <<plan, revisions, control, why, invoke, flag, seen, sweep, history>>

\* _drain_nudges without a replay: the loop ends.
NoReplay ==
    /\ pc = "returned" /\ why = "result"
    /\ ~nudge \/ replays >= MaxReplays \/ ~Unfinished(plan) \/ ~Active
    /\ nudge' = (nudge /\ Active)
    /\ pc' = "finalize"
    /\ UNCHANGED <<plan, revisions, control, why, invoke, flag, replays, reconciler, sweep,
                   turns, history>>

\* _finalize_outcomes_at_run_boundary: the judge's verdict on each deliverable
\* that is open: met, unmet, or left pending.
FinalizeOutcomes ==
    /\ pc = "finalize"
    /\ \E v \in [{t \in Outcomes : plan.status[t] \in Live} -> {"COMPLETED", "FAILED", "open"}] :
          plan' = [plan EXCEPT !.status = [t \in Tasks |->
                      IF t \in DOMAIN v /\ v[t] # "open" THEN v[t] ELSE @[t]]]
    /\ pc' = "audit"
    /\ UNCHANGED <<revisions, nudge, control, why, invoke, flag, replays, reconciler, sweep,
                   turns, history>>

\* Mutant: what waits for a failed task is taken for reachable.
AuditForgetsFailed ==
    /\ pc = "audit"
    /\ sweep' = {t \in Unreachable(plan) : \A u \in Preds(plan, t) : plan.status[u] # "FAILED"}
    /\ pc' = "sweep"
    /\ UNCHANGED <<plan, revisions, nudge, control, why, invoke, flag, replays, reconciler,
                   turns, history>>

\* _sweep_unreachable_pending: the tasks are computed once ...
Audit ==
    /\ pc = "audit"
    /\ sweep' = Unreachable(plan)
    /\ pc' = "sweep"
    /\ UNCHANGED <<plan, revisions, nudge, control, why, invoke, flag, replays, reconciler,
                   turns, history>>

\* ... and cancelled one after the other; finished ones are left alone.
SweepOne ==
    /\ pc = "sweep" /\ sweep # {}
    /\ \E t \in sweep :
          /\ sweep' = sweep \ {t}
          /\ plan' = IF plan.status[t] \in Live THEN WithCascade(plan, t, "CANCELLED") ELSE plan
    /\ UNCHANGED <<revisions, nudge, control, pc, why, invoke, flag, replays, reconciler, turns,
                   history>>

\* _classify_fatal_failure and the goal predicates, whose answer is open here.
Classify ==
    /\ pc = "sweep" /\ sweep = {}
    /\ pc' \in {"aborted", "completed"}
    /\ FatallyFailed(plan) # {} /\ FailFast /\ Active => pc' = "aborted"
    /\ UNCHANGED <<plan, revisions, nudge, control, why, invoke, flag, replays, reconciler,
                   sweep, turns, history>>

Executor ==
    \/ Iterate \/ RaceWon \/ RaceRaises \/ Dispatch \/ GraceOver
    \/ SupersedeRestarts \/ CancelAborts \/ ErrorAborts
    \/ SteerRestarts \/ GoldfiveSteerRestarts \/ PauseEnds
    \/ Replay \/ NoReplay
    \/ FinalizeOutcomes \/ Audit \/ SweepOne \/ Classify

Next ==
    \/ Executor \/ Receive \/ GraceExpires
    \/ \E how \in Endings : InvokeEnds(how)
    \/ StrayEnds \/ Reconciler
    \/ DriftRevises \/ DriftNudges
    \/ \E kind \in Kinds : Send(kind)

Spec == Init /\ [][Next]_vars

\* The executor and the channel run when they can; the agent's invocation ends.
FairSpec ==
    /\ Spec
    /\ WF_vars(Executor) /\ WF_vars(Receive)
    /\ WF_vars(\E how \in Endings : InvokeEnds(how))

-----------------------------------------------------------------------------
(***************************************************************************)
(* Properties.                                                             *)
(***************************************************************************)

\* The loop tells a supersede from a cancellation of another source: a
\* cancellation is taken for a supersede only if a revision was stamped since the
\* loop last started over, so that marks from before do not survive; and unless
\* fail_fast_on_invoke_cancel is set, the run never ends for a cancellation that
\* only a revision has caused, since the mark is made before the cancellation and
\* still there when _handle_invoke_cancelled looks.  The exception is a run
\* without a control channel: there nobody looks, and the run ends by raising.
SupersedeIsTold ==
    [][/\ SupersedeRestarts => stamped
       /\ Over' /\ ~Over /\ why' = "cancelled" /\ causes' = {"supersede"} /\ ~FailOnCancel =>
             ~channel /\ pc' = "raised"]_vars

\* The open turns of an agent in the invocation.
OpenOf(a) == {i \in Calls : NameOf[i] = a /\ turn["own"][i] # Closed}

\* While the plugin is attached, what the reconciler has noted for an agent is
\* what the agent's open turn has claimed, so that on_after_agent completes no
\* task for a turn that did not work on it.  The exception is an agent two of
\* whose turns were open at once, in one invocation or with one left behind: the
\* note is kept by name, and the turn that ends first takes it.  When the last of
\* them has ended the agent is told right again, and so it is after a restart,
\* whatever the invocation before had open.
ClaimsMatchTurns ==
    attached => \A a \in Agents \ overlapped :
        /\ \A i \in OpenOf(a) : claim[a] = turn["own"][i]
        /\ OpenOf(a) = {} => claim[a] = NoTask

\* A run that completes leaves no pending task behind one that can never
\* complete, unless that one failed and there was a task to replace it.  An
\* invocation that was left behind does not disturb it, for the plugin was
\* detached before the sweep.  The replacement need not be live:
\* _sweep_unreachable_pending computes its list once, and may then cancel the
\* replacement itself.
NoOrphans ==
    pc = "completed" =>
        \A e \in plan.edges : plan.status[e[2]] = "PENDING" /\ plan.status[e[1]] \in Dead =>
            plan.status[e[1]] = "FAILED" /\ Superseders(plan, e[1]) # {}

\* However many notes the drift handlers queue, the turn ends: replays are
\* bounded, and a steer or a revision restarts the loop once each.
RunEnds == <>Over
=============================================================================
