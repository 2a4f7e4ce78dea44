# goldfive: a TLA+ model of the task, plan and control protocols

goldfive steers a tree of LLM agents: it keeps a plan of tasks, starts the
agents, watches what they do, revises the plan when they drift, and lets an
operator pause, steer, rewind or cancel a run. All of it runs as coroutines on
one asyncio loop. Between two `await`s a coroutine is atomic; at an `await`
anything else may run, and a coroutine inside the agent's invocation may be
cancelled. The modules here have one step per stretch between two suspensions
that matters, and the properties are about what such a schedule can do to
state that was read before a suspension and used after it.

## Inventory

| Component | State | Operations | Interacts with | What makes it correct |
|---|---|---|---|---|
| Task state machine (`task_state_machine.py`) | `session.plan` statuses, `task_lineage`, current-task pin | `mark_task_*`, `cascade_cancel_downstream` | called by executors, reporting tools, reconciler, drift handlers; emits to sinks; spawns drift handlers | finished tasks stay finished, cascades complete, events and bookkeeping follow |
| Plan revision (`plan_reviser.py`) | `session.plan`, plan lock, watermarks | `install_initial_plan`, `install_revision_for_drift`, `install_descriptive_growth`, `_emit_plan_revised` | drift handlers, runner, reconciler | revisions do not undo what happened meanwhile; one live task per discovery; waiters proceed |
| Drift observer (`drift_observer.py`) | in-flight keys, refine outcomes, judge queue, background handlers | `handle_drift`, the ladder, promotion, refine, pause, drain | planner, plan revision, control channel, ledger, notes | one refine per key, fresh verdicts, paced signals, nothing after the drain |
| Sequential executor, per-task loop (`executors/sequential.py`) | cursor, budgets, invocation | `run`, `_apply_pre_task_controls`, `_invoke_with_control` | adapter, control channel, steerer | control messages take effect, the run ends |
| Overlay loop (`executors/sequential.py`) and reconciler (`reconciler.py`) | supersede flag, replays, claims of agents | `_run_overlay`, restarts, replays, sweep; `on_before_agent`, `on_after_agent`, `reset` | adapter, drift handlers, control channel | internal and external cancels are told apart, turns complete what they claimed, the run ends |
| Parallel executor (`executors/parallel.py`) | stages, seats, refine failures | `run`, `_run_stage`, `_refine`, `_apply_pre_stage_controls` | the same | no task runs twice or early, results meet the live plan, seats are returned |
| Control (`control.py`, `executors/_control.py`) | inbox, acks | `send`, `receive`, `close`, `dispatch_control`, `drain_controls` | operator, steerer, executors | one ack per message, order |
| Runner, conversation (`runner.py`, `conversation.py`, `goal_deriver.py`) | conversations, a lock per key, carried plan and goals | `run`, `new_conversation`, `close` | everything | turns of one conversation are serial and hand their plan and goals on |
| Planner (`planner.py`) | the call under way | `generate`, `refine`, steer and loop refines, `handle_turn` | drift observer, runner, plan revision | whatever the model answers, what is installed is sound |
| Reporting tools, approvals (`reporting/`) | the pin, pending approvals | the handlers, `APPROVE`, `REJECT` | task state machine, control | a report lands on the task it is about; an approval was decided or timed out |
| ADK adapter (`adapters/adk.py`, `adapters/_adk_plugin.py`) | cancel flags, boundaries, unanswered calls, counters | the plugin's callbacks, `_invoke_internal`, healing | executors, drift observer | a cancel stops the work, the transcript stays valid |
| Judges (`drift/`, `drift_observer.py`) | windows, semaphore, counters, conditions | observe, judge, apply | drift observer | no text is lost, verdicts are about the plan they change |
| Stall watchdog, tool loops | idle clock, episode; window of calls | poll; observe, progress | drift observer | silence and loops are escalated, nothing else is |
| Signal ledger, observer notes | entries, bounded queue | record, render, prune, resolve, finalize | drift observer | outcomes are attributed to what was shown |
| Types (`types.py`) | `Plan`, `Task` | `validate`, `topological_stages`, swaps | all | validation accepts exactly the sound plans |
| Sinks, prompts, LLM client, config, server | external calls, text, I/O | | | environment of the model |

Hard behaviours: state read before an `await` and used after it (cascades,
revisions, folds, verdicts, pins); cancellation at any `await`, once or twice;
control messages that race the end of an invocation; timeouts that race the
answer; queues, seats and budgets at their limits. `PROJECT.json` lists them as
hazards, each at its line, with the property that is about it.

## Modules

`TaskLifecycle` models the state machine. A caller is a coroutine that has
called `mark_task_*`: `Swap` and the six `MarkTask...` actions are the code up
to the first emission, `EmitTaskTransitioned` and `FinishCall` the rest, and
`CascadeStart`, `CascadeEmitTransitioned` and `CascadeNext` the breadth-first
cascade with its two suspensions per victim. Its queue is a set: a queued task
that was terminal in the snapshot is skipped without a suspension, and the
order of the others is left open, which includes the code's order.
`CancelCaller` is a `CancelledError` at any await of a caller inside the
agent's invocation. `abandoned` is a history variable that remembers what such
a caller left undone. The plan's shape is fixed here.

`PlanRevision` models the replacement of the plan. Drift handlers pass the
freshness and in-flight gates of `handle_drift`, the outcome gate, the
planner's call and `_emit_plan_revised`; a turn resets the outcomes and installs
its plan, as a revision or as a pivot; growers append discovered tasks under
the lock. The lock is `holder` and `queue`, as in `asyncio.Lock`. A plan is a
status per task id with a revision index; pending, running and blocked are one
status and two terminal statuses stand for four. `Candidates` are the plans a
planner can return.

`SequentialExecutor` models `SequentialExecutor.run` without the overlay:
`DrainOne`, `DrainDone`, `PausedReceive` and `PauseExpires` are
`_apply_pre_task_controls`; `AnnounceRevision`, `StartTask` and `SkipTask` the
top of the loop; `Receive`, `InvocationDone`, `MessageDone` and
`InvocationCancelled` the race of `_invoke_with_control`; `Settle` what follows a
result; the `End...` actions the classification after the loop. A transition
with its cascade is one step here and in the modules below; `TaskLifecycle` has
the steps in between.

`PlanGraph` holds the algorithms on a plan with its edges and supersedes links:
`Plan.validate` for creation and revision, `topological_stages`,
`task_upstream_ready` and the reachability helpers. The recursion of the code is
written as least sets (`Reach`) and as the placement of a task by its
predecessors (`Placed`).

`OverlayExecutor` is the overlay loop with the reconciler. `Iterate` starts an
invocation of the whole agent tree; `TurnBegins`, `TurnEnds` and `AgentReports`
are what its agents do to the plan through `BeforeAgent` and `AfterAgent`;
`RaceWon`, `Dispatch`, `GraceOver` and `GraceExpires` the race with a control
message, `RaceRaises` the way out of a run without a control channel, where a
cancelled invocation raises; the `...Restarts`, `...Aborts` and `Replay` actions
what the loop makes of the result; `FinalizeOutcomes`, `Audit`, `SweepOne` and
`Classify` the end. A turn is one call of an agent, and an agent may have several
open at once, for calls of the model in one step run in parallel; the reconciler's
claims are kept by the agent's name, so the one that begins last overwrites and the
one that ends first completes. An invocation that ignores its cancellation is
`stray`: its turns go on, with the reconciler of the pass under way, and its end
detaches the plugin of that pass (`attached`). `stamped`, `causes` and `overlapped` are
history: was a revision stamped since the loop started over, who has cancelled, and
of which agents two turns were open at once.

`ParallelExecutor` is the staged executor: `DrainOne` to `ApplySteer` are
`_apply_pre_stage_controls`; `FormStage` and `NoStage` the choice of a stage;
`JobStarts` and `JobEnds` are `run_one` under the semaphore; `Receive`,
`StageControl`, `Collect`, `Reaped` and `StageEnds` the wait of `_run_stage`; `Fold`
and the `Refine...` actions what follows.

`TaskPinning` gives, for an agent and a plan, the tasks the ladder of
`_adk_plugin.py` may pin, a rung being the set of its possible results.
`TaskReports` uses it: delegations pin, turns pin again, reports are resolved,
routed, applied and rotate the pin; requests for approval wait; revisions and
decisions come in between.

`AdkInvocation` is one pass of `_invoke_internal` with the callbacks of the
plugin for the root and for every agent it delegates to: `Observe` is the check
of the cancel flags at each callback, `WatcherWakes` and `WatcherFlags` the timeout
of a model call, `CountSpawn` and `TripAnnounced` the cap, `Approve` and `Reject` a
confirmation, `TaskCancelled`, `Fails` and `CancelledAgain` the ways a pass breaks
off, and `CloseBoundary`, `HealOne` and `ClearContext` the way out.

`InterventionLadder` is the ladder's table; `DriftSignals` the way of a drift
through `handle_drift`: `Observe`, `Arrive`, `Detected`, `CancelRequested`, `Climb`,
the refine and what its failure records, pauses, and the two records the
signal leaves: the note queue (`Queued`, `Pruned`, `Consume`) and the ledger
(`Delivered`, `RecordOutcomes`, `Finalize`). A note that is pruned stays in the
sequence with the state `pruned`, and `Queue` is what the code's list still holds.

`ReasoningJudge`, `OutcomeJudge`, `GoalJudge`, `StallWatchdog` and `ToolLoops` are
the detectors, and `Detectors` puts them side by side. Each is configured by
itself and none reads what another keeps, so a behaviour of `Detectors` has one
of them at work: the run covers each on its own and does not multiply them. `Clear`
of `ToolLoops` is the end of a pass, which empties the windows of all agents.

`Turns` is `Runner.run` with conversations, locks, cancellation, `new_conversation`
and `close`. `SerialTurns` is what it promises: turns of one conversation work
one at a time, each from the plan the one before left, and a turn that reached
its executor leaves its plan however it ends. It has no lock and no key.
`Turns` implements it under the mapping `Serial`: a turn works from the moment it
is given its conversation's plan until it leaves, and the carried plan is
`last_plan`. `Planner` is the planner with the installation of what it returns.
The corrections of an installed plan are integrated one after the other
(`Corrected`, with the `existing_edges` of the code), in the order in which the
plan lists its tasks; a plan of the model is a set of tasks, so `Install` takes
any of the `Orders`.
`RunnerAndPlanner` puts the two side by side, in the same way as `Detectors`: a
turn sees of the planner whether there was a plan and whether it was installed.

The `MC...` modules give the constants their values. The theorems
about a module are in the module `...Proofs` that extends it; `InvocationProofs`
is about `AdkInvocation` and `ParallelExecutor`, `DriftProofs` about `DriftSignals`
and `Detectors`. Definitions introduced by a
comment that starts with "Mutant" are faulty forms of the definition they
precede; nothing uses them, and each is there to show that the run's property
would notice.

## Runs

| Run | Instance | Shows |
|---|---|---|
| `TaskLifecycle.cfg` | chain a -> b -> d, two callers, one cancellable | transitions and cascades under every interleaving and cancellation |
| `PlanRevision.cfg` | two handlers of one key, one turn, one grower, two ids for the same work, three revisions | gates, dedup and what a revision may change |
| `PlanRevisionLedger.cfg` | ledger mode, passive steering, a user key and a stamped key, two growers | discoveries survive, the lock is granted |
| `SequentialExecutor.cfg` | two tasks, one of them added by a revision, seven control kinds, two messages, one revision, two invocations, one attempt per lineage | message accounting, cancels, termination |
| `OverlayExecutor.cfg` | a host that calls one worker twice, two tasks one of which is an outcome, with and without a control channel, five control kinds, one message, one revision, one replay | claims, supersedes, orphans, termination |
| `ParallelExecutor.cfg` | plans of two tasks, a third added later, one seat, six control kinds, one message and one more in a pause, one revision, one refine | order, kept results, termination |
| `TaskReports.cfg` | one task that may be replaced, corrected or grown, two calls, two reports, one decision | reports land on the lineage, approvals are decided |
| `AdkInvocation.cfg` | three delegations, a cap of one, one of them to be confirmed | nothing runs after a stop, nothing is left open |
| `DriftSignals.cfg` | any two of eight drifts of one task, a queue of one note, with and without ledger mode | attribution, pacing, drain |
| `Detectors.cfg` | three texts and one seat; two deliverables; two goal judges; six ticks; two agents, six calls | judges, watchdog, loops |
| `RunnerAndPlanner.cfg` | two turns of one conversation and one of another; eight answers of a model | refinement of `SerialTurns`, goals, corrections, loops |
| `TaskTerminalAbsorbs.cfg` | two callers, none cancelled | a statement of the documentation that the code does not keep |

What a property says is in the comment above it; the ones that need the most
explanation:

- `NoOrphan`: a live dependent of a cancelled or fatally failed task is on the
  way of a cascade in progress, unless a caller was cancelled in the middle.
- `FinishedIsFinal`: a finished task can only be overwritten by a cascade whose
  snapshot predates the finish.
- `VerdictStaysFresh`: the freshness gate is evaluated once; the in-flight key
  keeps its answer true until the revision is installed.
- `FinishedTasksSurvive`, `LedgerKeepsDiscoveries`, `FinishedKept`: what a revision, a
  fold or a refine may do to finished and discovered tasks, with the exceptions
  stated as narrowly as they hold. They all come from a plan that was computed
  before a wait and installed after it, or from a pivot or a rewind.
- `MessagesKept`: every message sent is in the channel, in the hands of the
  executor or acknowledged, save the one `recv_task` holds when the invocation
  ends.
- `SupersedeIsTold`: a revision's cancellation restarts the overlay loop and never
  ends the run, over every restart; without a control channel it does end it.
  The other direction is weaker, as in the code: a cancellation of another source
  is taken for a supersede only if a revision was stamped in the same iteration.
- `ClaimsMatchTurns`: what the reconciler has noted for an agent is what its turn
  claimed, over restarts and next to an invocation that was left behind. An agent of
  which two turns were open at once is excepted, until the last of them has ended
  or the loop has started over.
- `StallEscalates` is about single steps: a poll that is due announces the next
  severity, and none does before.
- `NoOrphans`: the sweep leaves a pending task behind a dead one only if that one
  failed and a replacement for it was in the plan. The documentation has it
  live; the sweep may have cancelled it (below).
- `LandsOnLineage`: the report is resolved through a pin that other calls move,
  and is applied after an await; it still lands on the task or a replacement.
- `TextsJudged` counts debts: a text or a slot taken is owed until a judge has
  dealt with it or with a newer one.
- `LoopStops` has the premise that no pending task depends on the looping one;
  without it the fallback plan is rejected by validation (below).
- `CorrectionsRoute` leaves out corrected tasks that are corrections themselves:
  what comes out for a chain depends on the order of the plan's list (below).
- `LoopsToldApart` promises that a call repeated up to the limit is caught if the
  window can hold that many; the thresholds and the window are configured apart.
  Both halves count within one pass, for the end of a pass empties the windows.

Bounds. Two callers, two handlers, two calls, two turns or two growers are the
smallest number with which any of the interleavings occurs; a chain of three tasks
is the shortest plan in which a cascade is suspended with work left; two messages
give every ordered pair of kinds, and in the overlay and parallel runs, where a
message is taken up only once per round, one message (and, in a pause, its answer)
meets every stage of a round. Three turns, the host's and two of one worker,
overlap within an invocation and with the one left behind; the sweep needs a plan
of one edge only, and the overlay run starts from the second task alone, so that
the first comes in by a revision or by growth. One seat for two jobs makes them
queue; a cap of one
below three calls has two in excess; a queue of one note prunes; the answers of
the model include one with a chain of corrections and one with two corrections of
one task; the thresholds of the tool loops are the code's, scaled down with the
window. `MaxRev`, `MaxRevisions`, `MaxMsgs`, `MaxReports`, `MaxDecisions`,
`MaxDrifts`, `MaxObserved`, `MaxTexts`, `MaxEdits`, `MaxGoalJudges`, `MaxMoves`,
`MaxTicks`, `MaxCalls` and `MaxConversations` appear in guards only;
`MaxInvocations`, `LineageCap`, `MaxReplays`, `MaxRefines` and `MaxAttempts` are
the code's own limits. `IdsLeft` keeps ids for the growers at work. Symmetry
(handlers and ids of the same work in `PlanRevision.cfg`, the two turns of one
conversation in `RunnerAndPlanner.cfg`) is used in runs without liveness only.

Deadlock. The runs switch the check off: coroutines go idle, a run ends, and an
unanswered pause or confirmation waits for ever. `EndsOrWaits`, `RunEnds`,
`ReportsEnd` and `PassEnds` say that nothing stops anywhere else.

Fairness. Everywhere: the event loop runs what can run. Beyond that
`PlanRevision` assumes it of emissions and of the lock only (`emit` swallows the
failures of sinks), nothing of the planner. The executors assume that an
invocation ends (in `OverlayExecutor` the one the loop waits for, not one left
behind) and, in `SequentialExecutor` and `ParallelExecutor`, that a
deadline expires and the planner answers; nothing of the operator or of drift
handlers. `TaskReports` assumes that the wait for an approval times out
(`wait_for` has a finite default). `AdkInvocation` assumes that a model
answers, `Detectors` that a judge's call returns or fails. An adapter that
never returns is outside the claims.

## Proofs

All theorems hold for every value of the constants under the named `ASSUME`s of
the modules. These say what the constants are (edges join tasks, `NoTask` and
`Closed` are none of the things they stand beside, limits are natural numbers,
the kinds of coroutines are disjoint) and, in eight places, something of the
system: user keys are trajectory keys and unstamped (`KeyAssumption`); the drift
of a task's failure is about that task (`SignalAssumption`); a thread's calls and
the cap are finite, and the cap is not 0 (`AdkAssumption`); a note queue holds at
least one note; there are conversations for all keys
(`ConversationAssumption`, which is about the bound `MaxConversations`); the
parallel executor is given finitely many tasks and a plan that passes creation's
validation (`ParallelAssumption`), and the planner finitely many tasks and, to
carry on from, no plan or one whose corrections are routed, as the session before
leaves it (`PlannerAssumption`); no tier of the loop tracker is critical on a
single call (`LoopAssumption`; the code's thresholds are 6 and 10). TLC evaluates
all of them in the runs.

Each component has an inductive invariant (`PlanRevision` has two). TLC has
checked them on the instances of the runs as well, save conjuncts of types
(`Shapes` of `MessageInv` and of `TurnsInv`) that quantify over sets TLC cannot
enumerate. A proof has a lemma for each action or kind of
step, and where a handler has many steps that differ only in where they go next,
the lemmas first say what such a step may change.

`TaskLifecycleProofs`: `TypeCorrect`, `CascadeSoundHolds`, `NoOrphanHolds`,
`DriftAfterCascadeHolds`, `BookkeepingHolds`, `FinishAnnouncedHolds` and
`FinishedIsFinalHolds`. The inductive invariant `IInv` is the conjunction of the
checked invariants and `FatalIsFinished` (a task with a fatal failure event is
finished). `NoOrphan` alone is not inductive: that a cascade's queue holds every
live dependent it owes (`CascadeSound`) is what carries it over a step. A case is
either the step of the cascade that covers a dependent (`OwnCoverStep`), the step
that dooms a task (`NewlyDoomed`), or a step of another caller, which leaves the
frame alone (`OtherFrames`) and can only finish tasks (`FinishedStays`).
`FinishAnnounced` is inductive over the same invariant: a task finishes in the
step that makes its caller owe the announcement (`NewlyFinished`), and a caller
gives a debt up only by announcing or by being cancelled (`OwedStep`,
`AnnouncedStep`).

`PlanRevisionProofs`: `TypeCorrect`, `OneHandlerPerKeyHolds`,
`VerdictStaysFreshHolds`, from `GateInv`, which adds that a coroutine at rest has
no key: freshness needs that only the handler itself can move its key's
watermark, which is `OneHandlerPerKey`. `OneLiveDiscoveryHolds`,
`FinishedTasksSurviveHolds` and `LedgerKeepsDiscoveriesHolds` need `PlanInv`: the
live plan and the plan every coroutine carries through a wait are `Sound` against
the ids used so far. A revision computed long ago can only bring back tasks whose
identity the growers saw, so that deduplication against the live plan is enough.

`SequentialExecutorProofs`: `MessagesKeptHolds`. `MessageInv` describes the channel
as an interval: the inbox holds the latest messages in a row
(`InboxInOrder`), all earlier ones are accounted for (`TakenAccounted`), and an
acknowledged STEER is applied, about to be, overtaken by a later one, or too late
(`SteersKept`). That a steer may overwrite the one before follows from the order.

`OverlayExecutorProofs`: `ClaimsMatchTurnsHolds`, `NoOrphansHolds`,
`SupersedeIsToldHolds`, from `OverlayInv`. `Phases` ties the loop's position to the
invocation and its turns; `Detached` says that the plugin is attached only while an
invocation is raced, and so never during the sweep; `Claimed` that an iteration
starts without claims, that outside an overlap an agent has one open turn at most
and the claim is that turn's (`Told`), and that what was left open by the
invocation before is noted as an overlap (`LeftNoted`). Beginning and ending a turn
have a lemma each (`TurnBeginsStep`, `TurnEndsStep`), about the turns of the same name
(`OpenAlongside`). `Marked` says that the supersede mark stands as long as the
cancellation it explains is not handled; `Swept` that every pending task behind a
hopeless one is in the list the sweep works through. An earlier form of
`NoOrphans`, which asked for a
live replacement when the run completes, was not provable, for a good
reason: it is false. TLC has the behaviour on four tasks, the code's own functions
agree with it (below), and `NoOrphans` now makes the exception.

`TaskReportsProofs`: `DecisionWasMadeHolds`, `LandsOnLineageHolds`, from `ReportsInv`: the
shared pin names a task or nothing whoever wrote it last, a report in flight is
about a task, and a decision is written down before the waiter is set. The
lineage part is the monotonicity of reachability: the supersedes links of any
plan are among those the tasks are planned with.

`InvocationProofs`, of `AdkInvocation`: `NoWorkAfterStopHolds`,
`NothingLeftOpenHolds`, from `AdkInv`. A requested cancel is in one of two sets
until its invocation ends (`Stopping`), a call is counted before it waits for the
operator or runs (`Capped`), a called agent works only while its call runs
(`Nested`), what the transcript lacks is pending, not yet healed, or lost
(`Healable`), and what was announced as entered is closed before anything is healed
(`Announced`).

`InvocationProofs`, of `ParallelExecutor`: `OnceAndInOrderHolds`, `FinishedKeptHolds`,
from `ParallelInv`. That a task is invoked once is `InvokedOnce`: an invoked task
is in the stage at work, in the results still to fold, or remembered as done,
unless the run was cancelled, and no stage is formed of a remembered one. That its
predecessors have been run or are finished follows from where the stages place
it: they are in stages before its own (`StageInOrder`), and a stage is formed only
when no stage before it has a pending task. A finished status changes only in the
steps `Keeping` lists.

`DriftProofs`, of `DriftSignals`: `DrainedBeforeFinalizeHolds`,
`AttributionIsTrueHolds`, `SignalsArePacedHolds`, from `SignalsInv`. The drain rests on
a handler being started once, which for the failure of a task is that a task
fails once (`FailsOnce`, `Drained`); attribution and pacing on the queue knowing what
it has shown and when, as long as it has pruned nothing of the key (`Shown`,
`Timed`).

`DriftProofs`, of `Detectors`: `StallEscalatesHolds` from `StallInv`, where `Episode`
says that the counters of the watchdog are those of the episode at hand and that
the silence pays for them (`StallTimeout * fires` is at most the idle time), so
that what a poll decides from them is what the announcements of this silence ask
for (`FiresAnnounced`, `PollAnnounces`);
`VerdictsAreFreshHolds` from `OutcomeInv`, where `AppliesFresh` says that what a judge
is about to apply is about the deliverable as it is, was edited while it applied,
or is finished or gone; `LoopsToldApartHolds` from `LoopInv`, where the window is the
end of the calls of the pass since the agent's last progress (`Suffix`), so that a count in
the window is a count of those calls, and a streak that fits in the window is
counted whole.

`RunnerAndPlannerProofs`, of `Planner`: `CorrectionsRouteHolds`, `LoopStopsHolds`, from
`PlannerInv`. The first is an induction over the corrections integrated so far
(`RoutedUpTo`): the step of one correction routes what follows its task, and does
not undo what the others have routed, in whatever order they come. The second
follows a call from its prior plan to its result (`LoopGiven`): what it returns is
a valid revision in which the looping task is settled, or the fallback, and the
fallback passes validation under the premise of `LoopStops`.

`RunnerAndPlannerProofs`, of `Turns`: `TurnsAreSerialHolds`, the refinement of
`SerialTurns`. The initial state maps to an initial state, and each action of a
turn to a step of that turn or to a stutter (one lemma per action). It needs
`TurnsInv`: a turn past the lock is the first in its key's queue (`Queues`), and no
two keys ever share a conversation, also when `new_conversation` takes it away from
a turn under way (`Apart`); without the second a turn of another key could write
`last_plan`. `GoalsKeptHolds` adds `GoalsInv`: the goals of a turn past the lock begin
with those of its conversation, two goals never share an id, and the turns a
conversation has absorbed are over, with their goals in it. It needs
`TurnsAreSerial`'s invariant for the first part: no other turn changes the
conversation meanwhile.

Induction. The library's induction theorems take an operator as a parameter, which
the provers cannot instantiate. `RunnerAndPlannerProofs` derives what it needs from
the well-foundedness of strict inclusion on finite sets: a nonempty set of
numbers has a least member (`Least`), so a set that has 0 and every successor has
all numbers (`Induction`), and a function defined by recursion over an interval
exists and satisfies its equation (`Recursion`). The goals and the corrections are
folded by such functions.

Only model-checked:

- liveness (`WaiterProceeds`, both `EndsOrWaits`, `CancelAborts`, `RunEnds`,
  `ReportsEnd`, `PassEnds`, `TextsJudged`): fairness and `ENABLED` are out of the
  prover's reach. Every other property of a passing run is a theorem;
- what `Plan.validate`, the pinning ladder and the other pure operators compute on
  every input, beyond the lemmas the proofs need of them.

## Where documentation and code disagree

With a run and a finding: `STATE-MACHINE.md`, Invariant 1: terminal states
absorb. A cascade overwrites a task that finished after its snapshot.

Met while modelling. The models have the behaviour, and the properties make
their exceptions where it shows. Paths are below `src/goldfive/` and
`src/docs/design/`.

Plans and tasks:

- A revision that waited for the plan lock brings a task back that finished
  meanwhile (`PLAN-LIFECYCLE.md:643-644`; `plan_reviser.py:2084`), does not raise the
  index when two came from one plan (`plan_reviser.py:1813`), and drops a task
  discovered meanwhile (`PLAN-DESCRIPTIVE-GROWTH.md`, section 11.6).
- The cascade leaves the current-task pin on a task it cancels
  (`state_store.py:581` says "on every task transition"), and a caller cancelled
  before its cascade is over leaves orphans (`PLAN-LIFECYCLE.md`, section 7).
- `_integrate_correction_supersedes` runs after validation
  (`plan_reviser.py:2132`), so what it produces is not validated. Two corrections
  of one task leave a cycle: in the loop at `plan_reviser.py:1660-1684` the first
  takes the edge to the second over, and the second the edge to the first.
  For a chain of corrections the result depends on the order in which the plan
  lists them.
- `_build_minimal_steer_evolution` is said always to pass validation
  (`plan_reviser.py:391`); a dangling supersedes link of the plan before fails it.
  `Plan.validate` finds cycles of two supersedes links only.
- `install_user_steer` has no caller; `handle_turn` returns its second candidate
  though it is invalid.
- The fallback for a loop is to make sure that "the looping task cannot re-fire
  on the next tick" (`planner.py:3608-3610`). With a pending dependent, validation
  (`types.py:1006-1028`) rejects it at the installation and the looping task stays
  live. A looping task that was dropped and is finished is listed twice
  (`planner.py:3681`).

Executors and control:

- `CONTROL.md:286-287`: a PAUSE during a task "takes effect at the next
  between-task point". Its outcome is discarded (`sequential.py:2217`).
- The reachability audit calls tasks orphaned that `_pick_next_task` declined
  (`sequential.py:926-929`); it had seen an older plan, and a retry installed
  meanwhile is cancelled.
- The message `recv_task` holds when the invocation ends is never acknowledged
  (`CONTROL.md`, "Every message produces exactly one ack"). Of several STEERs in
  one drain only the last is applied. A rewind during an invocation is undone by
  that invocation's result. `close()` does not wake a blocked `receive`.
- The sweep is to cancel every pending task with a dead predecessor that has no
  live replacement (`sequential.py:1741-1744` and
  `src/docs/dev-guide/04-executors-and-control.md:673-676`). Its list is computed
  once (line 1760). Let u wait for f, and let a revision put r, which supersedes f
  and waits for b, in front of f, a shape `Plan.validate` accepts. When b and f
  have failed, f has the live replacement r, so only r is on the list; once r is
  cancelled f has none, and u stays pending when the run completes.
- Step 3 of the overlay loop's docstring is no longer what it does; a
  `GOLDFIVE_PAUSE_ESCALATE` ends an overlay run without a terminal event.
- "External cancels ALWAYS abort" (`sequential.py:1347-1350`): a CANCEL in an
  iteration in which a revision was stamped is taken for a supersede, and the loop
  starts over.
- Without a control channel the overlay loop raises the invocation's
  `CancelledError` again (`sequential.py:1855-1862`), before anything asks who caused
  it. A supersede alone then ends the run, with neither `RunCompleted` nor
  `RunAborted`, where the docstring at 1340-1343 has it restart.
- The reconciler keeps one claim for an agent's name (`reconciler.py:144`, set at
  303, popped at 345). The comment at 140-143 has two turns of one agent share the
  plan's tasks, and `_adk_plugin.py:6523-6533` runs them in parallel: turn 1 claims t1,
  turn 2 overwrites the claim with t2, the first of them to end completes t2, and
  t1 stays RUNNING when the second finds no claim.
- The end of an invocation that was left behind calls `clear_active_context`
  (`adk.py:2219-2222`, `_adk_plugin.py:2403-2450`), which drops the context and the
  reconciler of the pass under way: its turns no longer move tasks.
- `parallel.py` says "Plan refinement never happens mid-stage": drift handlers do
  it. A failed task does not keep its dependents from running, and REWIND_TO
  never re-runs a task that was in a completed stage.
- `CONTROL-CHANNEL.md:754-756` has a grace window for signals; the escalation at
  `drift_observer.py:5322` is not paced by it.

Agents and reports:

- An approval that was decided stays, and answers a later request of the same
  task (`handlers.py:893-948` against `1055-1057`).
- A retry of a report after the pin has rotated lands on the next task
  (`reporting/_internal.py:62-66`, `TASK-LIFECYCLE.md:457-461`); parallel calls share
  one pin (`_adk_plugin.py:773-777`), and may reassign the same pending task.
- In `adk.py`, a pass that stops at an event announces no exit of its boundaries,
  a child dispatched after its parent's cancel check is not flagged, and an error
  whose handling is cancelled may heal a call twice.

Judges, signals and turns:

- A judge call that failed resolves conditions as an on-task verdict does
  (`drift_observer.py:2899-2925`, against the comment at 2914).
- A deliverable edited between two transitions of one verdict gets the verdict
  about its former title (docstring at `drift_observer.py:4375-4384`).
- Tool calls are to "accumulate over re-invocations of the same agent within one
  run" (`tool_loops.py:637-645`). The end of every pass clears the tracker
  (`_adk_plugin.py:2438-2441`), so that a loop that goes on over a restart or a
  replay of the overlay loop is counted from one again; with jobs of the parallel
  executor on one plugin, the end of one empties the windows of the others.
- A handler that outlives the drain delivers signals to a finalized ledger
  (`sequential.py:153-156`).
- Sequence numbers are used again after a cancelled turn (`conversation.py:113-131`;
  `absorb_turn` is skipped). `new_conversation` during a turn can make the turn
  announce a conversation it is not part of (`runner.py:1482-1485`). A plan
  installed by a turn that is cancelled before its executor is not carried.
  Goals without an id are appended again by each turn (`conversation.py:288-294`).

## Not modelled

Sinks, prompts, context editing, the LLM client, spans, configuration, the
server and generated code are text, tracing or input and output, without a
protocol of their own. The adapters other than ADK are one awaited call.
Custom judges and the capability check are pure functions. Left out of modelled
components: INTERCEPT_TRANSFER; declarations of new work and of divergence by
agents; `mark_task_progress` (no status); the legacy overrides of the ladder;
request editing and usage counters of the ADK plugin. `OverlayExecutor` models runs
without a control channel as well. `ParallelExecutor` does not: a run without a
channel is there one without messages (`parallel.py:654-655`, `1139-1147`). Nor does
`SequentialExecutor`, where it makes a difference: a cancelled invocation is raised
again (`sequential.py:2146-2153`) and ends the run. In the parallel executor the jobs
run next to each other and the tool loops of one plugin with them; `ToolLoops` has
their clearing, at any moment, and no job. The composition of the state machine's
single steps with plan revision, in which a cascade meets a task that is gone,
is not built.

## Plan

1. Done: the modules, runs and proofs above.
2. A composition of `TaskLifecycle` with revisions of the plan's shape, and for it
   the invariant of `TaskLifecycleProofs` without a fixed set of edges.
3. A run abstraction (tasks settle once, the run ends in one of three ways) that
   the three executors implement.
