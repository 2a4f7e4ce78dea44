---------------------------- MODULE DriftSignals ----------------------------
(***************************************************************************)
(* How goldfive tells an agent about a drift, and what it believes became  *)
(* of it: the dispatch of a drift (drift_observer.py), the queue of notes  *)
(* (observer_note_queue.py), the signal ledger (signal_ledger.py) and the  *)
(* end of a run (_drain_steerer_at_run_boundary).                          *)
(*                                                                         *)
(* Every handler of a drift is a coroutine of its own that is suspended    *)
(* whenever it emits, refines or sends a control; the agent reads notes,   *)
(* finishes tasks and advances the logical clock meanwhile.  The channel   *)
(* is request_context.  The drifts a handler raises on its own account are *)
(* only announced, never delivered, so the ledger need not keep them; its  *)
(* counts of fires are left out, and the open conditions are in Judges.    *)
(* The gates of handle_drift and the installation of a revision are in     *)
(* PlanRevision; all agents count as one.                                  *)
(***************************************************************************)
EXTENDS Integers, Sequences, FiniteSets, InterventionLadder

CONSTANTS
    Drifts,        \* the drift ids
    Tasks,
    NoTask,        \* the task of a drift about the whole trajectory
    KindOf(_), SeverityOf(_), TaskOf(_),
    FailureOf(_),  \* the drift that mark_task_failed raises for a task
    Modes,         \* the values of active and ledgerMode to look at
    PromoteAt,     \* the threshold of promotion
    SteerWindow,   \* suppression_window_turns
    Window,        \* grace_window_turns
    Threshold,     \* REFINE_FAILURE_THRESHOLD
    NotesCap,      \* _NOTES_CAP
    MaxTurn,       \* bound on the logical clock
    MaxObserved    \* bound on the drifts that judges and detectors find

ASSUME SignalAssumption ==
    /\ NoTask \notin Tasks
    /\ \A d \in Drifts : SeverityOf(d) \in Severity /\ TaskOf(d) \in Tasks \cup {NoTask}
    /\ \A t \in Tasks : FailureOf(t) \in Drifts => TaskOf(FailureOf(t)) = t
    /\ Modes \subseteq BOOLEAN \X BOOLEAN
    /\ PromoteAt \in {"off", "critical", "warning"}
    /\ {SteerWindow, Window, MaxTurn, MaxObserved} \subseteq Nat
    /\ {Threshold, NotesCap} \subseteq Nat \ {0}

KeyOf(d) == <<KindOf(d), TaskOf(d)>>
Keys == {KeyOf(d) : d \in Drifts}
Failures == {FailureOf(t) : t \in Tasks} \cap Drifts
Succeeded == -1

VARIABLES
    active,      \* _should_inject: not observation_only
    ledgerMode,  \* plan_mode is ledger
    turn,        \* _reasoning_turn
    steer,       \* the turn of the active user steer, or -1
    h,           \* handlers: [pc, level]
    outcomes,    \* refine_outcomes: failures in a row, or Succeeded
    notes,       \* the note queue; the notes that were pruned keep their place
    entry,       \* the ledger: [deliveries, outcome] per key
    task,        \* how far the end of a task has come
    phase,       \* the run
    drain,       \* the handlers drain_session_background_tasks waits for
    hist         \* history, see Init

mode == <<active, ledgerMode>>
vars == <<mode, turn, steer, h, outcomes, notes, entry, task, phase, drain, hist>>

Init ==
    /\ \E m \in Modes : active = m[1] /\ ledgerMode = m[2]
    /\ turn = 0 /\ steer = -1
    /\ h = [d \in Drifts |-> [pc |-> "none", level |-> "none"]]
    /\ outcomes = [k \in Keys |-> 0]
    /\ notes = <<>>
    /\ entry = [k \in Keys |-> [deliveries |-> {}, outcome |-> "open"]]
    /\ task = [t \in Tasks |-> "live"]
    /\ phase = "running" /\ drain = {}
    /\ hist = [shown |-> {},       \* keys the agent has seen a note of
               taken |-> [k \in Keys |-> -1],  \* when a note was last taken
               forgotten |-> {},   \* keys of which a note was pruned
               wronged |-> {},     \* keys resolved against what the agent saw
               late |-> {}]        \* handlers that delivered after finalize

Goto(d, pc) == h' = [h EXCEPT ![d].pc = pc]
GotoAs(d, pc, level) == h' = [h EXCEPT ![d] = [pc |-> pc, level |-> level]]

-----------------------------------------------------------------------------
(***************************************************************************)
(* The signal ledger.                                                      *)
(***************************************************************************)

\* record_delivery: one delivery for a drift and a channel.
Delivered(d, channel) ==
    entry' = [entry EXCEPT ![KeyOf(d)].deliveries = @ \cup {<<d, channel>>}]
LateDelivery(d) == IF phase = "over" THEN hist.late \cup {d} ELSE hist.late

\* _resolve_in_store: the first outcome of a delivered signal stays.
Resolvable(k) == entry[k].outcome = "open" /\ entry[k].deliveries # {}
ResolvedAs(ks, Outcome(_)) ==
    [k \in Keys |-> IF k \in ks /\ Resolvable(k)
                    THEN [entry[k] EXCEPT !.outcome = Outcome(k)] ELSE entry[k]]

-----------------------------------------------------------------------------
(***************************************************************************)
(* The note queue.                                                         *)
(***************************************************************************)

Queue(q) == {i \in DOMAIN q : q[i].state # "pruned"}
Taken(q) == {i \in DOMAIN q : q[i].state \in {"shown", "dry"}}    \* delivered
NoteIndices(k) == {i \in Queue(notes) : notes[i].key = k}

\* Mutant: the window counts from the turn a note was queued.
LastQueued(k) ==
    LET turns == {notes[i].turn : i \in NoteIndices(k) \cap Taken(notes)}
    IN  IF turns = {} THEN -1 ELSE CHOOSE t \in turns : \A u \in turns : u <= t
\* last_rendered_turn
LastRendered(k) ==
    LET seen == {notes[i].at : i \in NoteIndices(k) \cap Taken(notes)}
    IN  IF seen = {} THEN -1 ELSE CHOOSE t \in seen : \A u \in seen : u <= t

\* signal_count
SignalCount(k) == Cardinality(NoteIndices(k))

\* Mutant: a note that was only consumed in observation mode counts as seen.
RenderedKeysWithDryRuns == {notes[i].key : i \in Taken(notes)}
\* rendered_keys
RenderedKeys == {notes[i].key : i \in {j \in DOMAIN notes : notes[j].state = "shown"}}

\* _prune: delivered notes leave first in, first out while the cap is exceeded.
Excess(q) == Cardinality(Queue(q)) - NotesCap
Dropped(q) == {i \in Taken(q) : Cardinality({j \in Taken(q) : j <= i}) <= Excess(q)}
Pruned(q) == [i \in DOMAIN q |->
                IF i \in Dropped(q) THEN [q[i] EXCEPT !.state = "pruned"] ELSE q[i]]

\* enqueue: a note has the id of its drift, and is not queued twice.
Queued(d, level) ==
    IF \E i \in Queue(notes) : notes[i].drift = d THEN notes
    ELSE Append(notes, [drift |-> d, key |-> KeyOf(d), severity |-> SeverityOf(d),
                        turn |-> turn, level |-> level, state |-> "pending", at |-> -1])

\* _route_corrective_note: the note is queued and the delivery recorded.
RouteNote(d, level) ==
    LET q == Queued(d, level)
    IN  /\ notes' = Pruned(q)
        /\ Delivered(d, "request_context")
        /\ hist' = [hist EXCEPT !.late = LateDelivery(d),
                                !.forgotten = @ \cup {q[i].key : i \in Dropped(q)}]
        /\ Goto(d, "done")

\* peek_for_render: the most severe, then the newest.
Before(i, j) ==
    LET a == Rank(notes[i].severity) b == Rank(notes[j].severity)
    IN  \/ a > b
        \/ a = b /\ notes[i].turn > notes[j].turn
        \/ a = b /\ notes[i].turn = notes[j].turn /\ i > j
Pending(kinds) == {i \in DOMAIN notes : notes[i].state = "pending" /\ notes[i].key[1] \in kinds}
Best(kinds) == {i \in Pending(kinds) : \A j \in Pending(kinds) \ {i} : Before(i, j)}

\* mark_delivered: a note is consumed even where nothing may be injected.
Consume(kinds) ==
    /\ phase = "running"
    /\ \E i \in Best(kinds) :
          /\ notes' = [notes EXCEPT ![i].state = IF active THEN "shown" ELSE "dry", ![i].at = turn]
          /\ hist' = [hist EXCEPT !.taken[notes[i].key] = turn,
                                  !.shown = IF active THEN @ \cup {notes[i].key} ELSE @]
    /\ UNCHANGED <<mode, turn, steer, h, outcomes, entry, task, phase, drain>>

\* inject_observer_note, before a model call
RenderInRequest == Consume({notes[i].key[1] : i \in DOMAIN notes})
\* _maybe_annotate_tool_result, after a tool call
RenderOnToolResult == Consume({"looping_tool_call", "looping_reasoning"})

-----------------------------------------------------------------------------
(***************************************************************************)
(* Pacing.                                                                 *)
(***************************************************************************)

\* _user_steer_is_fresh
UserSteerFresh == steer >= 0 /\ turn - steer < SteerWindow

\* _signal_pacing_decision
Pacing(d) ==
    LET k == KeyOf(d)
    IN  IF \/ UserSteerFresh
           \/ Window > 0 /\ LastRendered(k) >= 0 /\ turn - LastRendered(k) < Window
        THEN "suppress"
        ELSE IF Window > 0 /\ SignalCount(k) >= Threshold THEN "escalate" ELSE "proceed"

\* _dispatch_goldfive_pause_control up to its first emission.
BeginPause(d, level) ==
    /\ Delivered(d, "pause_control")
    /\ hist' = [hist EXCEPT !.late = LateDelivery(d)]
    /\ GotoAs(d, "pausing", level)
    /\ UNCHANGED notes

Finish(d) == Goto(d, "done") /\ UNCHANGED <<notes, entry, hist>>
Await(d, pc, level) == GotoAs(d, pc, level) /\ UNCHANGED <<notes, entry, hist>>

\* _apply_signal_pacing, and Proceed where nothing holds the signal back.
Paced(d, decision, Proceed) ==
    \/ decision = "suppress" /\ Finish(d)
    \/ decision = "escalate" /\ BeginPause(d, "pause")
    \/ decision = "proceed" /\ Proceed

-----------------------------------------------------------------------------
(***************************************************************************)
(* Dispatch of a drift.                                                    *)
(***************************************************************************)

quiet == <<mode, turn, task, phase, drain>>

\* A judge or a detector starts its background task.
Observe(d) ==
    /\ phase = "running" /\ h[d].pc = "none" /\ d \notin Failures
    /\ Cardinality({x \in Drifts \ Failures : h[x].pc # "none"}) < MaxObserved
    /\ Goto(d, "spawned")
    /\ UNCHANGED <<quiet, steer, outcomes, notes, entry, hist>>

\* _should_promote_to_steer
Eligible(d) ==
    /\ KindOf(d) \in SteerEligible \ UserAuthored
    /\ MeetsThreshold(SeverityOf(d), PromoteAt)

\* _apply_user_steer_state and the promotion's decision.
Arrive(d) ==
    /\ h[d].pc = "spawned"
    /\ steer' = IF KindOf(d) = "user_steer" THEN turn ELSE steer
    /\ GotoAs(d, "emitting", IF ~Eligible(d) THEN "none"
                             ELSE IF UserSteerFresh THEN "suppressed" ELSE "promotion")
    /\ UNCHANGED <<mode, turn, outcomes, notes, entry, task, phase, drain, hist>>

\* The outcome gate: a refine for the key succeeded, or failed too often.
Gated(d) ==
    /\ KindOf(d) \notin UserOrTrajectory
    /\ outcomes[KeyOf(d)] = Succeeded \/ outcomes[KeyOf(d)] >= Threshold
\* _occurrence_count_for_ladder
Repeats(d) == outcomes[KeyOf(d)] >= Threshold

\* _ledger_retire_refine
RetireRefine(d) ==
    \/ KindOf(d) \in HardSafety /\ BeginPause(d, "pause")
    \/ KindOf(d) \in ForceFail /\ TaskOf(d) \in Tasks /\ Await(d, "killing", "retired")
    \/ KindOf(d) \notin HardSafety /\ (KindOf(d) \in ForceFail => TaskOf(d) = NoTask) /\ RouteNote(d, "nudge")

\* The refine's gates: outcome, progress (a clock, here a choice).
BeginRefine(d, level) ==
    \/ Gated(d) /\ Finish(d)
    \/ ~Gated(d) /\ Await(d, "refining", level)
    \/ ~Gated(d) /\ KindOf(d) \notin UserOrTrajectory /\ TaskOf(d) \in Tasks /\ BeginPause(d, "exhausted")

Promote(d) == IF ledgerMode THEN RetireRefine(d) ELSE BeginRefine(d, "promotion")

\* The ladder's level, then _emit_ladder_transition.
StartLadder(d) == Await(d, "ladder", Level(KindOf(d), SeverityOf(d), Repeats(d)))

Decide(d) ==
    \/ h[d].level = "suppressed" /\ Finish(d)
    \/ h[d].level = "promotion" /\ Paced(d, Pacing(d), Promote(d))
    \/ h[d].level = "none" /\ StartLadder(d)

\* _should_request_cancel_for_drift
RequestsCancel(d) ==
    KindOf(d) \in UserAuthored \/ (KindOf(d) \in HardSafety /\ SeverityOf(d) = "critical")

\* The end of _emit_drift_detected: a drift of the user settles every signal.
Detected(d) ==
    /\ h[d].pc = "emitting"
    /\ IF KindOf(d) \in UserAuthored \ {"user_pause"}
       THEN /\ entry' = ResolvedAs(Keys, LAMBDA k : "user_intervened")
            /\ Goto(d, "cancelling") /\ UNCHANGED <<notes, hist>>
       ELSE IF RequestsCancel(d) THEN Await(d, "cancelling", h[d].level)
       ELSE Decide(d)
    /\ UNCHANGED <<quiet, steer, outcomes>>

\* request_invocation_cancel is done.
CancelRequested(d) ==
    /\ h[d].pc = "cancelling"
    /\ Decide(d)
    /\ UNCHANGED <<quiet, steer, outcomes>>

\* The transition is announced.
Climb(d) ==
    /\ h[d].pc = "ladder"
    /\ \/ h[d].level = "observe" /\ Finish(d)
       \/ h[d].level = "signal" /\ Paced(d, Pacing(d), RouteNote(d, "nudge"))
       \/ h[d].level \in {"pause", "terminate"} /\ BeginPause(d, "pause")
       \/ /\ h[d].level \in {"absorb", "cancel_reinvoke"}
          /\ IF ledgerMode /\ KindOf(d) # "user_steer" THEN RetireRefine(d)
             ELSE IF KindOf(d) = "refine_validation_failed" THEN Finish(d)
             ELSE BeginRefine(d, h[d].level)
    /\ UNCHANGED <<quiet, steer, outcomes>>

-----------------------------------------------------------------------------
(***************************************************************************)
(* Refine: what comes of it for the key, the task and the agent.           *)
(***************************************************************************)

Remember(d, result) ==
    outcomes' = IF KindOf(d) \in UserOrTrajectory THEN outcomes
                ELSE [outcomes EXCEPT ![KeyOf(d)] = result]

\* A revision: its installation and its events follow.
RefineInstalls(d) ==
    /\ h[d].pc = "refining"
    /\ Remember(d, Succeeded)
    /\ Goto(d, "revising")
    /\ UNCHANGED <<quiet, steer, notes, entry, hist>>

\* PlanRevised is out: the agent is told.
Revised(d) ==
    /\ h[d].pc = "revising"
    /\ \/ h[d].level = "promotion" /\ RouteNote(d, "promotion")
       \/ h[d].level = "absorb" /\ KindOf(d) \in AbsorbNudge /\ RouteNote(d, "absorb")
       \/ h[d].level = "absorb" /\ KindOf(d) \notin AbsorbNudge /\ Finish(d)
       \/ /\ h[d].level = "cancel_reinvoke"
          /\ Delivered(d, "steer_control") /\ Goto(d, "done")
          /\ hist' = [hist EXCEPT !.late = LateDelivery(d)] /\ UNCHANGED notes
    /\ UNCHANGED <<quiet, steer, outcomes>>

\* The planner raised: _escalate_refine_failure_as_critical_drift first.
RefineFails(d) ==
    /\ h[d].pc = "refining"
    /\ GotoAs(d, "failing", "failed")
    /\ UNCHANGED <<mode, turn, steer, outcomes, notes, entry, task, phase, drain, hist>>

\* No plan, or one that does not validate.
RefineUnusable(d) ==
    /\ h[d].pc = "refining"
    /\ Await(d, "failing", "unusable")
    /\ UNCHANGED <<quiet, steer, outcomes>>

\* RefineExhausted, or a revision that changes nothing.
RefineDeclined(d) ==
    /\ h[d].pc = "refining"
    /\ BeginPause(d, "exhausted")
    /\ UNCHANGED <<quiet, steer, outcomes>>

AfterFailure(d) ==
    \/ h[d].level = "failed" /\ Finish(d)
    \/ h[d].level = "unusable" /\ BeginPause(d, "exhausted")

\* _record_refine_outcome: at the threshold the task is failed.
Failed(d) == IF outcomes[KeyOf(d)] = Succeeded THEN 1 ELSE outcomes[KeyOf(d)] + 1
RecordFailure(d) ==
    /\ h[d].pc = "failing"
    /\ Remember(d, Failed(d))
    /\ IF KindOf(d) \in UserOrTrajectory \/ Failed(d) < Threshold THEN AfterFailure(d)
       ELSE Await(d, "killing", h[d].level)
    /\ UNCHANGED <<quiet, steer>>

\* mark_task_failed has returned: REPEATED_FAILURE is raised, except in ledger mode.
Fate(d) == IF h[d].level = "retired" THEN "done" ELSE "repeating"

\* mark_task_failed, which does nothing for a finished task.
Kill(d) ==
    /\ h[d].pc = "killing"
    /\ IF TaskOf(d) \in Tasks /\ task[TaskOf(d)] = "live"
       THEN /\ task' = [task EXCEPT ![TaskOf(d)] = "failed"]
            /\ Goto(d, "settling")
       ELSE Goto(d, Fate(d)) /\ UNCHANGED task
    /\ UNCHANGED <<mode, turn, steer, outcomes, notes, entry, phase, drain, hist>>

\* The drift of the failed task is handled in a background task of its own.
SpawnFailure(d) ==
    /\ h[d].pc = "settling" /\ task[TaskOf(d)] = "settled"
    /\ h' = [x \in Drifts |->
               IF x = d THEN [h[d] EXCEPT !.pc = Fate(d)]
               ELSE IF x = FailureOf(TaskOf(d)) THEN [h[x] EXCEPT !.pc = "spawned"] ELSE h[x]]
    /\ UNCHANGED <<mode, turn, steer, outcomes, notes, entry, task, phase, drain, hist>>

RepeatedAnnounced(d) ==
    /\ h[d].pc = "repeating"
    /\ AfterFailure(d)
    /\ UNCHANGED <<quiet, steer, outcomes>>

-----------------------------------------------------------------------------
(***************************************************************************)
(* Escalation, tasks, the clock and the end of the run.                    *)
(***************************************************************************)

\* _record_signal_outcome_escalated
PauseAnnounced(d) ==
    /\ h[d].pc = "pausing"
    /\ entry' = ResolvedAs({KeyOf(d)}, LAMBDA k : "escalated")
    /\ Goto(d, "escalating")
    /\ UNCHANGED <<quiet, steer, outcomes, notes, hist>>

\* The control is sent and HUMAN_INTERVENTION_REQUIRED announced.
Escalated(d) ==
    /\ h[d].pc = "escalating"
    /\ Goto(d, "done")
    /\ UNCHANGED <<quiet, steer, outcomes, notes, entry, hist>>

FinishTask(t) ==
    /\ phase = "running" /\ task[t] = "live"
    /\ task' = [task EXCEPT ![t] = "finished"]
    /\ UNCHANGED <<mode, turn, steer, h, outcomes, notes, entry, phase, drain, hist>>

\* record_signal_outcomes_for_task, resolve_task
TaskKeys(t) == {k \in Keys : k[2] = t}
RecordOutcomes(t) ==
    /\ task[t] \in {"finished", "failed"}
    /\ entry' = ResolvedAs(TaskKeys(t),
                           LAMBDA k : IF k \in RenderedKeys THEN "after_signal" ELSE "unaided")
    /\ hist' = [hist EXCEPT !.wronged = @ \cup
                  {k \in TaskKeys(t) : Resolvable(k) /\ (k \in RenderedKeys) # (k \in hist.shown)}]
    /\ task' = [task EXCEPT ![t] = "settled"]
    /\ UNCHANGED <<mode, turn, steer, h, outcomes, notes, phase, drain>>

\* observe_reasoning advances the clock.
Tick ==
    /\ phase = "running" /\ turn < MaxTurn
    /\ turn' = turn + 1
    /\ UNCHANGED <<mode, steer, h, outcomes, notes, entry, task, phase, drain, hist>>

AtWork == {d \in Drifts : h[d].pc \notin {"none", "done"}}

\* drain_session_background_tasks: the tasks are listed once, at the start.
EndRun ==
    /\ phase = "running"
    /\ phase' = "draining" /\ drain' = AtWork
    /\ UNCHANGED <<mode, turn, steer, h, outcomes, notes, entry, task, hist>>

\* _drain_background_set: what is still at work after the timeout is cancelled.
DrainTimesOut ==
    /\ phase = "draining" /\ drain \cap AtWork # {}
    /\ h' = [d \in Drifts |-> IF d \in drain THEN [h[d] EXCEPT !.pc = "done"] ELSE h[d]]
    /\ UNCHANGED <<mode, turn, steer, outcomes, notes, entry, task, phase, drain, hist>>

FinalizeAll == ResolvedAs(Keys, LAMBDA k : "invocation_ended")

\* Mutant: the ledger is finalized before the drain.
FinalizeFirst ==
    /\ phase = "draining"
    /\ phase' = "over" /\ entry' = FinalizeAll
    /\ UNCHANGED <<mode, turn, steer, h, outcomes, notes, task, drain, hist>>

\* finalize_signal_ledger, once the drain is done.
Finalize ==
    /\ phase = "draining" /\ drain \cap AtWork = {}
    /\ phase' = "over" /\ entry' = FinalizeAll
    /\ UNCHANGED <<mode, turn, steer, h, outcomes, notes, task, drain, hist>>

-----------------------------------------------------------------------------
Handler(d) ==
    \/ Observe(d) \/ Arrive(d) \/ Detected(d) \/ CancelRequested(d) \/ Climb(d)
    \/ RefineInstalls(d) \/ RefineFails(d) \/ RefineUnusable(d) \/ RefineDeclined(d)
    \/ Revised(d) \/ RecordFailure(d) \/ Kill(d) \/ SpawnFailure(d)
    \/ RepeatedAnnounced(d) \/ PauseAnnounced(d) \/ Escalated(d)

Next ==
    \/ \E d \in Drifts : Handler(d)
    \/ \E t \in Tasks : FinishTask(t) \/ RecordOutcomes(t)
    \/ RenderInRequest \/ RenderOnToolResult \/ Tick
    \/ EndRun \/ DrainTimesOut \/ Finalize

Spec == Init /\ [][Next]_vars

-----------------------------------------------------------------------------
(***************************************************************************)
(* Properties.                                                             *)
(***************************************************************************)

\* What the ledger says of a finished task is what happened: the agent
\* corrected itself after a signal only if a note of the key was really shown
\* to it (record_signal_outcomes_for_task), and unaided only if none was, save
\* where the queue has pruned the note it showed.
AttributionIsTrue == hist.wronged \subseteq hist.forgotten

\* A drift on the signal level does nothing, neither nudge nor escalate, while
\* the agent has been given a note of its key within the grace window or a steer
\* of the user is fresh: at the moment it would act, after the transition was
\* announced, and whenever the note was written (_signal_pacing_decision).
NothingSent(d) == \A c \in {"request_context", "pause_control"} :
    <<d, c>> \in entry'[KeyOf(d)].deliveries => <<d, c>> \in entry[KeyOf(d)].deliveries
SignalsArePaced ==
    [][\A d \in Drifts :
        /\ h[d].pc = "ladder" /\ h[d].level = "signal"
        /\ \/ UserSteerFresh
           \/ LET at == hist.taken[KeyOf(d)] IN at >= 0 /\ turn - at < Window /\ KeyOf(d) \notin hist.forgotten
        => h'[d].pc \in {"ladder", "done"} /\ NothingSent(d)]_vars

\* A handler that was at work when the run ended delivers no signal to a ledger
\* that is finalized (_drain_steerer_at_run_boundary).
DrainedBeforeFinalize == hist.late \cap drain = {}
=============================================================================
