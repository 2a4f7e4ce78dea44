---------------------------- MODULE StallWatchdog ---------------------------
(***************************************************************************)
(* The stall watchdog of adapters/_adk_plugin.py: it polls the time since  *)
(* the last sign of life, asks the goal judge once per idle episode, and   *)
(* announces TASK_TIMEOUT, first as a WARNING and then as CRITICAL.  And   *)
(* the counters that start the goal judge and the reflective check in      *)
(* drift_observer.py.                                                      *)
(***************************************************************************)
EXTENDS Naturals

CONSTANTS
    StallTimeout,   \* _stall_timeout_s, in ticks
    IdleGoal,       \* GOAL_DRIFT_IDLE_SECONDS, in ticks
    GoalInterval,   \* _goal_drift_check_interval
    GoalSpacing,    \* _GOAL_DRIFT_TASK_BOUNDARY_MIN_INTERVAL_S, in ticks
    MaxTicks        \* bound on the time

ASSUME StallAssumption ==
    {StallTimeout, IdleGoal, GoalInterval, GoalSpacing} \subseteq Nat \ {0} /\ MaxTicks \in Nat

VARIABLES
    now,           \* time.monotonic()
    lastSign,      \* the liveness watermark: progress or an observed event
    watchdog,      \* the task: off, polling, or awaiting handle_drift
    watermark,     \* last_watermark
    fires,         \* episode_fires
    goalFired,     \* goal_judge_fired
    llmInFlight,   \* an LLM call is under its own budget
    turns,         \* _agent_turns_since_goal_check
    boundaryAt,    \* _last_goal_drift_check_ts
    raised,        \* history: the severities announced since the last sign of life
    checks         \* history: goal checks spawned since the last sign of life for idleness

stall == <<now, lastSign, watchdog, watermark, fires, goalFired, llmInFlight, turns,
           boundaryAt, raised, checks>>

counters == <<turns, boundaryAt>>

StallInit ==
    /\ now = 0 /\ lastSign = 0 /\ watchdog = "off" /\ watermark = 0
    /\ fires = 0 /\ goalFired = FALSE /\ llmInFlight = FALSE /\ turns = 0 /\ boundaryAt = 0
    /\ raised = <<0, 0>> /\ checks = 0

TimePasses ==
    /\ now < MaxTicks /\ now' = now + 1
    /\ UNCHANGED <<lastSign, watchdog, watermark, fires, goalFired, llmInFlight, counters, raised,
                   checks>>

\* A transition of a task or an observed event stamps the time.
SignOfLife ==
    /\ lastSign # now
    /\ lastSign' = now /\ raised' = <<0, 0>> /\ checks' = 0
    /\ UNCHANGED <<now, watchdog, watermark, fires, goalFired, llmInFlight, counters>>

\* set_active_context starts a watchdog for the pass.  The time it starts is a
\* floor for the watermark, as if it were a sign of life.
StartWatchdog ==
    /\ watchdog = "off"
    /\ watchdog' = "polling" /\ watermark' = now
    /\ fires' = 0 /\ goalFired' = FALSE /\ raised' = <<0, 0>> /\ checks' = 0
    /\ lastSign' = now
    /\ UNCHANGED <<now, llmInFlight, counters>>

\* clear_active_context: wherever it is suspended, it is cancelled.
CancelWatchdog ==
    /\ watchdog # "off" /\ watchdog' = "off"
    /\ UNCHANGED <<now, lastSign, watermark, fires, goalFired, llmInFlight, counters, raised, checks>>

\* _run_llm_call_timeout_watcher starts and ends with a call of the model.
LlmCall ==
    /\ llmInFlight' = ~llmInFlight
    /\ UNCHANGED <<now, lastSign, watchdog, watermark, fires, goalFired, counters, raised, checks>>

Idle == now - lastSign
Advanced == lastSign > watermark

\* Mutant: a new episode keeps the count of the last one.
EpisodeFiresKept == fires

\* What the poll starts from: a sign of life since the last poll ends the episode.
EpisodeFires == IF Advanced THEN 0 ELSE fires

\* One turn of _run_stall_watchdog after its sleep.
Poll ==
    LET goal == (Advanced \/ ~goalFired) /\ Idle >= IdleGoal
        fire == Idle >= StallTimeout * (EpisodeFires + 1) /\ ~llmInFlight
    IN  /\ watchdog = "polling"
        /\ watermark' = IF Advanced THEN lastSign ELSE watermark
        /\ goalFired' = (goal \/ (goalFired /\ ~Advanced))
        /\ checks' = IF goal THEN checks + 1 ELSE checks
        /\ fires' = IF fire THEN EpisodeFires + 1 ELSE EpisodeFires
        /\ raised' = IF ~fire THEN raised
                     ELSE IF EpisodeFires = 0 THEN <<raised[1] + 1, raised[2]>>
                     ELSE <<raised[1], raised[2] + 1>>
        /\ watchdog' = IF fire THEN "handling" ELSE "polling"
        /\ UNCHANGED <<now, lastSign, llmInFlight, counters>>

\* handle_drift returns, or fails and is logged.
StallHandled ==
    /\ watchdog = "handling" /\ watchdog' = "polling"
    /\ UNCHANGED <<now, lastSign, watermark, fires, goalFired, llmInFlight, counters, raised, checks>>

\* note_agent_turn: every GoalInterval turns the goal judge is spawned.
NoteAgentTurn ==
    /\ turns' = (turns + 1) % GoalInterval
    /\ UNCHANGED <<now, lastSign, watchdog, watermark, fires, goalFired, llmInFlight, boundaryAt,
                   raised, checks>>

\* _maybe_run_goal_drift_on_task_boundary: a finished task spawns it as well, not
\* too often, and is a sign of life.
TaskBoundary ==
    /\ now - boundaryAt >= GoalSpacing
    /\ boundaryAt' = now /\ turns' = 0
    /\ lastSign' = now /\ raised' = <<0, 0>> /\ checks' = 0
    /\ UNCHANGED <<now, watchdog, watermark, fires, goalFired, llmInFlight>>

StallNext ==
    \/ TimePasses \/ SignOfLife \/ StartWatchdog \/ CancelWatchdog \/ LlmCall
    \/ Poll \/ StallHandled \/ NoteAgentTurn \/ TaskBoundary

-----------------------------------------------------------------------------
(***************************************************************************)
(* Properties.                                                             *)
(***************************************************************************)

\* A silence is escalated as it lasts, neither late nor early.  A poll that finds
\* it longer by a full timeout than what was announced of it announces the next
\* step, first the one WARNING and then CRITICAL, and the first poll after
\* GOAL_DRIFT_IDLE_SECONDS asks the goal judge.  And there are never more
\* announcements than full timeouts of silence, nor a second question.  A sign of
\* life, also one during handle_drift, starts all of it over.  While the model is
\* called, its own watcher is in charge and nothing is announced here.
StallEscalates ==
    [][LET announced == raised[1] + raised[2]
       IN  /\ Poll /\ ~llmInFlight /\ Idle >= StallTimeout * (announced + 1) =>
                 raised' = IF announced = 0 THEN <<1, 0>> ELSE <<1, raised[2] + 1>>
           /\ Poll /\ checks = 0 /\ Idle >= IdleGoal => checks' = 1
           /\ (raised'[1] + raised'[2]) * StallTimeout <= Idle'
           /\ raised'[1] <= 1 /\ (raised'[2] > 0 => raised'[1] = 1)
           /\ checks' <= 1]_stall
=============================================================================
