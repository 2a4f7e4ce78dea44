--------------------------- MODULE ReasoningJudge ---------------------------
(***************************************************************************)
(* The reasoning judge of drift_observer.py: observe_reasoning takes a     *)
(* judge slot and queues a window, a background task waits for the         *)
(* semaphore, asks the model and acts on the verdict.  And the conditions  *)
(* that drifts open and verdicts or finished tasks resolve                 *)
(* (state_store.py).                                                       *)
(*                                                                         *)
(* A text is its number.  What handle_drift does beyond announcing the     *)
(* drift is in DriftSignals; here it is time in which the judge keeps its  *)
(* seat.  Custom judges run next to this one and share nothing with it.    *)
(***************************************************************************)
EXTENDS Naturals, Sequences, FiniteSets

CONSTANTS
    Speakers,      \* the agents whose reasoning is observed
    Jobs, NoJob,   \* the tasks they work on, and none
    Mode,          \* _reasoning_drift_mode: "judge" or "both"
    RateLimit,     \* _reasoning_drift_rate_limit
    JudgeSeats,    \* max_concurrent_judges
    MaxTexts       \* bound on the texts observed

ASSUME ReasoningAssumption ==
    /\ NoJob \notin Jobs /\ Mode \in {"judge", "both"}
    /\ RateLimit \in Nat \ {0} /\ JudgeSeats \in Nat \ {0} /\ MaxTexts \in Nat

VARIABLES
    current,      \* session.current_task_id
    texts,        \* how many texts were observed
    taken,        \* _reasoning_judge_counters
    queued,       \* _queued_judge_windows: the judge whose window it is, 0 for none
    judges,       \* the background tasks, in the order they were created
    reachable,    \* invocations are registered and no cancel is pending
    conditions,   \* the active drifts
    settled,      \* the tasks that are finished, announced or not
    owed          \* history: texts and slots that no judge has dealt with

reasoning == <<current, texts, taken, queued, judges, reachable, conditions, settled, owed>>

\* compute_condition_id: a condition is its kind, task and agent, in one run.
\* Detectors without attribution leave the agent open.
NoSpeaker == "unattributed"

\* _REASONING_PIPELINE_DRIFT_KINDS: what the judge finds (OFF_TOPIC and
\* JUSTIFIED_DEVIATION) and what the comparison of texts finds.
PipelineKinds == {"deviation", "looping"}
ConditionKinds == PipelineKinds \cup {"goal"}

Key(a, t) == <<a, t>>
KeySet == Speakers \X (Jobs \cup {NoJob})

ReasoningInit ==
    /\ current = NoJob /\ texts = 0
    /\ taken = [k \in KeySet |-> 0] /\ queued = [k \in KeySet |-> 0]
    /\ judges = <<>> /\ reachable = TRUE
    /\ conditions = {} /\ settled = {}
    /\ owed = [k \in KeySet |-> [text |-> 0, slot |-> 0]]

-----------------------------------------------------------------------------
(***************************************************************************)
(* Conditions.                                                             *)
(***************************************************************************)

\* open_or_escalate_drift, by _stamp_drift_lifecycle.
Opened(kind, t, a) == conditions \cup {[kind |-> kind, task |-> t, agent |-> a]}

\* resolve_drifts_matching
Matching(t, agents, kinds) ==
    {c \in conditions : c.task = t /\ c.agent \in agents /\ c.kind \in kinds}

\* resolve_conditions_for_terminal_task: whoever opened them.
ResolvedForTask(t) ==
    conditions \ Matching(t, Speakers \cup {NoSpeaker}, ConditionKinds)

\* _resolve_conditions_on_on_task_verdict, for the task that is current now.
ResolvedByVerdict(a) ==
    IF current = NoJob THEN conditions
    ELSE conditions \ Matching(current, {a, NoSpeaker}, PipelineKinds)

-----------------------------------------------------------------------------
(***************************************************************************)
(* observe_reasoning.                                                      *)
(***************************************************************************)

\* The text repeats one of the window: the drift is handled and no slot taken.
LoopingReasoning(a) ==
    /\ texts < MaxTexts /\ texts' = texts + 1
    /\ conditions' = Opened("looping", current, NoSpeaker)
    /\ UNCHANGED <<current, taken, queued, judges, reachable, settled, owed>>

\* _maybe_take_reasoning_judge_slot
Slot(k) == taken[k] % RateLimit = 0

\* Mutant: a text without a slot takes the slot of the queued window away.
CoalescedDowngraded(w, n, slot) == [w EXCEPT !.text = n, !.llm = slot]

\* The queued window gets the newer text; a slot it has is never taken away.
Coalesced(w, n, slot) == [w EXCEPT !.text = n, !.llm = @ \/ slot]

ObserveReasoning(a) ==
    LET k == Key(a, current)
        slot == Slot(k)
        n == texts + 1
    IN  /\ texts < MaxTexts /\ texts' = n
        /\ taken' = [taken EXCEPT ![k] = @ + 1]
        /\ IF Mode = "judge" /\ ~slot
           THEN UNCHANGED <<queued, judges, owed>>
           ELSE /\ owed' = [owed EXCEPT ![k] = [text |-> n, slot |-> IF slot THEN n ELSE @.slot]]
                /\ IF queued[k] # 0
                   THEN /\ judges' = [judges EXCEPT ![queued[k]] = Coalesced(@, n, slot)]
                        /\ UNCHANGED queued
                   ELSE /\ judges' = Append(judges, [key |-> k, text |-> n, llm |-> slot,
                                                     task |-> NoJob, pc |-> "waiting"])
                        /\ queued' = [queued EXCEPT ![k] = Len(judges) + 1]
        /\ UNCHANGED <<current, reachable, conditions, settled>>

-----------------------------------------------------------------------------
(***************************************************************************)
(* _run_judge_background.                                                  *)
(***************************************************************************)

Seated == Cardinality({j \in DOMAIN judges : judges[j].pc \in {"judging", "deciding", "handling"}})
Waiting == {j \in DOMAIN judges : judges[j].pc = "waiting"}
Move(j, pc) == judges' = [judges EXCEPT ![j].pc = pc]

\* What judge j was to deal with is dealt with.
Dealt(j) ==
    LET w == judges[j]
    IN  owed' = [owed EXCEPT ![w.key] =
            [text |-> IF w.text >= @.text THEN 0 ELSE @.text,
             slot |-> IF w.llm /\ w.text >= @.slot THEN 0 ELSE @.slot]]

Unqueued(j) ==
    queued' = IF queued[judges[j].key] = j THEN [queued EXCEPT ![judges[j].key] = 0] ELSE queued

\* The semaphore wakes its waiters in order.  The window leaves the queue, and
\* the judge reads its text and the session's current task.
StartJudge(j) ==
    /\ j \in Waiting /\ \A i \in Waiting : j <= i
    /\ Seated < JudgeSeats
    /\ judges' = [judges EXCEPT ![j].pc = "judging", ![j].task = current]
    /\ Unqueued(j) /\ Dealt(j)
    /\ UNCHANGED <<current, texts, taken, reachable, conditions, settled>>

\* What the model answers: its classification, or something else and then perhaps
\* the older field on_task; and whether a deviation has a known provenance.
Answers == [class : {"on_task", "justified_deviation", "erroneous_deviation", "other"},
            onTask : {"true", "false", "missing"}, sourced : BOOLEAN]

Classification(answer) ==
    LET class == IF answer.class # "other" THEN answer.class
                 ELSE [true |-> "on_task", false |-> "erroneous_deviation",
                       missing |-> "none"][answer.onTask]
    IN  IF class = "justified_deviation" /\ ~answer.sourced THEN "erroneous_deviation" ELSE class

Verdicts == {Classification(answer) : answer \in Answers}

\* The verdict is a drift.  A late one is announced only; otherwise handle_drift
\* announces it, unless its gates drop it, and may take its time.
VerdictDrift(j, verdict) ==
    /\ judges[j].pc = "judging"
    /\ verdict \in {"justified_deviation", "erroneous_deviation"}
    /\ \E announced \in BOOLEAN :
          /\ ~reachable => announced
          /\ conditions' = IF announced THEN Opened("deviation", judges[j].task, judges[j].key[1])
                           ELSE conditions
    /\ Move(j, IF reachable THEN "handling" ELSE "done")
    /\ UNCHANGED <<current, texts, taken, queued, reachable, settled, owed>>

\* There is no drift: the agent is on task, the answer cannot be classified, or
\* the call failed.  The decision is emitted first.
VerdictNoDrift(j, verdict) ==
    /\ judges[j].pc = "judging"
    /\ verdict \in {"on_task", "none", "failed"}
    /\ Move(j, IF verdict = "on_task" THEN "deciding" ELSE "failed")
    /\ UNCHANGED <<current, texts, taken, queued, reachable, conditions, settled, owed>>

\* The conditions of the pipeline are resolved, if the invocation is not gone.
ResolveConditions(j) ==
    /\ judges[j].pc \in {"deciding", "failed"}
    /\ conditions' = IF reachable THEN ResolvedByVerdict(judges[j].key[1]) ELSE conditions
    /\ Move(j, "done")
    /\ UNCHANGED <<current, texts, taken, queued, reachable, settled, owed>>

JudgeDone(j) ==
    /\ judges[j].pc = "handling"
    /\ Move(j, "done")
    /\ UNCHANGED <<current, texts, taken, queued, reachable, conditions, settled, owed>>

\* A straggler is cancelled at the end of a run; the finally clause removes its
\* window.
CancelJudge(j) ==
    /\ judges[j].pc # "done" /\ Move(j, "done")
    /\ Unqueued(j) /\ Dealt(j)
    /\ UNCHANGED <<current, texts, taken, reachable, conditions, settled>>

-----------------------------------------------------------------------------
(***************************************************************************)
(* The session around the judge.                                           *)
(***************************************************************************)

SwitchTask(t) ==
    /\ t # current /\ t \notin settled
    /\ current' = t
    /\ UNCHANGED <<texts, taken, queued, judges, reachable, conditions, settled, owed>>

\* An invocation ends or is cancelled, or the next one is registered.
InvocationChanges ==
    /\ reachable' = ~reachable
    /\ UNCHANGED <<current, texts, taken, queued, judges, conditions, settled, owed>>

\* A task becomes terminal: _emit_task_transitioned resolves its conditions.
TaskSettles(t) ==
    /\ t \in Jobs \ settled
    /\ settled' = settled \cup {t}
    /\ conditions' = ResolvedForTask(t)
    /\ current' = IF current = t THEN NoJob ELSE current
    /\ UNCHANGED <<texts, taken, queued, judges, reachable, owed>>

\* The goal judge, which has no part in the queue, finds the run off its goals.
GoalDrift ==
    /\ conditions' = Opened("goal", current, NoSpeaker)
    /\ UNCHANGED <<current, texts, taken, queued, judges, reachable, settled, owed>>

Judging(j) ==
    \/ StartJudge(j) \/ ResolveConditions(j) \/ JudgeDone(j)
    \/ \E verdict \in Verdicts \cup {"failed"} : VerdictDrift(j, verdict) \/ VerdictNoDrift(j, verdict)

ReasoningNext ==
    \/ \E a \in Speakers : ObserveReasoning(a) \/ LoopingReasoning(a)
    \/ \E j \in DOMAIN judges : Judging(j) \/ CancelJudge(j)
    \/ \E t \in Jobs \cup {NoJob} : SwitchTask(t)
    \/ \E t \in Jobs : TaskSettles(t)
    \/ InvocationChanges \/ GoalDrift

-----------------------------------------------------------------------------
(***************************************************************************)
(* Properties.                                                             *)
(***************************************************************************)

\* Every text that was accepted, or a newer one of the same agent and task, is
\* judged, and every slot that was taken is used: windows are replaced and
\* judges cancelled, but nothing is left in the queue that no judge will read.
TextsJudged == \A k \in KeySet : owed[k] # [text |-> 0, slot |-> 0] ~> owed[k] = [text |-> 0, slot |-> 0]
=============================================================================
