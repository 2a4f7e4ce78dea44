---------------------------- MODULE OutcomeJudge ----------------------------
(***************************************************************************)
(* The outcome judge of drift_observer.py and drift/outcome_progress.py:   *)
(* at task boundaries, in the background and one at a time, and once more  *)
(* when the run ends, the model is asked which deliverables are met.  The  *)
(* answer is about the plan as it was when the model was asked.            *)
(***************************************************************************)
EXTENDS Naturals, FiniteSets

CONSTANTS
    Deliverables,   \* the tasks of kind OUTCOME
    Titles,         \* titles a deliverable may have; with its kind the stability token
    MaxEdits        \* bound on the edits a revision makes to deliverables

ASSUME OutcomeAssumption == Titles # {} /\ MaxEdits \in Nat

VARIABLES
    deliverable,   \* status and title of each deliverable in session.plan
    edits,         \* how many edits revisions have made
    inflight,      \* _outcome_progress_inflight
    asked,         \* for each judge: where it is, the plan it was asked about, what to apply
    overtaken      \* history: deliverables edited while a judge applies its transitions

outcomeVars == <<deliverable, edits, inflight, asked, overtaken>>

OutcomeJudges == {"background", "final"}
OpenStatus == {"PENDING", "RUNNING"}
Nothing == [pc |-> "idle", snap |-> [d \in {} |-> 0], todo |-> [d \in {} |-> "none"]]

OutcomeInit ==
    /\ \E title \in Titles :
          deliverable = [d \in Deliverables |-> [status |-> "PENDING", title |-> title]]
    /\ edits = 0 /\ inflight = FALSE
    /\ asked = [p \in OutcomeJudges |-> Nothing]
    /\ overtaken = {}

\* The deliverables that are open, with their stability tokens.
OpenOutcomes ==
    [d \in {e \in Deliverables : deliverable[e].status \in OpenStatus} |-> deliverable[d].title]

\* _spawn_outcome_progress_background at a task boundary.  The throttle of
\* _maybe_run_goal_drift_on_task_boundary leaves open when.
SpawnOutcomeJudge ==
    /\ ~inflight /\ asked["background"].pc = "idle"
    /\ inflight' = TRUE
    /\ asked' = [asked EXCEPT !["background"].pc = "spawned"]
    /\ UNCHANGED <<deliverable, edits, overtaken>>

\* finalize_outcomes at the end of the run, whatever runs in the background.
FinalizeOutcomes ==
    /\ asked["final"].pc = "idle"
    /\ asked' = [asked EXCEPT !["final"].pc = "spawned"]
    /\ UNCHANGED <<deliverable, edits, inflight, overtaken>>

\* The judge is done; the one in the background lets the next one start.
Rest(p) == inflight' = IF p = "background" THEN FALSE ELSE inflight
Resting(p) == IF p = "background" THEN Nothing ELSE [Nothing EXCEPT !.pc = "ended"]

\* _run_outcome_progress up to the call of the model.
AskOutcomes(p) ==
    /\ asked[p].pc = "spawned"
    /\ IF DOMAIN OpenOutcomes = {}
       THEN asked' = [asked EXCEPT ![p] = Resting(p)] /\ Rest(p)
       ELSE /\ asked' = [asked EXCEPT ![p] = [Nothing EXCEPT !.pc = "asking", !.snap = OpenOutcomes]]
            /\ UNCHANGED inflight
    /\ UNCHANGED <<deliverable, edits, overtaken>>

\* plan_outcome_transitions: MET completes if the goals' predicates hold now,
\* FAILED counts at the end of the run only.
OutcomeTransitions(p) ==
    LET verdicts == {"none", "COMPLETED"} \cup (IF p = "final" THEN {"FAILED"} ELSE {})
    IN  [DOMAIN asked[p].snap -> verdicts]

\* Mutant: every transition is applied, whatever the plan has become.
FreshUnchecked(p, v) == {d \in DOMAIN v : v[d] # "none"}

\* _apply_outcome_transitions: what the plan no longer has, has under another
\* token, or has finished by now is dropped.
Fresh(p, v) ==
    {d \in DOMAIN v : /\ v[d] # "none"
                      /\ d \in DOMAIN OpenOutcomes
                      /\ OpenOutcomes[d] = asked[p].snap[d]}

\* The model answers.  The contributions are stamped in the same step.
OutcomesAnswered(p) ==
    /\ asked[p].pc = "asking"
    /\ \E v \in OutcomeTransitions(p) :
          asked' = [asked EXCEPT ![p].pc = "applying", ![p].todo = [d \in Fresh(p, v) |-> v[d]]]
    /\ overtaken' = {d \in overtaken : \E q \in OutcomeJudges \ {p} : asked[q].pc = "applying"}
    /\ UNCHANGED <<deliverable, edits, inflight>>

\* Transitions are applied one after the other; mark_task_completed and
\* mark_task_failed leave a finished task, or one that is gone, alone.
ApplyOutcome(p, d) ==
    /\ asked[p].pc = "applying" /\ d \in DOMAIN asked[p].todo
    /\ deliverable' = IF deliverable[d].status \in OpenStatus
                      THEN [deliverable EXCEPT ![d].status = asked[p].todo[d]] ELSE deliverable
    /\ asked' = [asked EXCEPT ![p].todo = [e \in DOMAIN @ \ {d} |-> @[e]]]
    /\ UNCHANGED <<edits, inflight, overtaken>>

OutcomesApplied(p) ==
    /\ asked[p].pc = "applying" /\ DOMAIN asked[p].todo = {}
    /\ asked' = [asked EXCEPT ![p] = Resting(p)] /\ Rest(p)
    /\ UNCHANGED <<deliverable, edits, overtaken>>

\* The call raises or gives nothing, or the judge is cancelled at its await.
OutcomeJudgeFails(p) ==
    /\ asked[p].pc \in {"asking", "applying"}
    /\ asked' = [asked EXCEPT ![p] = Resting(p)] /\ Rest(p)
    /\ UNCHANGED <<deliverable, edits, overtaken>>

\* A revision gives an open deliverable another title, or drops it.
EditOutcome(d) ==
    /\ edits < MaxEdits /\ edits' = edits + 1
    /\ deliverable[d].status \in OpenStatus
    /\ \/ \E title \in Titles \ {deliverable[d].title} :
             deliverable' = [deliverable EXCEPT ![d].title = title]
       \/ deliverable' = [deliverable EXCEPT ![d].status = "ABSENT"]
    /\ overtaken' = IF \E p \in OutcomeJudges : asked[p].pc = "applying"
                    THEN overtaken \cup {d} ELSE overtaken
    /\ UNCHANGED <<inflight, asked>>

OutcomeStep(p) ==
    \/ AskOutcomes(p) \/ OutcomesAnswered(p) \/ OutcomesApplied(p) \/ OutcomeJudgeFails(p)
    \/ \E d \in Deliverables : ApplyOutcome(p, d)

OutcomeNext ==
    \/ SpawnOutcomeJudge \/ FinalizeOutcomes
    \/ \E p \in OutcomeJudges : OutcomeStep(p)
    \/ \E d \in Deliverables : EditOutcome(d)

-----------------------------------------------------------------------------
(***************************************************************************)
(* Properties.                                                             *)
(***************************************************************************)

\* A deliverable is settled by a judge only under the title the model was asked
\* about, whichever revisions land while it thinks and whatever the other judge
\* does; only an edit between two of the judge's own transitions slips through.
OutcomeIsFresh ==
    [][\A p \in OutcomeJudges, d \in Deliverables :
          ApplyOutcome(p, d) /\ deliverable'[d] # deliverable[d] =>
              d \in overtaken \/ asked[p].snap[d] = deliverable[d].title]_outcomeVars
=============================================================================
