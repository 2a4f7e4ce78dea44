----------------------------- MODULE Detectors ------------------------------
(***************************************************************************)
(* The detectors of drift side by side: the reasoning judge, the outcome   *)
(* judge, the goal judge with the reflective check, the stall watchdog and *)
(* the tool loop tracker.  Each is switched on by the configuration by     *)
(* itself and none reads what another keeps, so a behaviour here has one   *)
(* of them at work.                                                        *)
(***************************************************************************)
EXTENDS ReasoningJudge, OutcomeJudge, GoalJudge, StallWatchdog, ToolLoops

VARIABLE wired    \* the detector that is configured

detectorVars == <<wired, reasoning, outcomeVars, goals, stall, loops>>

DetectorsInit ==
    /\ ReasoningInit /\ OutcomeInit /\ GoalInit /\ StallInit /\ LoopInit
    /\ wired \in {"reasoning", "outcomes", "goals", "reflection", "stall", "loops"}

DetectorsNext ==
    /\ UNCHANGED wired
    /\ \/ wired = "reasoning" /\ ReasoningNext /\ UNCHANGED <<outcomeVars, goals, stall, loops>>
       \/ wired = "outcomes" /\ OutcomeNext /\ UNCHANGED <<reasoning, goals, stall, loops>>
       \/ wired = "goals" /\ GoalNext /\ UNCHANGED <<reasoning, outcomeVars, stall, loops>>
       \/ wired = "reflection" /\ ReflectNext /\ UNCHANGED <<reasoning, outcomeVars, stall, loops>>
       \/ wired = "stall" /\ StallNext /\ UNCHANGED <<reasoning, outcomeVars, goals, loops>>
       \/ wired = "loops" /\ LoopNext /\ UNCHANGED <<reasoning, outcomeVars, goals, stall>>

DetectorsSpec == DetectorsInit /\ [][DetectorsNext]_detectorVars

JudgeStep ==
    /\ wired = "reasoning" /\ \E j \in DOMAIN judges : Judging(j)
    /\ UNCHANGED <<wired, outcomeVars, goals, stall, loops>>

\* The event loop runs what can run; models answer or their calls fail.
DetectorsFairSpec == DetectorsSpec /\ WF_detectorVars(JudgeStep)

\* What a judge concludes was true of the plan it concludes it about, although the
\* plan moved on while the model was thinking: deliverables are settled under the title
\* the model was asked about, and progress is not taken for a lack of it.
VerdictsAreFresh == OutcomeIsFresh /\ GoalDriftIsFresh
=============================================================================
