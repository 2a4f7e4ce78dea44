------------------------- MODULE InterventionLadder -------------------------
(***************************************************************************)
(* What a drift asks for: the intervention ladder and the kinds that are   *)
(* treated specially (drift_observer.py), without the legacy overrides.    *)
(***************************************************************************)

Severity == {"info", "warning", "critical"}
Rank(s) == CASE s = "info" -> 0 [] s = "warning" -> 1 [] s = "critical" -> 2

(***************************************************************************)
(* Kinds.                                                                  *)
(***************************************************************************)

UserAuthored == {"user_steer", "user_cancel", "user_pause"}
HardSafety == {"resource_exhausted", "runaway_delegation", "too_many_steps",
               "task_timeout", "llm_call_timeout", "human_intervention_required"}
UserOrTrajectory == {"user_steer", "user_cancel", "goal_drift"}
SteerEligible == {"off_topic", "intent_divergence", "unexpected_output",
                  "confabulation_risk", "looping_reasoning", "looping_tool_call"}
ForceFail == {"looping_tool_call", "looping_reasoning"}
AbsorbNudge == {"looping_reasoning", "looping_tool_call", "self_reported_stuck",
                "goal_drift"}

(***************************************************************************)
(* The ladder: the level of a first and of a repeated critical drift, and  *)
(* the level of a warning.  Information is only ever observed.             *)
(***************************************************************************)

Advisory == {"confabulation_risk", "agent_refusal", "model_refusal", "off_topic",
             "tool_error", "looping_reasoning", "looping_tool_call",
             "self_reported_stuck"}
Silent == {"reasoning_cluster_tightening", "plan_divergence", "new_work_discovered",
           "capability_mismatch"}
Stopping == {"resource_exhausted", "too_many_steps", "llm_call_timeout",
             "refine_validation_failed", "task_timeout", "intent_divergence"}

CriticalLevel(kind, repeat) ==
    CASE kind \in Silent -> "observe"
      [] kind \in Stopping -> "pause"
      [] kind = "justified_deviation" -> "absorb"
      [] kind \in Advisory \cup {"goal_drift"} -> IF repeat THEN "pause" ELSE "signal"
      [] kind = "runaway_delegation" -> IF repeat THEN "pause" ELSE "cancel_reinvoke"
      [] kind = "human_intervention_required" -> IF repeat THEN "terminate" ELSE "pause"
      [] OTHER -> IF repeat THEN "pause" ELSE "absorb"

WarningLevel(kind) ==
    CASE kind \in {"task_timeout", "goal_drift"} -> "signal"
      [] kind \in (Silent \ {"capability_mismatch"})
                  \cup (Stopping \ {"intent_divergence"})
                  \cup {"runaway_delegation", "human_intervention_required"} -> "observe"
      [] OTHER -> "absorb"

\* _ladder_level_for
Level(kind, severity, repeat) ==
    CASE severity = "info" -> "observe"
      [] severity = "warning" -> WarningLevel(kind)
      [] severity = "critical" -> CriticalLevel(kind, repeat)

\* _severity_meets_promotion_threshold
MeetsThreshold(severity, threshold) ==
    \/ threshold = "critical" /\ severity = "critical"
    \/ threshold = "warning" /\ severity # "info"
=============================================================================
