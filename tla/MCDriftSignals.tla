--------------------------- MODULE MCDriftSignals ---------------------------
(* Any two of: two timeouts to be signalled and one to be escalated, a     *)
(* loop that is promoted, a stuck agent, a runaway delegation, a steer;    *)
(* and the failure of the task when a handler fails it.                    *)
EXTENDS DriftSignals

CONSTANTS w1, w2, w3, l1, s1, x1, u1, f1, t1, none

MCKind(d) ==
    CASE d \in {w1, w2, w3} -> "task_timeout" [] d = l1 -> "looping_reasoning"
      [] d = s1 -> "self_reported_stuck" [] d = x1 -> "runaway_delegation"
      [] d = u1 -> "user_steer" [] d = f1 -> "task_failed_fatal"
MCSeverity(d) == IF d \in {w3, x1, f1} THEN "critical" ELSE "warning"
MCTask(d) == IF d = u1 THEN none ELSE t1
MCFailure(t) == f1
MCModes == {<<TRUE, FALSE>>, <<FALSE, TRUE>>}
=============================================================================
