------------------------- MODULE MCOverlayExecutor --------------------------
(* TLC instances of OverlayExecutor. *)
EXTENDS OverlayExecutor, TLC

CONSTANTS draft, report, host, worker, top, first, second

\* The report depends on the draft; the host calls the worker twice.
MCEdges == {<<draft, report>>}
MCSupersedes == [t \in Tasks |-> NoTask]
MCParent == [i \in Calls |-> IF i = top THEN NoTask ELSE top]
MCNameOf == [i \in Calls |-> IF i = top THEN host ELSE worker]
MCAssignee == [t \in Tasks |-> IF t = report THEN NoTask ELSE worker]
=============================================================================
