--------------------------- MODULE MCTaskReports ----------------------------
(* A plan of one task of one agent, which two calls work on at the same    *)
(* time; a revision may replace or correct it, and growth may add a task.  *)
EXTENDS TaskReports

CONSTANTS t1, r1, k1, g1, a1, a2, c1, c2

MCEdges == {<<t1, k1>>}
MCSupersedes == [t \in Tasks |-> CASE t = r1 -> t1 [] t = k1 -> t1 [] OTHER -> NoTask]
MCAssignee == [t \in Tasks |-> IF t = k1 THEN a2 ELSE a1]
MCCallee == [c \in Calls |-> IF c = c1 THEN a1 ELSE a2]
MCReasoned == [a \in Agents |-> NoTask]
MCBareName == [a \in Agents |-> a]
MCCorrections == {<<a2, k1>>}
=============================================================================
