SPECIFICATION FairSpec
CONSTANTS
    t1 = t1 r1 = r1 k1 = k1 g1 = g1
    a1 = a1 a2 = a2 c1 = c1 c2 = c2
    NoTask = NoTask
    Tasks = {t1, r1, k1, g1}
    Agents = {a1, a2}
    Calls = {c1, c2}
    InitialPlan = {t1}
    Spare = {g1}
    Corrects = {k1}
    Edges <- MCEdges
    Supersedes <- MCSupersedes
    Assignee <- MCAssignee
    Callee <- MCCallee
    Reasoned <- MCReasoned
    Corrections <- MCCorrections
    BareName <- MCBareName
    Growth = TRUE
    Reports = {"completed", "awaiting_approval"}
    Passive = FALSE
    MaxRevisions = 1
    MaxReports = 2
    MaxDecisions = 1
INVARIANT DecisionWasMade
PROPERTIES LandsOnLineage ReportsEnd
CHECK_DEADLOCK FALSE
