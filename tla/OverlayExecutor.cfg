CONSTANTS
    draft = draft  report = report  host = host  worker = worker
    top = top  first = first  second = second
    Tasks = {draft, report}
    InitialPlan = {report}
    Edges <- MCEdges
    Supersedes <- MCSupersedes
    Outcomes = {report}
    Agents = {host, worker}
    Host = host
    Calls = {top, first, second}
    NameOf <- MCNameOf
    Parent <- MCParent
    Assignee <- MCAssignee
    Active = TRUE
    FailFast = FALSE
    FailOnCancel = FALSE
    Growth = TRUE
    Kinds = {"CANCEL", "STEER", "GOLDFIVE_STEER", "GOLDFIVE_PAUSE_ESCALATE",
             "REWIND_TO"}
    Channels = {TRUE, FALSE}
    MaxReplays = 1
    MaxMsgs = 1
    MaxRevisions = 1
    NoTask = NoTask
SPECIFICATION FairSpec
INVARIANTS ClaimsMatchTurns NoOrphans
PROPERTIES SupersedeIsTold RunEnds
CHECK_DEADLOCK FALSE
