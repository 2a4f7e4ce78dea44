CONSTANTS
    a = a  b = b
    Tasks = {a, b}
    InitialPlan = {a}
    Edges <- Chain
    Root <- OwnRoot
    Supersedes = {}
    Kinds = {"CANCEL", "PAUSE", "RESUME", "STEER", "REWIND_TO", "GOLDFIVE_STEER",
             "GOLDFIVE_PAUSE_DEADLINE"}
    FailFast = FALSE
    Active = TRUE
    MaxInvocations = 2
    LineageCap = 1
    MaxMsgs = 2
    MaxRevisions = 1
    NoTask = NoTask
SPECIFICATION FairSpec
INVARIANT MessagesKept
PROPERTIES EndsOrWaits CancelAborts
CHECK_DEADLOCK FALSE
