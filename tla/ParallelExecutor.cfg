CONSTANTS
    a = a  b = b  c = c
    Tasks = {a, b, c}
    NoTask = NoTask
    InitialPlans <- SmallPlans
    Edges <- Ordered
    MaxConcurrency = 1
    CancelStage = TRUE
    MaxRefines = 1
    Threshold = 2
    Kinds = {"CANCEL", "STEER", "PAUSE", "RESUME", "REWIND_TO", "GOLDFIVE_PAUSE_DEADLINE"}
    MaxMsgs = 1
    MaxRevisions = 1
    MaxDrifts = 2
SPECIFICATION ParallelFairSpec
PROPERTIES OnceAndInOrder FinishedKept EndsOrWaits
CHECK_DEADLOCK FALSE
