CONSTANTS
    t1 = t1  t2 = t2  t3 = t3  key = key  a = a  b = b  r = r
    Callers = {t1, t2, t3}
    Unpinned = Unpinned
    Keys = {Unpinned, key}
    KeyOf <- TwoTurnsOfOne
    Stated <- GoalsStated
    MaxConversations = 3
    FailFast = FALSE
    NoTurn = NoTurn
    Tasks = {a, b, r}
    NoTask = NoTask
    InitialPlans <- Seeds
    Answers <- Proposals
    RetryOf <- Names
    MaxAttempts = 2
SYMMETRY SameTurns
SPECIFICATION Spec
INVARIANTS GoalsKept CorrectionsRoute
PROPERTIES TurnsAreSerial LoopStops
CHECK_DEADLOCK FALSE
