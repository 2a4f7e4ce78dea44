SPECIFICATION Spec
CONSTANTS
    w1 = w1  w2 = w2  w3 = w3  l1 = l1  s1 = s1  x1 = x1  u1 = u1  f1 = f1
    t1 = t1  none = none
    Drifts = {w1, w2, w3, l1, s1, x1, u1, f1}
    Tasks = {t1}
    NoTask = none
    KindOf <- MCKind  SeverityOf <- MCSeverity  TaskOf <- MCTask  FailureOf <- MCFailure
    Modes <- MCModes
    PromoteAt = "warning"
    SteerWindow = 1
    Window = 1
    Threshold = 1
    NotesCap = 1
    MaxTurn = 1
    MaxObserved = 2
INVARIANTS AttributionIsTrue DrainedBeforeFinalize
PROPERTY SignalsArePaced
CHECK_DEADLOCK FALSE
