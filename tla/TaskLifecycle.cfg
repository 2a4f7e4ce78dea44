CONSTANTS
    a = a  b = b  d = d
    Tasks = {a, b, d}
    Edges <- Chain
    Callers = {c1, c2}
    Cancellable = {c2}
    NoTask = NoTask
SPECIFICATION Spec
INVARIANTS TypeOK CascadeSound NoOrphan DriftAfterCascade Bookkeeping FinishAnnounced
PROPERTY FinishedIsFinal
CHECK_DEADLOCK FALSE
