CONSTANTS
    a = a  b = b  d = d
    Tasks = {a, b, d}
    Edges <- Chain
    Callers = {c1, c2}
    Cancellable = {}
    NoTask = NoTask
SPECIFICATION Spec
PROPERTY TerminalStatesAbsorb
CHECK_DEADLOCK FALSE
