CONSTANTS
    a = a  d1 = d1  d2 = d2  work = work  ka = ka  kb = kb
    Planned = {a}
    InitialPlan = {a}
    Discovered = {d1, d2}
    Identity <- SameWork
    Hashes = {work}
    Keys = {ka}
    TaskOf <- KeyTask
    Stamped = {ka}
    Trajectory = {}
    UserKeys = {}
    Handlers = {h1, h2}
    Turns = {t1}
    Growers = {g1}
    Active = TRUE
    Ledger = FALSE
    Threshold = 2
    MaxRev = 3
    NoProc = NoProc  NoKey = NoKey  NoHash = NoHash
SYMMETRY Symmetry
SPECIFICATION Spec
INVARIANTS VerdictStaysFresh OneHandlerPerKey OneLiveDiscovery
PROPERTY FinishedTasksSurvive
CHECK_DEADLOCK FALSE
