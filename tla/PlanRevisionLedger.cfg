CONSTANTS
    a = a  d1 = d1  d2 = d2  work = work  ka = ka  kb = kb
    Planned = {a}
    InitialPlan = {a}
    Discovered = {d1, d2}
    Identity <- SameWork
    Hashes = {work}
    Keys = {kb, ka}
    TaskOf <- KeyTasks
    Stamped = {ka}
    Trajectory = {kb}
    UserKeys = {kb}
    Handlers = {h1}
    Turns = {t1}
    Growers = {g1, g2}
    Active = FALSE
    Ledger = TRUE
    Threshold = 2
    MaxRev = 2
    NoProc = NoProc  NoKey = NoKey  NoHash = NoHash
SPECIFICATION FairSpec
PROPERTIES LedgerKeepsDiscoveries WaiterProceeds
CHECK_DEADLOCK FALSE
