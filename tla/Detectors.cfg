SPECIFICATION DetectorsFairSpec
CONSTANTS
    Speakers = {a1}
    Jobs = {t1}
    NoJob = none
    Mode = "both"
    RateLimit = 2
    JudgeSeats = 1
    MaxTexts = 3
    Deliverables = {d1, d2}
    Titles = {"brief", "report"}
    MaxEdits = 2
    PlanSteps = {s1, s2}
    NoStep = none
    ReflectInterval = 2
    Graduated = TRUE
    MaxGoalJudges = 2
    MaxMoves = 3
    StallTimeout = 2
    IdleGoal = 3
    GoalInterval = 2
    GoalSpacing = 2
    MaxTicks = 6
    LoopAgents = {b1, b2}
    WorkTools = {"search"}
    MetaTools = {"report"}
    ToolCalls <- MCToolCalls
    WindowSize = 4
    WorkTiers <- MCWorkTiers
    MetaTiers <- MCMetaTiers
    NameCap = "info"
    Alternating = 4
    MaxCalls = 6
INVARIANT LoopsToldApart
PROPERTIES StallEscalates TextsJudged VerdictsAreFresh
CHECK_DEADLOCK FALSE
