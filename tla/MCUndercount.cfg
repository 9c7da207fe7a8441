SPECIFICATION AuditSpec
CONSTANTS
    None = None
    Games = {g1}
    MaxWall = 7
    MaxMono = 6
    WallTargets = {}
    MaxTickGap = 3
    DayLength = 4
    LastDay = 1
    Days <- MCDays
    Config <- MCConfig
    ClockTolerance = 1
    SuspendGap = 2
    RetentionSpan = 100
    MinTimer = 1
    MaxTimer = 3
    TimerDurations = {}
    TimerActions = {}
    Adjustments = {}
    Grants = {}
    MaxAdjustment = 0
INVARIANT LossWithinInterval
VIEW View
