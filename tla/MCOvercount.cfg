SPECIFICATION FaultSpec
CONSTANTS
    None = None
    Games = {g1}
    MaxWall = 3
    MaxMono = 3
    WallTargets = {}
    MaxTickGap = 2
    DayLength = 2
    Days <- MCDays
    Config <- MCConfig
    ClockTolerance = 1
    SuspendGap = 2
    RetentionSpan = 100
    MinTimer = 1
    MaxTimer = 1
    TimerDurations = {1}
    TimerActions = {"notify_only"}
    Adjustments = {}
    Grants = {}
    MaxAdjustment = 0
INVARIANT NoOvercount
