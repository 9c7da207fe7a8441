SPECIFICATION FairAuditSpec
CONSTANTS
    None = None
    Games = {g1}
    MaxWall = 2
    MaxMono = 2
    WallTargets = {}
    MaxTickGap = 2
    DayLength = 2
    Days <- MCDays
    Config <- MCConfig
    ClockTolerance = 1
    SuspendGap = 2
    RetentionSpan = 100
    MinTimer = 2
    MaxTimer = 2
    TimerDurations = {}
    TimerActions = {}
    Adjustments = {}
    Grants <- MCGrants
    MaxAdjustment = 1
INVARIANTS LedgerAgrees PendingOfSession Conservation WarnedOnce
PROPERTIES RestrictionCatchesUp OrphanClosed
VIEW View
