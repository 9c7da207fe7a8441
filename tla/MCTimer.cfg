SPECIFICATION FairAuditSpec
CONSTANTS
    None = None
    Games = {}
    MaxWall = 4
    MaxMono = 4
    WallTargets = {}
    MaxTickGap = 2
    Days = {0}
    Config <- MCConfig
    ClockTolerance = 1
    SuspendGap = 2
    RetentionSpan = 100
    MinTimer = 2
    MaxTimer = 4
    TimerDurations = {1, 2, 4}
    TimerActions = {"inherit", "notify_only"}
    Adjustments <- MCAdjustments
    Grants = {}
    MaxAdjustment = 0
INVARIANTS TypeOK TimerRowAgrees RefundBounded WarnedOnce SecondTickIsNoop
PROPERTIES NoStartWhileRestricted RestrictionCatchesUp
VIEW View
