SPECIFICATION AuditSpec
CONSTANTS
    None = None
    Games = {g1, g2}
    MaxWall = 4
    MaxMono = 3
    WallTargets = {1, 4}
    MaxTickGap = 2
    DayLength = 3
    LastDay = 1
    Days <- MCDays
    Config <- MCConfig
    ClockTolerance = 1
    SuspendGap = 2
    RetentionSpan = 100
    MinTimer = 1
    MaxTimer = 3
    TimerDurations = {}
    TimerActions = {}
    Adjustments = {}
    Grants = {}
    MaxAdjustment = 0
INVARIANTS LedgerAgrees PendingOfSession Conservation
PROPERTIES ImplementsLedger
SYMMETRY Symmetry
VIEW View
