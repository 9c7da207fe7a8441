SPECIFICATION FairSpec
CONSTANTS
    None = None
    Absent = Absent
    Settings = {default, strict}
    Default = default
    Rows = {r1, r2}
    CurrentSchema = 2
    QueueSize = 1
    MaxEvents = 2
    MaxFaults = 2
    WaitsForClients = TRUE
INVARIANTS TypeOK SettingsKept SettingsInForce HistoryKept StopLeavesNothing
PROPERTIES ServesInTheEnd StopCompletes NewestEventSeen BridgeReturns
