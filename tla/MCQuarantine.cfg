SPECIFICATION Spec
CONSTANTS
    None = None
    Absent = Absent
    Settings = {default, strict}
    Default = default
    Rows = {r1, r2}
    CurrentSchema = 2
    QueueSize = 1
    MaxEvents = 2
    MaxFaults = 1
    WaitsForClients = TRUE
INVARIANT SoundDatabaseStays
