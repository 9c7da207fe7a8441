SPECIFICATION FairSpec
CONSTANTS
    None = None
    Games = {g1}
    Pids = {p1}
    Names = {n1}
    FirstName = n1
    Plugins = {FALSE}
    Faults = {"rotate"}
    MaxUnread = 2
    MaxQueue = 0
    MaxReports = 1
PROPERTY EndedGameIsStopped
