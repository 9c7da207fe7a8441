SPECIFICATION Spec
CONSTANTS
    None = None
    Games = {g1, g2}
    Pids = {p1}
    Names = {n1, n2}
    FirstName = n1
    Plugins = {TRUE, FALSE}
    Faults = {"rotate", "rename", "fail", "lose", "overtake", "restart"}
    MaxUnread = 2
    MaxQueue = 0
    MaxReports = 2
INVARIANTS TypeOK TimedGameRuns RunningGameIsTimed
CONSTRAINT UpToFirstFault
SYMMETRY MCSymmetry
