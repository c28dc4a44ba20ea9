SPECIFICATION PointSyncSpec
CONSTANTS
    p1 = p1
    l1 = l1
    Points = {p1, p2}
    Locals = {l1, l2}
    FileList <- MCFileList
    Fallback = TRUE
    Takeover = FALSE
    Unreachable = TRUE
    Ticker = TRUE
    MaxRevs = 3
    MaxRestarts = 1
CHECK_DEADLOCK FALSE
INVARIANTS ReportedIsApplied OneAddressOnePoint
PROPERTY Ratchet
