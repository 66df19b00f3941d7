SPECIFICATION CollectionSpec
CONSTANTS
    Proc = {p1, p2}
    NoOne = NoOne
    Forcing = {}
    Faults = {"crash"}
    Signals = FALSE
    Session = {cli, s1, s2, s3}
    Default = cli
    Writers = {cli}
    MaxSessionDirs = 2
    MaxTotalBytes = 3
    PreserveRecent = 1
    MaxResults = 2
INVARIANTS OneCollector LockGoneAtEnd CollectionTypeOK PointersResolve
PROPERTIES NoOverCollection RecentKept
\* every daemon ends for good
CHECK_DEADLOCK FALSE
