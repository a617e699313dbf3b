SPECIFICATION PollingSpec
CONSTANTS
    f1 = f1
    f2 = f2
    v1 = v1
    v2 = v2
    Paths = {f1, f2}
    Polled = f1
    Vals = {v1, v2}
    NoValue = NoValue
    NoError = NoError
    Overrides <- MCOverrides
    Lease <- MCLease
    Coalesce = 3
    Interval = 10
    Jitter = 10
    Base = 2
    Ceiling = 5
    Stale = 12
    MaxAge = 15
    SnapshotAge = 2
    MaxMoves = 2
    MaxTime = 30
VIEW MCView
CHECK_DEADLOCK FALSE
INVARIANTS
    ChangeReachesInTime
    LeaseRenewed
    FailingIsSpaced
    ReadyMeansRefreshed
