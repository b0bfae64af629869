CONSTANTS
    SNAPSHOT_INTERVAL = 1
    Down = Down
    NoHead = NoHead
    MaxBuilt = 3
    MaxExpired = 1
    MaxLosses = 1
    MaxCrashes = 1
SPECIFICATION BlobsMayFail
CHECK_DEADLOCK FALSE
INVARIANT SnapshotExact
