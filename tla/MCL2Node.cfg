CONSTANTS
    SNAPSHOT_INTERVAL = 1
    Down = Down
    NoHead = NoHead
    MaxBuilt = 3
    MaxExpired = 1
    MaxLosses = 2
    MaxCrashes = 2
SPECIFICATION FairSpec
CHECK_DEADLOCK FALSE
INVARIANT NodeTypeOK
INVARIANT PostedWasOnL1
INVARIANT RestartsWhereItWas
INVARIANT PromisesAreOneChain
PROPERTY RestartKeepsPosted
PROPERTY CatchesUp
