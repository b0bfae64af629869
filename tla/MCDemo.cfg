SPECIFICATION DemoSpec
CONSTANTS
    Senders = {"a", "b"}
    L1Messages = {"m"}
    NoMessage = "none"
    Recipient <- PoolRecipient
    Funds <- PoolFunds
    Traffic <- PoolTraffic
    MAX_BLOCK_TXS = 3
    BlockGas = 2
    MaxBlocks = 2
    Clients = {"many", "one"}
    OnePerSender = {"one"}
    MAX_POSTS = 2
    MaxHeight = 3
    MaxFaults = 1
    MaxRestarts = 1
    Deposits = {"d"}
    SNAPSHOT_INTERVAL = 2
    L1_REINDEX_BLOCKS = 2
    FinalityLag = 1
    MaxL1 = 4
    MaxStops = 2
    KEEP_BLOCKS = 3
    SnapshotEvery = 2
    HEADERS = 2
    MaxWaiting = 2
    MaxStored = 5
    MaxExits = 2
    Claimers = {"alice"}
    CACHE_MARGIN = 1
    MaxL1Blocks = 2
    MaxL2Blocks = 2
    MaxRollbacks = 1
    MaxRuns = 3
    UserMessages = {1}
    MaxPosted = 2
    MaxL1Chain = 3
    MaxDisturbances = 1
    MaxDeploys = 2
    MaxReports = 3
    MaxDrops = 1
    MaxHalts = 2
    MaxStep = 0
INVARIANT DemoTypeOK
INVARIANT OnePendingClaim
INVARIANT NoWastedPosts
INVARIANT ExplorerShowsL1
INVARIANT AnswersAreTheChains
INVARIANT RunsClaimWhatIsLeft
 
INVARIANT PicksUpWhereItStopped
PROPERTY BlockTakesTheReady
PROPERTY PostsGetThrough
CHECK_DEADLOCK FALSE
