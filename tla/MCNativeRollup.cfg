CONSTANTS
    r1 = r1
    r2 = r2
    vk1 = vk1
    vk2 = vk2
    StateRoots = {r1, r2}
    VkHashes = {vk1, vk2}
    vkPolicy = "FollowCurrent"
    pinnedVkHash = vk1
    STATE_ROOT_HISTORY = 2
    MAX_TIMESTAMP_LAG = 3
    BLOCKHASH_WINDOW = 2
    SlotTimes = {1, 2}
    GenesisRoot = r1
    MaxL1Blocks = 4
    MaxL2Blocks = 4
SPECIFICATION Spec
CHECK_DEADLOCK FALSE
INVARIANT TypeOK
INVARIANT HistoryExact
INVARIANT NeverHalts
INVARIANT ChainFollowsL1
