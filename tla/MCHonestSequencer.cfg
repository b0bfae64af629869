CONSTANTS
    r1 = r1
    vk1 = vk1
    StateRoots = {r1}
    VkHashes = {vk1}
    vkPolicy = "FollowCurrent"
    pinnedVkHash = vk1
    GenesisRoot = r1
    STATE_ROOT_HISTORY = 4
    MAX_TIMESTAMP_LAG = 2
    BLOCKHASH_WINDOW = 3
    SlotTimes = {1, 2}
    MaxL1Blocks = 9
    MaxL2Blocks = 4
    SEQUENCER_TIMEOUT = 6
    BOND_WITHDRAWAL_DELAY = 6
    HISTORY_WINDOW = 20
    ANCHOR_DEPTH = 1
    MAX_IDLE = 4
    MaxBond = 1
    MaxSigned = 0
SPECIFICATION HonestSpec
CHECK_DEADLOCK FALSE
INVARIANT HonestNeverSlashed
