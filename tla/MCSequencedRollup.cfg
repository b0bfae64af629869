CONSTANTS
    r1 = r1
    vk1 = vk1
    StateRoots = {r1}
    VkHashes = {vk1}
    vkPolicy = "FollowCurrent"
    pinnedVkHash = vk1
    GenesisRoot = r1
    STATE_ROOT_HISTORY = 2
    MAX_TIMESTAMP_LAG = 1
    BLOCKHASH_WINDOW = 2
    SlotTimes = {1}
    MaxL1Blocks = 5
    MaxL2Blocks = 1
    SEQUENCER_TIMEOUT = 2
    BOND_WITHDRAWAL_DELAY = 2
    HISTORY_WINDOW = 20
    ANCHOR_DEPTH = 0
    MAX_IDLE = 9
    MaxBond = 1
    MaxSigned = 2
SPECIFICATION SequencedSpec
CHECK_DEADLOCK FALSE
INVARIANT SequencedTypeOK
PROPERTY BondOutlastsPromises
