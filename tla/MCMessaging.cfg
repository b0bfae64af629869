CONSTANTS
    PREMINT = 9
    STATE_ROOT_HISTORY = 2
    BLOCKHASH_WINDOW = 2
    MaxSent = 2
    MaxL1Blocks = 3
    MaxL2Blocks = 3
CONSTANT Messages <- MCMessages
SPECIFICATION Spec
CHECK_DEADLOCK FALSE
INVARIANT TypeOK
INVARIANT Solvent
INVARIANT RootMovesForward
INVARIANT OnlySentIsClaimed
PROPERTY ImplementsPeg
