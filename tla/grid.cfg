CONSTANTS
    MaxRanks = 8
    NDims = 3
    MaxModeLen = 3
    MaxNnz = 9
SPECIFICATION Spec
INVARIANTS
    TypeOK
    GridCoversAllRanks
    BlockingBalanced
    OwnerIsBlock
