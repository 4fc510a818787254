SPECIFICATION Spec
CONSTANTS
    WordCount = 16
    WordsPerBlock = 4
    Uppers <- MCUppers
    MaxBlocks = 3
    None = None
CHECK_DEADLOCK FALSE
INVARIANTS
    Unbiased
    EveryWordOnce
