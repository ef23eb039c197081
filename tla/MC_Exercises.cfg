\* Each of the small programs with each of its inputs.
CONSTANTS
    ARR_SIZE = 3
    SHARED_ROUNDS = 4
    WORK_ROUNDS = 3
    OUTPUT_SIZE = 5
    BLOCK_LINE = 8
    TimeSeeds <- MCTimeSeeds
    ArgerInputs <- MCArgerInputs
    PlainTexts <- MCPlainTexts
    BlockFiles <- MCBlockFiles
    GenrandInputs <- MCGenrandInputs
    OldNumbers <- MCOldNumbers
\* Every program ends.
CHECK_DEADLOCK FALSE
SPECIFICATION Spec
INVARIANTS
    TearingBounded
    FirstLettersCapitalized
    DecodeInvertsEncode
    BlocksHoldNumbers
    RandomNumbersAlternate
PROPERTIES
    CancelMainReturns
