\* Two runs of the program over one directory; anything may fail.
CONSTANTS
    Nodes = {n1, n2, n3, n4}
    NULL = NULL
    CHUNK_SIZE = 2
    LINE_MAX = 3
    MIN_LEN = 1
    MAX_LEN = 2
    TOTAL_STRINGS = 3
    Seeds <- MCSeeds
    Texts <- MCTexts
    NoFile = nofile
    Faults = {"open", "disk", "memory", "fork", "exec", "kill"}
    MaxRuns = 2
\* The last run ends.
CHECK_DEADLOCK FALSE
SPECIFICATION Spec
INVARIANTS
    TypeOK
    NothingLost
    ChunksAreFull
    LinesStayWhole
    OutputsDecipher
    NoLogInOutputs
PROPERTIES
    RunsEnd
