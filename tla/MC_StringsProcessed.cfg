\* One run in which a file may fail to open.
CONSTANTS
    Nodes = {n1, n2, n3, n4}
    NULL = NULL
    CHUNK_SIZE = 2
    LINE_MAX = 3
    MIN_LEN = 1
    MAX_LEN = 2
    TOTAL_STRINGS = 3
    Seeds <- MCSeeds
    Texts <- MCTexts
    NoFile = nofile
    Faults = {"open"}
    MaxRuns = 1
CHECK_DEADLOCK FALSE
SPECIFICATION Spec
INVARIANTS
    AllStringsProcessed
