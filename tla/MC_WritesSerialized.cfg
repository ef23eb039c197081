\* Two uploads of different sizes to one path.
CONSTANTS
    p1 = p1
    p2 = p2
    long = long
    nodir = nodir
    Blank = blank
    None = none
    StoredName <- MCStoredName
    Clients = {c1, c2}
    Paths = {p1}
    Requests <- TwoSizes
    InitFiles = {}
    MissingDirs = {}
    BUF_SIZE = 2
    MAX_FILES = 1
    Faults = {}
    MaxCrashes = 0
\* All clients run once.
CHECK_DEADLOCK FALSE
SPECIFICATION SafetySpec
INVARIANTS
    WritesSerialized
