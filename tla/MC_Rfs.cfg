\* Two clients with any command line, over a table of one entry and a path too long for it;
\* locks and writes may fail, the server may die.
CONSTANTS
    p1 = p1
    p2 = p2
    long = long
    nodir = nodir
    Blank = blank
    None = none
    StoredName <- MCStoredName
    Clients = {c1, c2}
    Paths = {p1, p2, long, nodir}
    Requests <- AllRequests
    InitFiles = {p1, p2, long}
    MissingDirs = {nodir}
    BUF_SIZE = 2
    MAX_FILES = 1
    Faults = {"flock", "write"}
    MaxCrashes = 1
\* All clients run once.
CHECK_DEADLOCK FALSE
SPECIFICATION Spec
INVARIANTS
    TypeOK
    LockDiscipline
    WritersAuthorised
    NoCrossTalk
    OnlyEmptyUploadsHang
PROPERTIES
    ReadOnlyContentFixed
    RejectionStands
    ClientsFinish
