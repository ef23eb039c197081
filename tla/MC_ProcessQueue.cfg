\* Three processes, two of them of the highest priority; any sequence of calls.
CONSTANTS
    procA = procA
    procB = procB
    procC = procC
    Procs <- MCProcs
    priority <- MCPriority
    Nodes = {n1, n2, n3}
    NULL = NULL
    Q = Q
    MallocFails = TRUE
SPECIFICATION Spec
INVARIANTS
    TypeOK
    ListWellFormed
    HeapIsList
    BestSoFar
PROPERTIES
    ImplementsPriorityQueue
    CallsReturn
