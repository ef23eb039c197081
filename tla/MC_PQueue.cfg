\* Three threads that each may put and get, over a ring of two slots, so that it wraps,
\* fills and runs empty.
CONSTANTS
    Capacity = 2
    Value = {v1, v2}
    Garbage = garbage
    Threads = {t1, t2, t3}
    Nobody = nobody
    MaxSpurious = 1
\* Every caller may choose to wait for an item nobody puts.
CHECK_DEADLOCK FALSE
SPECIFICATION Spec
INVARIANTS
    TypeOK
    MutexDiscipline
    NoLostWakeup
    QueueConsistent
PROPERTIES
    ImplementsFifo
