---------------------------- MODULE CircularQueue ----------------------------
(***************************************************************************)
(* week7/queuep.c: the unprotected circular queue of integers that the     *)
(* protected queue of pqueuep.c keeps inside its mutex.  A queue is the    *)
(* struct of queuep.c as a record; its operations are operators from a     *)
(* record to a record.  Contents is the abstraction the callers rely on:   *)
(* the items in the order in which queue_get hands them out.               *)
(***************************************************************************)
EXTENDS Integers, Sequences

CONSTANTS
    Capacity,   \* the argument of queue_init, CAPACITY (15) in the program
    Value,      \* the integers the callers put into the queue
    Garbage     \* what a slot of the malloc'ed array holds before a first write

ASSUME CapacityAssumption == Capacity \in Nat \ {0}
ASSUME GarbageAssumption  == Garbage \notin Value

Slot == 0 .. Capacity - 1

\* struct queue; capacity is the constant.
Queue == [data: [Slot -> Value \cup {Garbage}],
          head: Slot, tail: Slot, size: 0 .. Capacity]

\* queue_get's answer for an empty queue.
NoItem == -1

queue_init == [data |-> [i \in Slot |-> Garbage], head |-> 0, tail |-> 0, size |-> 0]

queue_empty(q) == q.size = 0

queue_full(q) == q.size = Capacity

\* MUTANT of queue_put: the write index does not wrap around.
queue_put_no_wrap(q, value) ==
    IF q.size < Capacity
    THEN [q EXCEPT !.data[q.tail] = value, !.tail = @ + 1, !.size = @ + 1]
    ELSE q

\* A full queue is left as it is ("else ignore or handle error").
queue_put(q, value) ==
    IF q.size < Capacity
    THEN [data |-> [q.data EXCEPT ![q.tail] = value],
          head |-> q.head,
          tail |-> (q.tail + 1) % Capacity,
          size |-> q.size + 1]
    ELSE q

\* MUTANT of queue_get_result: reads the slot after the read index has moved on.
queue_get_result_late(q) == IF q.size > 0 THEN q.data[(q.head + 1) % Capacity] ELSE NoItem

\* The value queue_get returns ...
queue_get_result(q) == IF q.size > 0 THEN q.data[q.head] ELSE NoItem

\* MUTANT of queue_get: the read index stays where it is.
queue_get_keeps_head(q) == IF q.size > 0 THEN [q EXCEPT !.size = @ - 1] ELSE q

\* ... and the queue it leaves behind.
queue_get(q) ==
    IF q.size > 0
    THEN [data |-> q.data,
          head |-> (q.head + 1) % Capacity,
          tail |-> q.tail,
          size |-> q.size - 1]
    ELSE q

-----------------------------------------------------------------------------
\* The queued items, oldest first.
Contents(q) == [i \in 1 .. q.size |-> q.data[(q.head + i - 1) % Capacity]]

\* What the three indices have to do with each other between operations: the
\* write index is size slots ahead of the read index, around the end of the array.
RingOK(q) == q.tail = (q.head + q.size) % Capacity
=============================================================================
