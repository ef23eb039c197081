----------------------------- MODULE StringQueue -----------------------------
(***************************************************************************)
(* week6/queue.c: the linked list of strings.  A Queue and the nodes it    *)
(* leads to are one record; the functions are operators from record to     *)
(* record.  Addresses are only ever compared, so malloc may as well return *)
(* a fixed one of the free nodes.                                          *)
(***************************************************************************)
EXTENDS Integers, Sequences, FiniteSets

CONSTANTS Nodes, NULL

ASSUME NodesAssumption == NULL \notin Nodes /\ IsFiniteSet(Nodes)

Queue(Strings) ==
    [front: Nodes \cup {NULL}, rear: Nodes \cup {NULL}, size: Nat,
     data: [Nodes -> Strings \cup {NULL}], next: [Nodes -> Nodes \cup {NULL}],
     allocated: SUBSET Nodes]

initQueue ==
    [front |-> NULL, rear |-> NULL, size |-> 0,
     data |-> [n \in Nodes |-> NULL], next |-> [n \in Nodes |-> NULL], allocated |-> {}]

NewNode(q) == CHOOSE n \in Nodes \ q.allocated : TRUE

Link(q, n) ==
    IF q.rear = NULL THEN [q EXCEPT !.front = n, !.rear = n]
                     ELSE [q EXCEPT !.next[q.rear] = n, !.rear = n]

enqueue(q, str) ==
    LET n == NewNode(q)
    IN  Link([q EXCEPT !.data[n] = str, !.next[n] = NULL,
                       !.allocated = @ \cup {n}, !.size = @ + 1], n)

DequeuedString(q) == q.data[q.front]

\* MUTANT of dequeue: frees the node but stays on it.
dequeue_stays(q) ==
    IF q.front = NULL THEN q
    ELSE [q EXCEPT !.rear = IF q.next[q.front] = NULL THEN NULL ELSE @,
                   !.allocated = @ \ {q.front}, !.size = @ - 1]

dequeue(q) ==
    IF q.front = NULL THEN q
    ELSE [q EXCEPT !.front = q.next[q.front],
                   !.rear = IF q.next[q.front] = NULL THEN NULL ELSE @,
                   !.allocated = @ \ {q.front}, !.size = @ - 1]

isEmptyQueue(q) == q.size = 0

\* The strings in the queue, read as a caller of dequeue would get them.
Strings(q) ==
    LET at[k \in 1 .. q.size] == IF k = 1 THEN q.front ELSE q.next[at[k - 1]]
    IN  [k \in 1 .. q.size |-> q.data[at[k]]]
=============================================================================
