---------------------------- MODULE ProcessQueue ----------------------------
(***************************************************************************)
(* week5/queue.c: a doubly linked list of processes, pointer by pointer,   *)
(* used by one caller.  The two loops (the search of remove_process and    *)
(* destroy_queue) take a step per turn.  free leaves the fields of a node  *)
(* as they are: nothing may depend on them.                                *)
(***************************************************************************)
EXTENDS Integers, Sequences

CONSTANTS
    Procs,          \* the processes, as addresses
    priority,       \* priority[p]: p->priority
    Nodes,          \* the addresses malloc may return for a node
    NULL, Q,        \* Q: the address of the queue_t
    MallocFails     \* may malloc fail?

ASSUME ProcessQueueAssumption ==
    /\ priority \in [Procs -> Int]
    /\ NULL \notin Nodes \cup Procs \cup {Q}
    /\ MallocFails \in BOOLEAN

VARIABLES
    queue,                           \* the caller's pointer, Q or NULL
    head, tail, size,                \* the fields of queue_t
    data, prev, next,                \* the fields of the nodes
    allocated,                       \* the nodes malloc has given out
    pc,                              \* "idle", or the loop under way
    current, best_node, best_proc,   \* the variables of the loops
    result,                          \* the last call and what it returned
    order                            \* history: the nodes in the order of the list

links   == <<data, prev, next>>
fields  == <<head, tail, size>>
locals  == <<current, best_node, best_proc>>
pqVars  == <<queue, fields, links, allocated, pc, locals, result, order>>

\* The queue of PriorityQueue that the list stands for.
Abstract ==
    INSTANCE PriorityQueue WITH
        created <- queue # NULL,
        items   <- [i \in 1 .. Len(order) |-> data[order[i]]]

Returns(call, value) == result' = [call |-> call, value |-> value]

create_queue ==
    /\ pc = "idle" /\ queue = NULL
    /\ \/ /\ queue' = Q
          /\ head' = NULL /\ tail' = NULL /\ size' = 0
       \/ MallocFails /\ UNCHANGED <<queue, fields>>
    /\ Returns("create", NULL)
    /\ UNCHANGED <<links, allocated, pc, locals, order>>

\* The new node becomes the tail; in an empty queue also the head.
LinkNew(n, p) ==
    /\ data' = [data EXCEPT ![n] = p]
    /\ prev' = [prev EXCEPT ![n] = tail]
    /\ next' = [m \in Nodes |-> IF m = n THEN NULL ELSE IF m = tail THEN n ELSE next[m]]
    /\ head' = IF tail = NULL THEN n ELSE head
    /\ tail' = n

push_queue(p) ==
    /\ pc = "idle"
    /\ \/ /\ queue # NULL
          /\ \E n \in Nodes \ allocated :
                /\ allocated' = allocated \cup {n}
                /\ LinkNew(n, p)
                /\ order' = Append(order, n)
          /\ size' = size + 1
       \/ /\ queue = NULL \/ MallocFails
          /\ UNCHANGED <<fields, links, allocated, order>>
    /\ Returns("push", NULL)
    /\ UNCHANGED <<queue, pc, locals>>

\* The variables of a loop go out of scope with the return.
Leave == current' = NULL /\ best_node' = NULL /\ best_proc' = NULL /\ pc' = "idle"

\* MUTANT of FreeNode: counted down twice.
FreeNode_twice(n) ==
    /\ allocated' = allocated \ {n}
    /\ size' = size - 2
    /\ \E k \in 1 .. Len(order) : order[k] = n /\ order' = Abstract!Without(order, k)

\* The node n is freed and the queue counted down.
FreeNode(n) ==
    /\ allocated' = allocated \ {n}
    /\ size' = size - 1
    /\ \E k \in 1 .. Len(order) : order[k] = n /\ order' = Abstract!Without(order, k)

pop_queue ==
    /\ pc = "idle"
    /\ \/ /\ queue = NULL \/ head = NULL
          /\ Returns("pop", NULL)
          /\ UNCHANGED <<fields, links, allocated, order>>
       \/ /\ queue # NULL /\ head # NULL
          /\ head' = next[head]
          /\ tail' = IF next[head] = NULL THEN NULL ELSE tail
          /\ prev' = [m \in Nodes |-> IF m = next[head] THEN NULL ELSE prev[m]]
          /\ FreeNode(head)
          /\ Returns("pop", data[head])
          /\ UNCHANGED <<data, next>>
    /\ UNCHANGED <<queue, pc, locals>>

-----------------------------------------------------------------------------
RemoveStart ==
    /\ pc = "idle"
    /\ \/ /\ queue = NULL \/ head = NULL
          /\ Returns("remove", NULL)
          /\ UNCHANGED <<pc, locals>>
       \/ /\ queue # NULL /\ head # NULL
          /\ current' = head /\ best_node' = head /\ best_proc' = data[head]
          /\ pc' = "scan"
          /\ UNCHANGED result
    /\ UNCHANGED <<queue, fields, links, allocated, order>>

\* MUTANT of Better: of equals the last.
Better_or_equal(p) == priority[p] >= priority[best_proc]

Better(p) == priority[p] > priority[best_proc]

\* MUTANT of RemoveScan: does not go on to the next node.
RemoveScan_stays ==
    /\ pc = "scan" /\ current # NULL
    /\ \/ Better(data[current]) /\ best_node' = current /\ best_proc' = data[current]
       \/ ~ Better(data[current]) /\ UNCHANGED <<best_node, best_proc>>
    /\ UNCHANGED <<queue, fields, links, allocated, pc, current, result, order>>

\* One turn of the loop that looks for the highest priority.
RemoveScan ==
    /\ pc = "scan" /\ current # NULL
    /\ \/ Better(data[current]) /\ best_node' = current /\ best_proc' = data[current]
       \/ ~ Better(data[current]) /\ UNCHANGED <<best_node, best_proc>>
    /\ current' = next[current]
    /\ UNCHANGED <<queue, fields, links, allocated, pc, result, order>>

\* MUTANT of Unlink: the tail is not moved.
Unlink_keeps_tail(b) ==
    /\ next' = [m \in Nodes |-> IF m = prev[b] THEN next[b] ELSE next[m]]
    /\ prev' = [m \in Nodes |-> IF m = next[b] THEN prev[b] ELSE prev[m]]
    /\ head' = IF prev[b] = NULL THEN next[b] ELSE head
    /\ UNCHANGED tail

Unlink(b) ==
    /\ next' = [m \in Nodes |-> IF m = prev[b] THEN next[b] ELSE next[m]]
    /\ prev' = [m \in Nodes |-> IF m = next[b] THEN prev[b] ELSE prev[m]]
    /\ head' = IF prev[b] = NULL THEN next[b] ELSE head
    /\ tail' = IF next[b] = NULL THEN prev[b] ELSE tail

\* MUTANT of RemoveUnlink: the search stops before the last node.
RemoveUnlink_early ==
    /\ pc = "scan" /\ (current # NULL => next[current] = NULL)
    /\ Unlink(best_node)
    /\ FreeNode(best_node)
    /\ Returns("remove", best_proc)
    /\ Leave
    /\ UNCHANGED <<queue, data>>

RemoveUnlink ==
    /\ pc = "scan" /\ current = NULL
    /\ Unlink(best_node)
    /\ FreeNode(best_node)
    /\ Returns("remove", best_proc)
    /\ Leave
    /\ UNCHANGED <<queue, data>>

remove_process == RemoveStart \/ RemoveScan \/ RemoveUnlink

get_queue_size ==
    /\ pc = "idle"
    /\ Returns("size", IF queue = NULL THEN 0 ELSE size)
    /\ UNCHANGED <<queue, fields, links, allocated, pc, locals, order>>

-----------------------------------------------------------------------------
DestroyStart ==
    /\ pc = "idle"
    /\ \/ queue = NULL /\ Returns("destroy", NULL) /\ UNCHANGED <<pc, current>>
       \/ queue # NULL /\ current' = head /\ pc' = "destroy" /\ UNCHANGED result
    /\ UNCHANGED <<queue, fields, links, allocated, best_node, best_proc, order>>

\* MUTANT of DestroyNode: skips every other node.
DestroyNode_skips ==
    /\ pc = "destroy" /\ current # NULL
    /\ allocated' = allocated \ {current}
    /\ current' = IF next[current] = NULL THEN NULL ELSE next[next[current]]
    /\ UNCHANGED <<queue, fields, links, pc, best_node, best_proc, result, order>>

DestroyNode ==
    /\ pc = "destroy" /\ current # NULL
    /\ allocated' = allocated \ {current}
    /\ current' = next[current]
    /\ UNCHANGED <<queue, fields, links, pc, best_node, best_proc, result, order>>

\* free(queue); the caller does not use the pointer any more.
DestroyEnd ==
    /\ pc = "destroy" /\ current = NULL
    /\ queue' = NULL /\ order' = <<>>
    /\ Returns("destroy", NULL)
    /\ Leave
    /\ UNCHANGED <<fields, links, allocated>>

destroy_queue == DestroyStart \/ DestroyNode \/ DestroyEnd

Init ==
    /\ queue = NULL /\ head = NULL /\ tail = NULL /\ size = 0
    /\ data = [n \in Nodes |-> NULL]
    /\ prev = [n \in Nodes |-> NULL] /\ next = [n \in Nodes |-> NULL]
    /\ allocated = {} /\ pc = "idle"
    /\ current = NULL /\ best_node = NULL /\ best_proc = NULL
    /\ result = [call |-> "none", value |-> NULL]
    /\ order = <<>>

Next ==
    \/ create_queue \/ (\E p \in Procs : push_queue(p)) \/ pop_queue
    \/ remove_process \/ get_queue_size \/ destroy_queue

\* A loop that was entered is worked through; calls are the caller's choice.
Fairness == WF_pqVars(RemoveScan \/ RemoveUnlink \/ DestroyNode \/ DestroyEnd)

SafetySpec == Init /\ [][Next]_pqVars

Spec == SafetySpec /\ Fairness

-----------------------------------------------------------------------------
Pointers == Nodes \cup {NULL}

Elements == Procs \cup {NULL}

\* Types.
TypeOK ==
    /\ queue \in {Q, NULL} /\ head \in Pointers /\ tail \in Pointers /\ size \in Nat
    /\ data \in [Nodes -> Elements]
    /\ prev \in [Nodes -> Pointers] /\ next \in [Nodes -> Pointers]
    /\ allocated \subseteq Nodes /\ pc \in {"idle", "scan", "destroy"}
    /\ current \in Pointers /\ best_node \in Pointers /\ best_proc \in Elements
    /\ result.value \in Elements \cup Nat
    /\ order \in Seq(Nodes)

\* Whatever was pushed, popped and taken out of the middle before: from head to tail
\* and back the list has the same nodes in the same order, no node twice, size counts
\* them, and each has a process.
ListWellFormed ==
    LET n == Len(order)
    IN  /\ queue = NULL => order = <<>>
        /\ queue # NULL =>
              /\ size = n
              /\ head = IF n = 0 THEN NULL ELSE order[1]
              /\ tail = IF n = 0 THEN NULL ELSE order[n]
        /\ \A i \in 1 .. n :
              /\ next[order[i]] = IF i = n THEN NULL ELSE order[i + 1]
              /\ prev[order[i]] = IF i = 1 THEN NULL ELSE order[i - 1]
              /\ data[order[i]] \in Procs
              /\ \A j \in 1 .. n : order[i] = order[j] => i = j

\* Every node on the heap is in the list or, while destroy_queue works, in the part of it
\* that is still to be freed: no call leaks a node or frees one twice, and after
\* destroy_queue the heap is empty.
HeapIsList ==
    \E k \in 1 .. Len(order) + 1 :
        /\ allocated = {order[i] : i \in k .. Len(order)}
        /\ pc # "destroy" => k = 1
        /\ pc = "destroy" => current = IF k > Len(order) THEN NULL ELSE order[k]

\* The search of remove_process: when it has come to the k-th node, best_node is the
\* first of those before it that have the highest priority among them.
BestSoFar ==
    pc = "scan" =>
        \E k \in 1 .. Len(order) + 1, b \in 1 .. Len(order) :
            /\ current = IF k > Len(order) THEN NULL ELSE order[k]
            /\ best_node = order[b] /\ best_proc = data[order[b]]
            /\ k > 1 => b < k
            /\ k = 1 => b = 1
            /\ \A i \in 1 .. k - 1 : priority[data[order[i]]] <= priority[best_proc]
            /\ \A i \in 1 .. b - 1 : priority[data[order[i]]] < priority[best_proc]

\* The list is a queue with removal by priority as PriorityQueue defines it: what the
\* calls return is what they should, ties included, and nothing is dropped unless
\* memory runs out.
ImplementsPriorityQueue == Abstract!Spec

\* Both loops come to their end: the list has no cycle, whatever was removed before.
CallsReturn == pc # "idle" ~> pc = "idle"
=============================================================================
