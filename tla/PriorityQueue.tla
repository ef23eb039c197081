---------------------------- MODULE PriorityQueue ----------------------------
(***************************************************************************)
(* What week5/queue.h promises: a queue of processes in the order of their *)
(* arrival, from which the oldest, or the oldest of those with the highest *)
(* priority, can be taken.                                                 *)
(***************************************************************************)
EXTENDS Integers, Sequences

CONSTANTS Procs, priority, NULL, MallocFails

VARIABLES
    created,   \* is there a queue?
    items,     \* the processes in it, the oldest first
    result     \* the last call and what it returned

vars == <<created, items, result>>

Returns(call, value) == result' = [call |-> call, value |-> value]

Without(s, k) == [i \in 1 .. Len(s) - 1 |-> IF i < k THEN s[i] ELSE s[i + 1]]

Init == created = FALSE /\ items = <<>> /\ result = [call |-> "none", value |-> NULL]

Create ==
    /\ ~ created
    /\ created' \in (IF MallocFails THEN {TRUE, FALSE} ELSE {TRUE})
    /\ Returns("create", NULL)
    /\ UNCHANGED items

\* A process is dropped only for want of a queue or of memory; the caller is not told.
Push(p) ==
    /\ \/ created /\ items' = Append(items, p)
       \/ (~ created \/ MallocFails) /\ UNCHANGED items
    /\ Returns("push", NULL)
    /\ UNCHANGED created

Pop ==
    /\ \/ items = <<>> /\ Returns("pop", NULL) /\ UNCHANGED items
       \/ items # <<>> /\ Returns("pop", items[1]) /\ items' = Without(items, 1)
    /\ UNCHANGED created

OldestHighest(k) ==
    /\ \A i \in 1 .. k - 1 : priority[items[i]] < priority[items[k]]
    /\ \A i \in 1 .. Len(items) : priority[items[i]] <= priority[items[k]]

RemoveHighest ==
    /\ \/ items = <<>> /\ Returns("remove", NULL) /\ UNCHANGED items
       \/ \E k \in 1 .. Len(items) :
             OldestHighest(k) /\ Returns("remove", items[k]) /\ items' = Without(items, k)
    /\ UNCHANGED created

Size == Returns("size", Len(items)) /\ UNCHANGED <<created, items>>

Destroy == created' = FALSE /\ items' = <<>> /\ Returns("destroy", NULL)

Next == Create \/ (\E p \in Procs : Push(p)) \/ Pop \/ RemoveHighest \/ Size \/ Destroy

Spec == Init /\ [][Next]_vars
=============================================================================
