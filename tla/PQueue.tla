------------------------------- MODULE PQueue -------------------------------
(***************************************************************************)
(* week7/pqueuep.c: the thread-safe bounded buffer.  pput and pget run     *)
(* under one mutex and share ONE condition variable for both reasons to    *)
(* wait, which is why both broadcast.  A step of a thread is what it does  *)
(* between two points where another thread can get in between: acquiring   *)
(* the mutex, testing the queue, sleeping on the condition, changing the   *)
(* queue, broadcasting and unlocking.                                      *)
(*                                                                         *)
(* cond holds the threads asleep in pthread_cond_wait; a thread that a     *)
(* broadcast (or, as POSIX permits, nothing at all) takes out of cond has  *)
(* to get the mutex back before it re-tests the loop condition.            *)
(***************************************************************************)
EXTENDS CircularQueue, FiniteSets

CONSTANTS
    Threads,
    Nobody,        \* the mutex is free
    MaxSpurious    \* bound: wakeups without a broadcast in one behaviour

ASSUME NobodyAssumption  == Nobody \notin Threads
ASSUME SpuriousAssumption == MaxSpurious \in Nat

VARIABLES
    q,          \* pq->q
    mutex,      \* pq->mutex: its holder
    cond,       \* pq->cond: the threads asleep on it
    pc,         \* where each thread is
    val,        \* the integer each thread holds: pput's argument, pget's result
    spurious    \* wakeups without a broadcast so far

pqVars == <<q, mutex, cond, pc, val, spurious>>

PutPC == {"put_lock", "put_test", "put_wait", "put_signal", "put_unlock", "put_done"}
GetPC == {"get_lock", "get_test", "get_wait", "get_signal", "get_unlock", "get_done"}

\* The points where a thread owns the mutex.
Inside == {"put_test", "put_signal", "put_unlock", "get_test", "get_signal", "get_unlock"}

Goto(t, label) == pc' = [pc EXCEPT ![t] = label]

pqueueinit ==
    /\ q = queue_init
    /\ mutex = Nobody
    /\ cond = {}
    /\ spurious = 0

Lock(t, from, to) ==
    /\ pc[t] = from
    /\ mutex = Nobody
    /\ mutex' = t
    /\ Goto(t, to)
    /\ UNCHANGED <<q, cond, val, spurious>>

\* MUTANT of CondWait: sleeps with the mutex locked.
CondWait_keeps_mutex(t, to) ==
    /\ cond' = cond \cup {t}
    /\ Goto(t, to)
    /\ UNCHANGED <<q, mutex, val, spurious>>

\* pthread_cond_wait: release the mutex and fall asleep in one step.
CondWait(t, to) ==
    /\ mutex' = Nobody
    /\ cond' = cond \cup {t}
    /\ Goto(t, to)
    /\ UNCHANGED <<q, val, spurious>>

\* The second half of pthread_cond_wait: awake, and the mutex is free again.
Reacquire(t, from, to) ==
    /\ t \notin cond
    /\ Lock(t, from, to)

\* MUTANT of Broadcast: pthread_cond_signal, which wakes one sleeper.
Broadcast_signal(t, from, to) ==
    /\ pc[t] = from
    /\ IF cond = {} THEN UNCHANGED cond ELSE \E s \in cond : cond' = cond \ {s}
    /\ Goto(t, to)
    /\ UNCHANGED <<q, mutex, val, spurious>>

Broadcast(t, from, to) ==
    /\ pc[t] = from
    /\ cond' = {}
    /\ Goto(t, to)
    /\ UNCHANGED <<q, mutex, val, spurious>>

Unlock(t, from, to) ==
    /\ pc[t] = from
    /\ mutex' = Nobody
    /\ Goto(t, to)
    /\ UNCHANGED <<q, cond, val, spurious>>

-----------------------------------------------------------------------------
PputWait(t) ==
    /\ pc[t] = "put_test"
    /\ queue_full(q)
    /\ CondWait(t, "put_wait")

PputInsert(t) ==
    /\ pc[t] = "put_test"
    /\ ~ queue_full(q)
    /\ q' = queue_put(q, val[t])
    /\ Goto(t, "put_signal")
    /\ UNCHANGED <<mutex, cond, val, spurious>>

pput(t) ==
    \/ Lock(t, "put_lock", "put_test")
    \/ PputWait(t)
    \/ Reacquire(t, "put_wait", "put_test")
    \/ PputInsert(t)
    \/ Broadcast(t, "put_signal", "put_unlock")
    \/ Unlock(t, "put_unlock", "put_done")

PgetWait(t) ==
    /\ pc[t] = "get_test"
    /\ queue_empty(q)
    /\ CondWait(t, "get_wait")

PgetRemove(t) ==
    /\ pc[t] = "get_test"
    /\ ~ queue_empty(q)
    /\ val' = [val EXCEPT ![t] = queue_get_result(q)]
    /\ q' = queue_get(q)
    /\ Goto(t, "get_signal")
    /\ UNCHANGED <<mutex, cond, spurious>>

pget(t) ==
    \/ Lock(t, "get_lock", "get_test")
    \/ PgetWait(t)
    \/ Reacquire(t, "get_wait", "get_test")
    \/ PgetRemove(t)
    \/ Broadcast(t, "get_signal", "get_unlock")
    \/ Unlock(t, "get_unlock", "get_done")

\* pthread_cond_wait may return although nobody signalled.
SpuriousWakeup(t) ==
    /\ t \in cond
    /\ spurious < MaxSpurious
    /\ spurious' = spurious + 1
    /\ cond' = cond \ {t}
    /\ UNCHANGED <<q, mutex, pc, val>>

-----------------------------------------------------------------------------
(* Any caller: a thread puts or gets whatever it likes, as often as it likes, *)
(* and may end between two calls.                                             *)

CallPput(t) ==
    /\ pc[t] = "out"
    /\ \E v \in Value : val' = [val EXCEPT ![t] = v]
    /\ Goto(t, "put_lock")
    /\ UNCHANGED <<q, mutex, cond, spurious>>

CallPget(t) ==
    /\ pc[t] = "out"
    /\ Goto(t, "get_lock")
    /\ UNCHANGED <<q, mutex, cond, val, spurious>>

Return(t) ==
    /\ pc[t] \in {"put_done", "get_done"}
    /\ Goto(t, "out")
    /\ UNCHANGED <<q, mutex, cond, val, spurious>>

End(t) ==
    /\ pc[t] = "out"
    /\ Goto(t, "exited")
    /\ UNCHANGED <<q, mutex, cond, val, spurious>>

Init ==
    /\ pqueueinit
    /\ pc = [t \in Threads |-> "out"]
    /\ val = [t \in Threads |-> Garbage]

Next ==
    \E t \in Threads :
        \/ pput(t) \/ pget(t) \/ SpuriousWakeup(t)
        \/ CallPput(t) \/ CallPget(t) \/ Return(t) \/ End(t)

Spec == Init /\ [][Next]_pqVars

-----------------------------------------------------------------------------
\* Types: in particular the indices of the circular queue stay within its array.
TypeOK ==
    /\ q \in Queue
    /\ mutex \in Threads \cup {Nobody}
    /\ cond \subseteq Threads
    /\ pc \in [Threads -> PutPC \cup GetPC \cup {"out", "exited"}]
    /\ val \in [Threads -> Value \cup {Garbage}]
    /\ spurious \in 0 .. MaxSpurious

\* pq->mutex protects the circular queue: a thread between its lock and its
\* unlock owns the mutex, so no two threads are in there together, and a thread
\* asleep on the condition variable is parked in one of the two wait loops.
MutexDiscipline ==
    /\ \A t \in Threads : pc[t] \in Inside <=> mutex = t
    /\ \A t \in cond : pc[t] \in {"put_wait", "get_wait"}

\* Someone changed the queue and is about to broadcast.
BroadcastPending == \E t \in Threads : pc[t] \in {"put_signal", "get_signal"}

\* No lost wakeup on the shared condition variable: unless a broadcast is still
\* to come, a consumer sleeps only over an empty queue and a producer only over a
\* full one.  In particular producers and consumers never sleep at the same time,
\* which is what would leave everybody asleep.
NoLostWakeup ==
    BroadcastPending \/ \A t \in cond :
        /\ pc[t] = "get_wait" => queue_empty(q)
        /\ pc[t] = "put_wait" => queue_full(q)

\* The indices of the circular queue stay consistent around the end of the array,
\* and every slot between head and tail holds an item that was put there: pget
\* never returns -1 or an uninitialised slot.
QueueConsistent ==
    /\ RingOK(q)
    /\ \A i \in 1 .. q.size : Contents(q)[i] \in Value
    /\ \A t \in Threads : pc[t] \in (PutPC \cup {"get_signal", "get_unlock", "get_done"}) => val[t] \in Value

\* The channel of BoundedFifo that the circular queue stands for.
Fifo == INSTANCE BoundedFifo WITH chan <- Contents(q), hand <- val

\* Every step of pput and pget is a step of the bounded channel pqueuep.h
\* promises (or leaves it alone): nothing is lost, duplicated or overtaken.
ImplementsFifo == Fifo!Spec
=============================================================================
