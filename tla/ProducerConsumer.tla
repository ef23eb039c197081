--------------------------- MODULE ProducerConsumer ---------------------------
(***************************************************************************)
(* week7/pqueuepmain.c: producers and consumers around the protected queue *)
(* of PQueue.  Two counters under gCountLock decide when a thread stops.   *)
(* Nothing blocks inside a gCountLock section, so each section is one      *)
(* step: a producer CLAIMS an item number before it puts it, a consumer    *)
(* only LOOKS at its counter before pget and counts after it.              *)
(***************************************************************************)
EXTENDS PQueue

CONSTANTS
    Producers, Consumers,
    Total       \* items to produce and to consume: 30 in the program

ASSUME TotalAssumption == Total \in Nat /\ Value = 1 .. Total
ASSUME ThreadsAssumption ==
    /\ Threads = Producers \cup Consumers
    /\ Producers \cap Consumers = {} /\ Producers # {} /\ Consumers # {}

VARIABLES
    totalProduced, totalConsumed,
    consumed    \* how often the consumers have printed each item

mainVars == <<pqVars, totalProduced, totalConsumed, consumed>>

counters == <<totalProduced, totalConsumed, consumed>>

\* main: the queue is created before the threads are.
MainInit ==
    /\ Init
    /\ totalProduced = 0
    /\ totalConsumed = 0
    /\ consumed = [i \in Value |-> 0]

ProducerClaim(p) ==
    /\ pc[p] = "out"
    /\ totalProduced < Total
    /\ totalProduced' = totalProduced + 1
    /\ val' = [val EXCEPT ![p] = totalProduced']
    /\ Goto(p, "put_lock")
    /\ UNCHANGED <<q, mutex, cond, spurious, totalConsumed, consumed>>

ProducerExit(p) ==
    /\ totalProduced >= Total
    /\ End(p)
    /\ UNCHANGED counters

\* MUTANT of ProducerLoop: puts the same item again.
ProducerLoop_again(p) ==
    /\ pc[p] = "put_done"
    /\ Goto(p, "put_lock")
    /\ UNCHANGED <<q, mutex, cond, val, spurious, counters>>

ProducerLoop(p) ==
    /\ pc[p] = "put_done"
    /\ Goto(p, "out")
    /\ UNCHANGED <<q, mutex, cond, val, spurious, counters>>

producer(p) ==
    \/ ProducerClaim(p)
    \/ ProducerExit(p)
    \/ pput(p) /\ UNCHANGED counters
    \/ ProducerLoop(p)

ConsumerCheck(c) ==
    /\ pc[c] = "out"
    /\ totalConsumed < Total
    /\ Goto(c, "get_lock")
    /\ UNCHANGED <<q, mutex, cond, val, spurious, counters>>

ConsumerExit(c) ==
    /\ totalConsumed >= Total
    /\ End(c)
    /\ UNCHANGED counters

\* Count the item, print it, sleep and go round again.
ConsumerCount(c) ==
    /\ pc[c] = "get_done"
    /\ totalConsumed' = totalConsumed + 1
    /\ consumed' = [consumed EXCEPT ![val[c]] = @ + 1]
    /\ Goto(c, "out")
    /\ UNCHANGED <<q, mutex, cond, val, spurious, totalProduced>>

consumer(c) ==
    \/ ConsumerCheck(c)
    \/ ConsumerExit(c)
    \/ pget(c) /\ UNCHANGED counters
    \/ ConsumerCount(c)

MainNext ==
    \/ \E p \in Producers : producer(p)
    \/ \E c \in Consumers : consumer(c)
    \/ \E t \in Threads : SpuriousWakeup(t) /\ UNCHANGED counters

\* Every thread keeps running.  With a bounded number of spurious wakeups every
\* loop of the program is bounded, so no thread can be overtaken forever and weak
\* fairness is all that is asked of the scheduler and of the mutexes.
Fairness ==
    /\ \A p \in Producers : WF_mainVars(producer(p))
    /\ \A c \in Consumers : WF_mainVars(consumer(c))

MainSpec == MainInit /\ [][MainNext]_mainVars /\ Fairness

-----------------------------------------------------------------------------
\* The places an item number can be, and how often it is there.
Places(i) ==
    Cardinality({p \in Producers : pc[p] \in {"put_lock", "put_test", "put_wait"} /\ val[p] = i})
    + Cardinality({k \in 1 .. q.size : Contents(q)[k] = i})
    + Cardinality({c \in Consumers : pc[c] \in {"get_signal", "get_unlock", "get_done"} /\ val[c] = i})
    + consumed[i]

\* The two counters, kept under another lock than the queue, never disagree with
\* it: every number claimed so far is in exactly one place (in a producer's hand,
\* in the queue, in a consumer's hand, or printed), a number not claimed yet in
\* none, totalConsumed is the number of items printed, and neither runs past Total.
ItemAccounting ==
    /\ totalProduced <= Total
    /\ \A i \in Value : Places(i) = IF i <= totalProduced THEN 1 ELSE 0
    /\ totalConsumed = Cardinality({i \in Value : consumed[i] = 1})

\* If no thread can run any more, the work is done: all producers are gone and
\* every item has been consumed.  Only consumers are ever left behind asleep.
OnlyConsumersStrand ==
    (\A t \in Threads : pc[t] = "exited" \/ t \in cond)
        => /\ \A p \in Producers : pc[p] = "exited"
           /\ totalConsumed = Total

\* The producers stop after Total items, and all of these are consumed.
WorkGetsDone ==
    <>[](totalConsumed = Total /\ \A p \in Producers : pc[p] = "exited")

\* "Stop consuming after 30 total items": every consumer leaves its loop, so that
\* main's last two joins return.
ConsumersStop == <>(\A c \in Consumers : pc[c] = "exited")
=============================================================================
