----------------------------- MODULE ThreadDemos -----------------------------
(***************************************************************************)
(* week7: thread_shared.c, thread_cancel.c and multithread.c.  Time is not *)
(* modelled: a sleep may be over at any moment.                            *)
(***************************************************************************)
EXTENDS Integers, Sequences

CONSTANTS
    ARR_SIZE,       \* 10
    SHARED_ROUNDS,  \* 5: the rounds of writer and reader
    WORK_ROUNDS     \* 10 and 5: the rounds of do_work and of worker

ASSUME DemosAssumption == {ARR_SIZE, SHARED_ROUNDS, WORK_ROUNDS} \subseteq Nat \ {0}

VARIABLES
    shared_array,   \* each slot as the round in which it was written, 0 at first
    w, r,           \* the round and the slot at which writer and reader are
    seen,           \* what the reader has read in its round
    atStart,        \* history: the array when the reader's round began, at its first read
    count, ended,   \* of each worker: rounds done, how it ended
    cancelled,      \* the threads pthread_cancel was called for
    main            \* where main is

Threads == {"X", "Y"}

sharedVars == <<shared_array, w, r, seen, atStart>>
workVars   == <<count, ended, cancelled, main>>

Slots == 1 .. ARR_SIZE

DemosInit ==
    /\ shared_array = [i \in Slots |-> 0]
    /\ w = [round |-> 1, i |-> 1] /\ r = [round |-> 1, i |-> 1]
    /\ seen = <<>> /\ atStart = shared_array
    /\ count = [t \in Threads |-> 0] /\ ended = [t \in Threads |-> "no"]
    /\ cancelled = {} /\ main = "sleep"

\* The next slot of this round, or the first one of the next.
Step(p) == IF p.i < ARR_SIZE THEN [p EXCEPT !.i = @ + 1] ELSE [round |-> p.round + 1, i |-> 1]

\* The value is random in the code; here it names the round.
writer_thread ==
    /\ w.round <= SHARED_ROUNDS
    /\ shared_array' = [shared_array EXCEPT ![w.i] = w.round]
    /\ w' = Step(w)
    /\ UNCHANGED <<r, seen, atStart>>

\* MUTANT of Load: the slots are counted from one.
Load_off_by_one(i) == shared_array[IF i < ARR_SIZE THEN i + 1 ELSE 1]

\* An int is read whole, and the reads stay in the order of the program: the threads
\* call printf and rand between them.
Load(i) == shared_array[i]

reader_thread ==
    /\ r.round <= SHARED_ROUNDS
    /\ seen' = IF r.i = 1 THEN <<Load(1)>> ELSE Append(seen, Load(r.i))
    /\ atStart' = IF r.i = 1 THEN shared_array ELSE atStart
    /\ r' = Step(r)
    /\ UNCHANGED <<shared_array, w>>

\* thread_shared.c: main only joins.
SharedNext == (writer_thread \/ reader_thread) /\ UNCHANGED workVars

-----------------------------------------------------------------------------
Running(t) == ended[t] = "no" /\ main # "done"

\* MUTANT of Work: an endless loop, left to be ended by a cancellation.
Work_endless(t) ==
    /\ Running(t)
    /\ count' = [count EXCEPT ![t] = IF @ < WORK_ROUNDS THEN @ + 1 ELSE 0]
    /\ UNCHANGED <<ended, cancelled, main>>

\* One round, with a printf and a sleep, or the end; after it only main goes on.
Work(t) ==
    /\ Running(t)
    /\ \/ /\ count[t] < WORK_ROUNDS
          /\ count' = [count EXCEPT ![t] = @ + 1]
          /\ UNCHANGED ended
       \/ /\ count[t] = WORK_ROUNDS
          /\ ended' = [ended EXCEPT ![t] = "normally"]
          /\ UNCHANGED count
    /\ UNCHANGED <<cancelled, main>>

\* sleep is a cancellation point, printf may be one.
CancellationPoint(t) ==
    /\ Running(t) /\ t \in cancelled
    /\ ended' = [ended EXCEPT ![t] = "cancelled"]
    /\ UNCHANGED <<count, cancelled, main>>

worker(t) == Work(t)

do_work(t) == Work(t) \/ CancellationPoint(t)

MainCancel ==
    /\ main = "sleep"
    /\ cancelled' = {"Y"}
    /\ main' = "join X"
    /\ UNCHANGED <<count, ended>>

Join(t, from, to) ==
    /\ main = from /\ ended[t] # "no"
    /\ main' = to
    /\ UNCHANGED <<count, ended, cancelled>>

CancelMain == MainCancel \/ Join("X", "join X", "join Y") \/ Join("Y", "join Y", "done")

\* thread_cancel.c
CancelNext == ((\E t \in Threads : do_work(t)) \/ CancelMain) /\ UNCHANGED sharedVars

\* multithread.c: main sleeps a second and returns, which ends the process.
MultithreadMain == main = "sleep" /\ main' = "done" /\ UNCHANGED <<count, ended, cancelled>>

MultithreadNext == ((\E t \in Threads : worker(t)) \/ MultithreadMain) /\ UNCHANGED sharedVars
=============================================================================
