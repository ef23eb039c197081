------------------------ MODULE ProducerConsumerProofs ------------------------
(***************************************************************************)
(* Producers and consumers of week7 for any number of them, of items and   *)
(* of slots: the program is one of the callers PQueueProofs is about, its  *)
(* two counters agree with what is in the queue and in the threads' hands, *)
(* and it can come to rest only when all items are consumed.               *)
(***************************************************************************)
EXTENDS ProducerConsumer, PQueueProofs, FiniteSetTheorems

-----------------------------------------------------------------------------
(* The program as a caller of the protected queue.                         *)

CounterTypes ==
    /\ totalProduced \in 0 .. Total
    /\ totalConsumed \in Nat
    /\ consumed \in [Value -> Nat]

\* The steps of a producer, as steps of a caller of pput.
LEMMA ProducerIsCaller ==
    ASSUME CounterTypes, NEW p \in Producers, producer(p)
    PROVE  p \in Threads /\ (pput(p) \/ CallPput(p) \/ Return(p) \/ End(p))
<1>1. p \in Threads
  BY ThreadsAssumption
<1>2. CASE ProducerClaim(p)
  <2>1. totalProduced' \in Value /\ val' = [val EXCEPT ![p] = totalProduced']
    BY <1>2, TotalAssumption DEF ProducerClaim, CounterTypes
  <2> QED BY <1>1, <1>2, <2>1 DEF ProducerClaim, CallPput
<1>3. CASE ProducerLoop(p)
  BY <1>1, <1>3 DEF ProducerLoop, Return
<1> QED BY <1>1, <1>2, <1>3 DEF producer, ProducerExit

\* The steps of a consumer, as steps of a caller of pget.
LEMMA ConsumerIsCaller ==
    ASSUME NEW c \in Consumers, consumer(c)
    PROVE  c \in Threads /\ (pget(c) \/ CallPget(c) \/ Return(c) \/ End(c))
<1>1. c \in Threads
  BY ThreadsAssumption
<1>2. CASE ConsumerCheck(c)
  BY <1>1, <1>2 DEF ConsumerCheck, CallPget
<1>3. CASE ConsumerCount(c)
  BY <1>1, <1>3 DEF ConsumerCount, Return
<1> QED BY <1>1, <1>2, <1>3 DEF consumer, ConsumerExit

\* Every step of the program is a step PQueue allows its threads.
LEMMA MainStep ==
    ASSUME CounterTypes, [MainNext]_mainVars
    PROVE  [Next]_pqVars
<1>1. CASE MainNext
  BY <1>1, ProducerIsCaller, ConsumerIsCaller, Zenon DEF MainNext, Next
<1>2. CASE UNCHANGED mainVars
  BY <1>2 DEF mainVars
<1> QED BY <1>1, <1>2

\* The counters stay counters.
LEMMA CountersKept ==
    ASSUME CounterTypes, [MainNext]_mainVars
    PROVE  CounterTypes'
<1> USE DEF CounterTypes, counters
<1>1. ASSUME NEW p \in Producers, producer(p) PROVE CounterTypes'
  BY <1>1, TotalAssumption DEF producer, ProducerClaim, ProducerExit, ProducerLoop
<1>2. ASSUME NEW c \in Consumers, consumer(c) PROVE CounterTypes'
  BY <1>2 DEF consumer, ConsumerCheck, ConsumerExit, ConsumerCount
<1>3. ASSUME NEW t \in Threads, SpuriousWakeup(t) /\ UNCHANGED counters PROVE CounterTypes'
  BY <1>3
<1>4. CASE UNCHANGED mainVars
  BY <1>4 DEF mainVars
<1> QED BY <1>1, <1>2, <1>3, <1>4 DEF MainNext

\* The program starts from a new queue with its counters at zero.
LEMMA CountersInit == MainInit => Init /\ CounterTypes
BY TotalAssumption DEF MainInit, CounterTypes

\* The program as it is scheduled is a use of the protected queue, so that everything
\* PQueueProofs shows of the queue holds of it here.
THEOREM UsesPQueue == MainSpec => Spec
BY CountersInit, CountersKept, MainStep, PTL DEF MainSpec, Spec

\* In particular what goes through the ring of the program is a bounded channel.
THEOREM ItemsInOrder == MainSpec => ImplementsFifo
BY UsesPQueue, Refinement, PTL

-----------------------------------------------------------------------------
(* Where the items are.                                                    *)

InHand == {"put_lock", "put_test", "put_wait"}
GotIt  == {"get_signal", "get_unlock", "get_done"}

\* The producers about to put item i, the places of the queue it is in, and the
\* consumers that have taken it out and not counted it yet.
Carrying(i) == {p \in Producers : pc[p] \in InHand /\ val[p] = i}
Queued(i)   == {k \in 1 .. q.size : Contents(q)[k] = i}
Taken(i)    == {c \in Consumers : pc[c] \in GotIt /\ val[c] = i}

\* Producers put, consumers get, and each of them stops for a reason.
Roles ==
    /\ \A p \in Producers : pc[p] \in PutPC \cup {"out", "exited"}
    /\ \A c \in Consumers : pc[c] \in GetPC \cup {"out", "exited"}
    /\ \A p \in Producers : pc[p] = "exited" => totalProduced >= Total
    /\ \A c \in Consumers : pc[c] = "exited" => totalConsumed >= Total

\* Without these a cardinality would not be a number.
PlacesFinite ==
    \A i \in Value : IsFiniteSet(Carrying(i)) /\ IsFiniteSet(Queued(i)) /\ IsFiniteSet(Taken(i))

\* The inductive invariant of the program.
MainInv == IInv /\ CounterTypes /\ Roles /\ PlacesFinite /\ ItemAccounting

\* Places counts these sets.
LEMMA PlacesAre ==
    ASSUME NEW i
    PROVE  Places(i) = Cardinality(Carrying(i)) + Cardinality(Queued(i))
                       + Cardinality(Taken(i)) + consumed[i]
BY DEF Places, Carrying, Queued, Taken, InHand, GotIt

\* A step keeps the accounts if for every item the sum of the four numbers is kept and
\* nothing is printed.
LEMMA AccountsKept ==
    ASSUME MainInv, UNCHANGED counters,
           \A i \in Value :
              /\ IsFiniteSet(Carrying(i)') /\ IsFiniteSet(Queued(i)') /\ IsFiniteSet(Taken(i)')
              /\ Cardinality(Carrying(i)') + Cardinality(Queued(i)') + Cardinality(Taken(i)')
                 = Cardinality(Carrying(i)) + Cardinality(Queued(i)) + Cardinality(Taken(i))
    PROVE  PlacesFinite' /\ ItemAccounting'
<1>1. PlacesFinite'
  BY DEF PlacesFinite
<1>2. totalProduced' = totalProduced /\ totalConsumed' = totalConsumed /\ consumed' = consumed
  BY DEF counters
<1>3. ASSUME NEW i \in Value PROVE Places(i)' = Places(i)
  <2>1. Places(i)' = Cardinality(Carrying(i)') + Cardinality(Queued(i)')
                     + Cardinality(Taken(i)') + consumed'[i]
    BY DEF Places, Carrying, Queued, Taken, InHand, GotIt
  <2>2. Places(i) = Cardinality(Carrying(i)) + Cardinality(Queued(i))
                    + Cardinality(Taken(i)) + consumed[i]
    BY PlacesAre
  <2> QED BY <1>2, <2>1, <2>2, Zenon
<1>4. ItemAccounting'
  BY <1>2, <1>3 DEF MainInv, ItemAccounting
<1> QED BY <1>1, <1>4

\* In the beginning there are no items.
LEMMA MainInvInit == MainInit => MainInv
<1> SUFFICES ASSUME MainInit PROVE MainInv
  OBVIOUS
<1>1. IInv /\ CounterTypes
  BY CountersInit, InitIInv
<1>2. /\ pc = [t \in Threads |-> "out"] /\ q.size = 0 /\ totalProduced = 0 /\ totalConsumed = 0
      /\ consumed = [i \in Value |-> 0]
  BY DEF MainInit, Init, pqueueinit, queue_init
<1>3. Roles
  BY <1>2, ThreadsAssumption DEF Roles
<1>4. ASSUME NEW i \in Value PROVE Carrying(i) = {} /\ Queued(i) = {} /\ Taken(i) = {}
  BY <1>2, ThreadsAssumption DEF Carrying, Queued, Taken, InHand, GotIt
<1>5. PlacesFinite
  BY <1>4, FS_EmptySet DEF PlacesFinite
<1>6. ItemAccounting
  <2>1. ASSUME NEW i \in Value PROVE Places(i) = 0 /\ ~ (i <= totalProduced)
    <3>1. Cardinality(Carrying(i)) = 0 /\ Cardinality(Queued(i)) = 0 /\ Cardinality(Taken(i)) = 0
      BY <1>4, FS_EmptySet
    <3> QED BY <1>2, <3>1, PlacesAre, TotalAssumption
  <2>2. {i \in Value : consumed[i] = 1} = {}
    BY <1>2
  <2>3. Cardinality({i \in Value : consumed[i] = 1}) = 0
    BY <2>2, FS_EmptySet
  <2> QED BY <1>2, <2>1, <2>3, TotalAssumption DEF ItemAccounting
<1> QED BY <1>1, <1>3, <1>5, <1>6 DEF MainInv

\* Producers stay producers and consumers consumers, and a thread that ended did so
\* because its counter, which never goes back, had reached Total.
LEMMA RolesKept ==
    ASSUME MainInv, [MainNext]_mainVars
    PROVE  Roles'
<1> USE ThreadsAssumption, TotalAssumption
    DEF MainInv, IInv, TypeOK, CounterTypes, Roles, Goto, counters
<1>1. ASSUME NEW p \in Producers, producer(p) PROVE Roles'
  <2>1. CASE ProducerClaim(p)
    BY <2>1 DEF ProducerClaim, PutPC
  <2>2. CASE ProducerExit(p)
    BY <2>2 DEF ProducerExit, End
  <2>3. CASE pput(p) /\ UNCHANGED counters
    BY <2>3 DEF pput, PutPC, Lock, PputWait, CondWait, Reacquire, PputInsert, Broadcast, Unlock
  <2>4. CASE ProducerLoop(p)
    BY <2>4 DEF ProducerLoop
  <2> QED BY <1>1, <2>1, <2>2, <2>3, <2>4 DEF producer
<1>2. ASSUME NEW c \in Consumers, consumer(c) PROVE Roles'
  <2>1. CASE ConsumerCheck(c)
    BY <2>1 DEF ConsumerCheck, GetPC
  <2>2. CASE ConsumerExit(c)
    BY <2>2 DEF ConsumerExit, End
  <2>3. CASE pget(c) /\ UNCHANGED counters
    BY <2>3 DEF pget, GetPC, Lock, PgetWait, CondWait, Reacquire, PgetRemove, Broadcast, Unlock
  <2>4. CASE ConsumerCount(c)
    BY <2>4 DEF ConsumerCount
  <2> QED BY <1>2, <2>1, <2>2, <2>3, <2>4 DEF consumer
<1>3. ASSUME NEW t \in Threads, SpuriousWakeup(t) /\ UNCHANGED counters PROVE Roles'
  BY <1>3 DEF SpuriousWakeup
<1>4. CASE UNCHANGED mainVars
  BY <1>4 DEF mainVars, pqVars
<1> QED BY <1>1, <1>2, <1>3, <1>4 DEF MainNext

\* A step that changes neither the queue nor what the threads hold, and takes no thread
\* past the point where it puts, gets or counts, moves no item.
Quiet ==
    /\ UNCHANGED <<q, val, counters>>
    /\ \A p \in Producers : pc'[p] \in InHand <=> pc[p] \in InHand
    /\ \A c \in Consumers : pc'[c] \in GotIt <=> pc[c] \in GotIt

\* Such a step keeps the accounts.
LEMMA QuietKept ==
    ASSUME MainInv, Quiet
    PROVE  PlacesFinite' /\ ItemAccounting'
<1>1. ASSUME NEW i \in Value
      PROVE  Carrying(i)' = Carrying(i) /\ Queued(i)' = Queued(i) /\ Taken(i)' = Taken(i)
  BY DEF Quiet, Carrying, Queued, Taken
<1>2. ASSUME NEW i \in Value
      PROVE  /\ IsFiniteSet(Carrying(i)') /\ IsFiniteSet(Queued(i)') /\ IsFiniteSet(Taken(i)')
             /\ Cardinality(Carrying(i)') + Cardinality(Queued(i)') + Cardinality(Taken(i)')
                = Cardinality(Carrying(i)) + Cardinality(Queued(i)) + Cardinality(Taken(i))
  BY <1>1 DEF MainInv, PlacesFinite
<1>3. UNCHANGED counters
  BY DEF Quiet
<1> QED BY <1>2, <1>3, AccountsKept, Zenon

\* All steps are of this kind but a claim, an insertion, a removal and a count.
LEMMA QuietSteps ==
    ASSUME MainInv, [MainNext]_mainVars
    PROVE  \/ Quiet
           \/ \E p \in Producers : ProducerClaim(p) \/ (PputInsert(p) /\ UNCHANGED counters)
           \/ \E c \in Consumers : (PgetRemove(c) /\ UNCHANGED counters) \/ ConsumerCount(c)
<1> USE ThreadsAssumption
    DEF MainInv, IInv, TypeOK, Roles, PutPC, GetPC, Goto, counters, Quiet, InHand, GotIt
<1>1. ASSUME NEW p \in Producers, producer(p), ~ ProducerClaim(p), ~ (PputInsert(p) /\ UNCHANGED counters)
      PROVE  Quiet
  <2>1. CASE ProducerExit(p)
    BY <2>1 DEF ProducerExit, End
  <2>2. CASE pput(p) /\ UNCHANGED counters /\ ~ PputInsert(p)
    BY <2>2 DEF pput, Lock, PputWait, CondWait, Reacquire, Broadcast, Unlock
  <2>3. CASE ProducerLoop(p)
    BY <2>3 DEF ProducerLoop
  <2> QED BY <1>1, <2>1, <2>2, <2>3 DEF producer
<1>2. ASSUME NEW c \in Consumers, consumer(c), ~ ConsumerCount(c), ~ (PgetRemove(c) /\ UNCHANGED counters)
      PROVE  Quiet
  <2>1. CASE ConsumerCheck(c)
    BY <2>1 DEF ConsumerCheck
  <2>2. CASE ConsumerExit(c)
    BY <2>2 DEF ConsumerExit, End
  <2>3. CASE pget(c) /\ UNCHANGED counters /\ ~ PgetRemove(c)
    BY <2>3 DEF pget, Lock, PgetWait, CondWait, Reacquire, Broadcast, Unlock
  <2> QED BY <1>2, <2>1, <2>2, <2>3 DEF consumer
<1>3. ASSUME NEW t \in Threads, SpuriousWakeup(t) /\ UNCHANGED counters PROVE Quiet
  BY <1>3 DEF SpuriousWakeup
<1>4. CASE UNCHANGED mainVars
  BY <1>4 DEF mainVars, pqVars
<1> QED BY <1>1, <1>2, <1>3, <1>4 DEF MainNext

\* One element more.
LEMMA OneMore ==
    ASSUME NEW S, IsFiniteSet(S), NEW x, x \notin S
    PROVE  /\ IsFiniteSet(S \cup {x})
           /\ Cardinality(S) \in Nat
           /\ Cardinality(S \cup {x}) = Cardinality(S) + 1
BY FS_AddElement, FS_CardinalityType

\* And one element less.
LEMMA OneLess ==
    ASSUME NEW S, IsFiniteSet(S), NEW x \in S
    PROVE  /\ IsFiniteSet(S \ {x})
           /\ Cardinality(S) \in Nat
           /\ Cardinality(S \ {x}) = Cardinality(S) - 1
BY FS_RemoveElement, FS_CardinalityType

\* The numbers of an item's places are numbers.
LEMMA PlaceTypes ==
    ASSUME MainInv, NEW i \in Value
    PROVE  /\ Cardinality(Carrying(i)) \in Nat /\ Cardinality(Queued(i)) \in Nat
           /\ Cardinality(Taken(i)) \in Nat /\ consumed[i] \in Nat
BY FS_CardinalityType DEF MainInv, PlacesFinite, CounterTypes

\* A claimed item goes from no place into the hand of the producer that claimed it.
LEMMA ClaimKept ==
    ASSUME MainInv, NEW p \in Producers, ProducerClaim(p)
    PROVE  PlacesFinite' /\ ItemAccounting'
<1> DEFINE v == totalProduced + 1
<1>1. /\ v \in Value /\ totalProduced' = v /\ totalConsumed' = totalConsumed /\ consumed' = consumed
      /\ pc[p] = "out" /\ q' = q
      /\ totalProduced \in Nat /\ Total \in Nat /\ Value = 1 .. Total
  BY TotalAssumption DEF MainInv, CounterTypes, ProducerClaim
<1>2. /\ \A t \in Threads : t # p => pc'[t] = pc[t] /\ val'[t] = val[t]
      /\ pc'[p] \in InHand /\ val'[p] = v
  BY ThreadsAssumption DEF ProducerClaim, MainInv, IInv, TypeOK, Goto, InHand
<1>3. p \notin Consumers /\ Producers \subseteq Threads /\ Consumers \subseteq Threads
  BY ThreadsAssumption
<1> HIDE DEF v
<1>4. ASSUME NEW i \in Value
      PROVE  /\ Queued(i)' = Queued(i) /\ Taken(i)' = Taken(i)
             /\ p \notin Carrying(i)
             /\ Carrying(i)' = IF i = v THEN Carrying(i) \cup {p} ELSE Carrying(i)
  <2>1. Queued(i)' = Queued(i)
    BY <1>1 DEF Queued
  <2>2. Taken(i)' = Taken(i)
    BY <1>2, <1>3 DEF Taken
  <2>3. p \notin Carrying(i)
    BY <1>1 DEF Carrying, InHand
  <2>4. Carrying(i)' = IF i = v THEN Carrying(i) \cup {p} ELSE Carrying(i)
    BY <1>1, <1>2, <1>3 DEF Carrying, InHand
  <2> QED BY <2>1, <2>2, <2>3, <2>4
<1>5. ASSUME NEW i \in Value
      PROVE  /\ IsFiniteSet(Carrying(i)') /\ IsFiniteSet(Queued(i)') /\ IsFiniteSet(Taken(i)')
             /\ Cardinality(Carrying(i)')
                = IF i = v THEN Cardinality(Carrying(i)) + 1 ELSE Cardinality(Carrying(i))
  BY <1>4, OneMore DEF MainInv, PlacesFinite
<1>6. ASSUME NEW i \in Value
      PROVE  Places(i)' = IF i <= totalProduced' THEN 1 ELSE 0
  <2>1. Places(i)' = Cardinality(Carrying(i)') + Cardinality(Queued(i))
                     + Cardinality(Taken(i)) + consumed[i]
    BY <1>1, <1>4 DEF Places, Carrying, Queued, Taken, InHand, GotIt
  <2>2. Places(i) = Cardinality(Carrying(i)) + Cardinality(Queued(i))
                    + Cardinality(Taken(i)) + consumed[i]
    BY PlacesAre
  <2>3. Places(i)' = IF i = v THEN Places(i) + 1 ELSE Places(i)
    BY <1>5, <2>1, <2>2, PlaceTypes
  <2>4. Places(i) = IF i <= totalProduced THEN 1 ELSE 0
    BY DEF MainInv, ItemAccounting
  <2> QED BY <1>1, <2>3, <2>4 DEF v
<1>7. PlacesFinite'
  BY <1>5 DEF PlacesFinite
<1>8. ItemAccounting'
  BY <1>1, <1>6 DEF ItemAccounting, MainInv
<1> QED BY <1>7, <1>8

\* queue_put moves the item from the producer's hand to the end of the queue.
LEMMA InsertKept ==
    ASSUME MainInv, NEW p \in Producers, PputInsert(p), UNCHANGED counters
    PROVE  PlacesFinite' /\ ItemAccounting'
<1> DEFINE v == val[p]
<1>1. /\ q \in Queue /\ RingOK(q) /\ v \in Value /\ ~ queue_full(q) /\ q' = queue_put(q, v)
      /\ pc[p] = "put_test" /\ val' = val /\ q.size \in Nat
      /\ p \in Threads /\ p \notin Consumers /\ Producers \subseteq Threads /\ Consumers \subseteq Threads
  BY ThreadsAssumption DEF PputInsert, MainInv, IInv, TypeOK, QueueConsistent, PutPC, Queue
<1>2. /\ \A t \in Threads : t # p => pc'[t] = pc[t]
      /\ pc'[p] \notin InHand
  BY <1>1 DEF PputInsert, MainInv, IInv, TypeOK, Goto, InHand
<1>3. /\ q' \in Queue /\ Contents(q') = Append(Contents(q), v)
      /\ Len(Contents(q')) = q'.size
      /\ Contents(q) \in Seq(Value \cup {Garbage}) /\ Len(Contents(q)) = q.size
  BY <1>1, PutAppends, ContentsIsSeq
<1>4. /\ q'.size = q.size + 1
      /\ \A k \in 1 .. q.size : Contents(q')[k] = Contents(q)[k]
      /\ Contents(q')[q.size + 1] = v
  BY <1>1, <1>3, AppendProperties
<1>5. ASSUME NEW i \in Value
      PROVE  /\ Taken(i)' = Taken(i)
             /\ Carrying(i)' = Carrying(i) \ {p}
             /\ p \in Carrying(i) <=> i = v
             /\ Queued(i)' = IF i = v THEN Queued(i) \cup {q.size + 1} ELSE Queued(i)
             /\ q.size + 1 \notin Queued(i)
  <2>1. Taken(i)' = Taken(i)
    BY <1>1, <1>2 DEF Taken
  <2>2. Carrying(i)' = Carrying(i) \ {p}
    BY <1>1, <1>2 DEF Carrying
  <2>3. p \in Carrying(i) <=> i = v
    BY <1>1 DEF Carrying, InHand
  <2>4. Queued(i)' = IF i = v THEN Queued(i) \cup {q.size + 1} ELSE Queued(i)
    <3>1. Queued(i)' = {k \in 1 .. q.size + 1 : Contents(q')[k] = i}
      BY <1>4 DEF Queued
    <3>2. 1 .. q.size + 1 = 1 .. q.size \cup {q.size + 1}
      BY <1>1
    <3> HIDE DEF v
    <3> QED BY <1>4, <3>1, <3>2 DEF Queued
  <2>5. q.size + 1 \notin Queued(i)
    BY <1>1 DEF Queued
  <2> QED BY <2>1, <2>2, <2>3, <2>4, <2>5
<1> HIDE DEF v
<1>6. ASSUME NEW i \in Value
      PROVE  /\ IsFiniteSet(Carrying(i)') /\ IsFiniteSet(Queued(i)') /\ IsFiniteSet(Taken(i)')
             /\ Cardinality(Carrying(i)') + Cardinality(Queued(i)') + Cardinality(Taken(i)')
                = Cardinality(Carrying(i)) + Cardinality(Queued(i)) + Cardinality(Taken(i))
  <2>1. IsFiniteSet(Carrying(i)) /\ IsFiniteSet(Queued(i)) /\ IsFiniteSet(Taken(i))
    BY DEF MainInv, PlacesFinite
  <2>2. CASE i = v
    <3>1. /\ IsFiniteSet(Carrying(i)') /\ Cardinality(Carrying(i)') = Cardinality(Carrying(i)) - 1
      BY <1>5, <2>1, <2>2, OneLess
    <3>2. /\ IsFiniteSet(Queued(i)') /\ Cardinality(Queued(i)') = Cardinality(Queued(i)) + 1
      BY <1>5, <2>1, <2>2, OneMore
    <3> QED BY <1>5, <2>1, <3>1, <3>2, PlaceTypes
  <2>3. CASE i # v
    <3>1. Carrying(i)' = Carrying(i) /\ Queued(i)' = Queued(i)
      BY <1>5, <2>3
    <3> QED BY <1>5, <2>1, <3>1
  <2> QED BY <2>2, <2>3
<1> QED BY <1>6, AccountsKept, Zenon

\* Moving up by one place in the queue changes no number.
LEMMA ShiftDown ==
    ASSUME NEW S \in SUBSET Int, IsFiniteSet(S), NEW T, T = {k - 1 : k \in S}
    PROVE  IsFiniteSet(T) /\ Cardinality(T) = Cardinality(S)
<1> DEFINE f == [k \in S |-> k - 1]
<1>1. f \in Bijection(S, T)
  BY DEF Bijection, Injection, Surjection, IsInjective
<1>2. ExistsBijection(S, T)
  BY <1>1 DEF ExistsBijection
<1> QED BY <1>2, FS_Bijection

\* queue_get moves the item at the head of the queue into the consumer's hand.
LEMMA RemoveKept ==
    ASSUME MainInv, NEW c \in Consumers, PgetRemove(c), UNCHANGED counters
    PROVE  PlacesFinite' /\ ItemAccounting'
<1> DEFINE v == queue_get_result(q)
<1>1. /\ q \in Queue /\ RingOK(q) /\ ~ queue_empty(q) /\ q' = queue_get(q)
      /\ pc[c] = "get_test" /\ val' = [val EXCEPT ![c] = v] /\ q.size \in Nat
      /\ c \in Threads /\ c \notin Producers /\ Producers \subseteq Threads /\ Consumers \subseteq Threads
  BY ThreadsAssumption DEF PgetRemove, MainInv, IInv, TypeOK, QueueConsistent, Queue
<1>2. /\ \A t \in Threads : t # c => pc'[t] = pc[t] /\ val'[t] = val[t]
      /\ pc'[c] \in GotIt /\ val'[c] = v
  BY <1>1 DEF PgetRemove, MainInv, IInv, TypeOK, Goto, GotIt
<1>3. /\ q' \in Queue /\ Contents(q') = Tail(Contents(q)) /\ Contents(q) # <<>>
      /\ v = Head(Contents(q))
      /\ Len(Contents(q')) = q'.size
      /\ Contents(q) \in Seq(Value \cup {Garbage}) /\ Len(Contents(q)) = q.size
  BY <1>1, GetTakesHead, ContentsIsSeq
<1>4. /\ q'.size = q.size - 1 /\ q.size > 0
      /\ \A k \in 1 .. q.size - 1 : Contents(q')[k] = Contents(q)[k + 1]
      /\ Contents(q)[1] = v
  BY <1>1, <1>3, HeadTailProperties
<1> HIDE DEF v
<1>5. ASSUME NEW i \in Value
      PROVE  /\ Carrying(i)' = Carrying(i)
             /\ Taken(i)' = IF i = v THEN Taken(i) \cup {c} ELSE Taken(i)
             /\ c \notin Taken(i)
             /\ Queued(i)' = {k - 1 : k \in Queued(i) \ {1}}
             /\ 1 \in Queued(i) <=> i = v
  <2>1. Carrying(i)' = Carrying(i)
    BY <1>1, <1>2 DEF Carrying
  <2>2. Taken(i)' = IF i = v THEN Taken(i) \cup {c} ELSE Taken(i)
    BY <1>1, <1>2 DEF Taken, GotIt
  <2>3. c \notin Taken(i)
    BY <1>1 DEF Taken, GotIt
  <2>4. Queued(i)' = {k - 1 : k \in Queued(i) \ {1}}
    <3>1. Queued(i)' = {k \in 1 .. q.size - 1 : Contents(q)[k + 1] = i}
      BY <1>4 DEF Queued
    <3>2. ASSUME NEW k \in 1 .. q.size - 1, Contents(q)[k + 1] = i
          PROVE  k \in {j - 1 : j \in Queued(i) \ {1}}
      <4>1. k + 1 \in Queued(i) \ {1} /\ (k + 1) - 1 = k
        BY <1>1, <3>2 DEF Queued
      <4> QED BY <4>1
    <3>3. ASSUME NEW j \in Queued(i) \ {1}
          PROVE  j - 1 \in 1 .. q.size - 1 /\ Contents(q)[(j - 1) + 1] = i
      <4>1. j \in 1 .. q.size /\ Contents(q)[j] = i /\ j # 1
        BY <3>3 DEF Queued
      <4>2. (j - 1) + 1 = j
        BY <4>1
      <4> QED BY <1>1, <4>1, <4>2
    <3> QED BY <3>1, <3>2, <3>3
  <2>5. 1 \in Queued(i) <=> i = v
    BY <1>1, <1>4 DEF Queued
  <2> QED BY <2>1, <2>2, <2>3, <2>4, <2>5
<1>6. ASSUME NEW i \in Value
      PROVE  /\ IsFiniteSet(Carrying(i)') /\ IsFiniteSet(Queued(i)') /\ IsFiniteSet(Taken(i)')
             /\ Cardinality(Carrying(i)') + Cardinality(Queued(i)') + Cardinality(Taken(i)')
                = Cardinality(Carrying(i)) + Cardinality(Queued(i)) + Cardinality(Taken(i))
  <2>1. IsFiniteSet(Carrying(i)) /\ IsFiniteSet(Queued(i)) /\ IsFiniteSet(Taken(i))
    BY DEF MainInv, PlacesFinite
  <2>2. Queued(i) \ {1} \in SUBSET Int /\ IsFiniteSet(Queued(i) \ {1})
    BY <1>1, <2>1, FS_RemoveElement DEF Queued
  <2>3. IsFiniteSet(Queued(i)') /\ Cardinality(Queued(i)') = Cardinality(Queued(i) \ {1})
    BY <1>5, <2>2, ShiftDown
  <2>4. CASE i = v
    <3>1. Cardinality(Queued(i)') = Cardinality(Queued(i)) - 1
      BY <1>5, <2>1, <2>3, <2>4, OneLess
    <3>2. IsFiniteSet(Taken(i)') /\ Cardinality(Taken(i)') = Cardinality(Taken(i)) + 1
      BY <1>5, <2>1, <2>4, OneMore
    <3> QED BY <1>5, <2>1, <2>3, <3>1, <3>2, PlaceTypes
  <2>5. CASE i # v
    <3>1. Taken(i)' = Taken(i) /\ Queued(i) \ {1} = Queued(i)
      BY <1>5, <2>5
    <3> QED BY <1>5, <2>1, <2>3, <3>1
  <2> QED BY <2>4, <2>5
<1> QED BY <1>6, AccountsKept, Zenon

\* Counting moves the item from the consumer's hand to the printed ones.
LEMMA CountKept ==
    ASSUME MainInv, NEW c \in Consumers, ConsumerCount(c)
    PROVE  PlacesFinite' /\ ItemAccounting'
<1> DEFINE v == val[c]
<1>1. /\ v \in Value /\ totalProduced' = totalProduced /\ totalConsumed' = totalConsumed + 1
      /\ consumed' = [consumed EXCEPT ![v] = @ + 1] /\ consumed \in [Value -> Nat]
      /\ pc[c] = "get_done" /\ q' = q /\ val' = val
      /\ totalProduced \in Nat /\ totalConsumed \in Nat /\ Total \in Nat /\ Value = 1 .. Total
  BY ThreadsAssumption, TotalAssumption
     DEF MainInv, IInv, QueueConsistent, CounterTypes, ConsumerCount
<1>2. /\ \A t \in Threads : t # c => pc'[t] = pc[t]
      /\ pc'[c] \notin GotIt
  BY ThreadsAssumption DEF ConsumerCount, MainInv, IInv, TypeOK, Goto, GotIt
<1>3. c \notin Producers /\ Producers \subseteq Threads /\ Consumers \subseteq Threads
  BY ThreadsAssumption
<1>4. ASSUME NEW i \in Value
      PROVE  /\ Queued(i)' = Queued(i) /\ Carrying(i)' = Carrying(i)
             /\ Taken(i)' = Taken(i) \ {c}
             /\ c \in Taken(i) <=> i = v
  <2>1. Queued(i)' = Queued(i)
    BY <1>1 DEF Queued
  <2>2. Carrying(i)' = Carrying(i)
    BY <1>1, <1>2, <1>3 DEF Carrying
  <2>3. Taken(i)' = Taken(i) \ {c}
    BY <1>1, <1>2, <1>3 DEF Taken
  <2>4. c \in Taken(i) <=> i = v
    BY <1>1 DEF Taken, GotIt
  <2> QED BY <2>1, <2>2, <2>3, <2>4
<1> HIDE DEF v
<1>5. ASSUME NEW i \in Value
      PROVE  /\ IsFiniteSet(Carrying(i)') /\ IsFiniteSet(Queued(i)') /\ IsFiniteSet(Taken(i)')
             /\ Cardinality(Taken(i)')
                = IF i = v THEN Cardinality(Taken(i)) - 1 ELSE Cardinality(Taken(i))
  <2>1. IsFiniteSet(Carrying(i)) /\ IsFiniteSet(Queued(i)) /\ IsFiniteSet(Taken(i))
    BY DEF MainInv, PlacesFinite
  <2>2. i # v => Taken(i)' = Taken(i)
    BY <1>4
  <2> QED BY <1>4, <2>1, <2>2, OneLess
<1>6. ASSUME NEW i \in Value
      PROVE  Places(i)' = Places(i)
  <2>1. Places(i)' = Cardinality(Carrying(i)) + Cardinality(Queued(i))
                     + Cardinality(Taken(i)') + consumed'[i]
    BY <1>1, <1>4 DEF Places, Carrying, Queued, Taken, InHand, GotIt
  <2>2. Places(i) = Cardinality(Carrying(i)) + Cardinality(Queued(i))
                    + Cardinality(Taken(i)) + consumed[i]
    BY PlacesAre
  <2>3. consumed'[i] = IF i = v THEN consumed[i] + 1 ELSE consumed[i]
    BY <1>1
  <2> QED BY <1>5, <2>1, <2>2, <2>3, PlaceTypes
<1>7. PlacesFinite'
  BY <1>5 DEF PlacesFinite
<1>8. consumed[v] = 0
  <2>1. Places(v) = Cardinality(Carrying(v)) + Cardinality(Queued(v))
                    + Cardinality(Taken(v)) + consumed[v]
    BY PlacesAre
  <2>2. Places(v) = IF v <= totalProduced THEN 1 ELSE 0
    BY <1>1 DEF MainInv, ItemAccounting
  <2>3. Cardinality(Taken(v)) # 0
    BY <1>1, <1>4, FS_EmptySet DEF MainInv, PlacesFinite
  <2>4. /\ Cardinality(Carrying(v)) \in Nat /\ Cardinality(Queued(v)) \in Nat
        /\ Cardinality(Taken(v)) \in Nat /\ consumed[v] \in Nat
    BY <1>1, PlaceTypes
  <2>5. Places(v) = 1 \/ Places(v) = 0
    BY <2>2
  <2> QED BY <2>1, <2>3, <2>4, <2>5
<1>9. totalConsumed' = Cardinality({i \in Value : consumed'[i] = 1})
  <2> DEFINE P == {i \in Value : consumed[i] = 1}
  <2>1. IsFiniteSet(P)
    <3>1. IsFiniteSet(1 .. Total) /\ P \in SUBSET (1 .. Total)
      BY <1>1, FS_Interval
    <3> QED BY <3>1, FS_Subset
  <2>2. {i \in Value : consumed'[i] = 1} = P \cup {v} /\ v \notin P
    BY <1>1, <1>8
  <2>3. totalConsumed = Cardinality(P)
    BY DEF MainInv, ItemAccounting
  <2> HIDE DEF P
  <2> QED BY <1>1, <2>1, <2>2, <2>3, OneMore
<1>10. ItemAccounting'
  BY <1>1, <1>6, <1>9 DEF ItemAccounting, MainInv
<1> QED BY <1>7, <1>10

\* The invariant of the program is inductive.
LEMMA NextMainInv == MainInv /\ [MainNext]_mainVars => MainInv'
<1> SUFFICES ASSUME MainInv, [MainNext]_mainVars PROVE MainInv'
  OBVIOUS
<1>1. IInv' /\ CounterTypes'
  BY MainStep, NextIInv, CountersKept DEF MainInv
<1>2. PlacesFinite' /\ ItemAccounting'
  BY QuietSteps, QuietKept, ClaimKept, InsertKept, RemoveKept, CountKept, Zenon
<1> QED BY <1>1, <1>2, RolesKept DEF MainInv

\* The invariant of the program holds in every reachable state.
THEOREM MainInvariant == MainSpec => []MainInv
BY MainInvInit, NextMainInv, PTL DEF MainSpec

\* For every number of producers, consumers, items and slots: the counters under
\* gCountLock agree with the queue under its own lock, and every item claimed is in
\* exactly one place.
THEOREM Accounting == MainSpec => []ItemAccounting
BY MainInvariant, PTL DEF MainInv

\* Where everything has been claimed and is neither in a hand nor in the queue, it has
\* been printed.
LEMMA AllPrinted ==
    ASSUME MainInv, totalProduced >= Total, q.size = 0,
           \A p \in Producers : pc[p] \notin InHand,
           \A c \in Consumers : pc[c] \notin GotIt
    PROVE  totalConsumed = Total
<1>1. Total \in Nat /\ Value = 1 .. Total /\ totalProduced = Total
  BY TotalAssumption DEF MainInv, CounterTypes
<1>2. ASSUME NEW i \in Value PROVE consumed[i] = 1
  <2>1. Carrying(i) = {} /\ Queued(i) = {} /\ Taken(i) = {}
    BY DEF Carrying, Queued, Taken
  <2>2. Cardinality(Carrying(i)) = 0 /\ Cardinality(Queued(i)) = 0 /\ Cardinality(Taken(i)) = 0
    BY <2>1, FS_EmptySet
  <2>3. Places(i) = 1
    BY <1>1 DEF MainInv, ItemAccounting
  <2> QED BY <2>2, <2>3, PlacesAre, PlaceTypes
<1>3. {i \in Value : consumed[i] = 1} = 1 .. Total
  BY <1>1, <1>2
<1>4. Cardinality(1 .. Total) = Total
  BY <1>1, FS_Interval
<1> QED BY <1>3, <1>4 DEF MainInv, ItemAccounting

\* Conversely, once Total items have been printed the queue is empty.
LEMMA NothingLeft ==
    ASSUME MainInv, totalConsumed >= Total
    PROVE  totalConsumed = Total /\ q.size = 0
<1> DEFINE P == {i \in Value : consumed[i] = 1}
<1>1. /\ Total \in Nat /\ Value = 1 .. Total /\ q.size \in Nat
      /\ totalConsumed = Cardinality(P) /\ totalConsumed \in Nat
  BY TotalAssumption DEF MainInv, CounterTypes, ItemAccounting, IInv, TypeOK, Queue
<1>2. IsFiniteSet(1 .. Total) /\ Cardinality(1 .. Total) = Total /\ P \in SUBSET (1 .. Total)
  <2>1. IsFiniteSet(1 .. Total) /\ Cardinality(1 .. Total) = Total
    BY <1>1, FS_Interval
  <2> QED BY <1>1, <2>1
<1>3. totalConsumed = Total /\ P = 1 .. Total
  <2> HIDE DEF P
  <2>1. Cardinality(P) <= Total /\ (Cardinality(P) = Total => P = 1 .. Total)
    BY <1>2, FS_Subset
  <2> QED BY <1>1, <2>1
<1>4. ASSUME q.size # 0 PROVE FALSE
  <2> DEFINE v == Contents(q)[1]
  <2>1. v \in Value /\ 1 \in Queued(v)
    BY <1>1, <1>4 DEF MainInv, IInv, QueueConsistent, Queued
  <2>2. consumed[v] = 1
    BY <1>1, <1>3, <2>1
  <2> HIDE DEF v
  <2>3. Cardinality(Queued(v)) # 0
    BY <2>1, FS_EmptySet DEF MainInv, PlacesFinite
  <2>4. Places(v) = 1 \/ Places(v) = 0
    BY <2>1 DEF MainInv, ItemAccounting
  <2> QED BY <2>1, <2>2, <2>3, <2>4, PlacesAre, PlaceTypes
<1> QED BY <1>3, <1>4

\* What the program looks like when no thread can run any more.
LEMMA AtRest ==
    ASSUME MainInv, \A t \in Threads : pc[t] = "exited" \/ t \in cond
    PROVE  (\A p \in Producers : pc[p] = "exited") /\ totalConsumed = Total
<1>1. /\ \A t \in Threads : pc[t] \in {"exited", "put_wait", "get_wait"}
      /\ \A t \in Threads : pc[t] # "exited" => t \in cond
      /\ Producers \subseteq Threads /\ Consumers \subseteq Threads
  BY ThreadsAssumption DEF MainInv, IInv, MutexDiscipline
<1>2. \A t \in cond : /\ pc[t] = "get_wait" => queue_empty(q)
                      /\ pc[t] = "put_wait" => queue_full(q)
  BY <1>1 DEF MainInv, IInv, NoLostWakeup, BroadcastPending
<1>3. /\ \A p \in Producers : pc[p] \in {"exited", "put_wait"}
      /\ \A c \in Consumers : pc[c] \in {"exited", "get_wait"}
  BY <1>1 DEF MainInv, Roles, PutPC, GetPC
<1>4. PICK c \in Consumers : TRUE
  BY ThreadsAssumption
<1>5. q.size = 0
  <2>1. CASE pc[c] = "exited"
    BY <2>1, NothingLeft DEF MainInv, Roles
  <2>2. CASE pc[c] = "get_wait"
    BY <1>1, <1>2, <2>2 DEF queue_empty
  <2> QED BY <1>3, <2>1, <2>2
<1>6. \A p \in Producers : pc[p] = "exited"
  <2>1. ~ queue_full(q)
    BY <1>5, CapacityAssumption DEF queue_full
  <2> QED BY <1>1, <1>2, <1>3, <2>1
<1>7. totalProduced >= Total
  BY <1>6, ThreadsAssumption DEF MainInv, Roles
<1>8. (\A p \in Producers : pc[p] \notin InHand) /\ (\A d \in Consumers : pc[d] \notin GotIt)
  BY <1>3, <1>6 DEF InHand, GotIt
<1> QED BY <1>5, <1>6, <1>7, <1>8, AllPrinted

\* For every number of producers, consumers, items and slots: when no thread can run any
\* more, the producers are gone and all items have been consumed.
THEOREM StrandingIsHarmless == MainSpec => []OnlyConsumersStrand
<1>1. MainInv => OnlyConsumersStrand
  BY AtRest, Zenon DEF OnlyConsumersStrand
<1> QED BY <1>1, MainInvariant, PTL
=============================================================================
