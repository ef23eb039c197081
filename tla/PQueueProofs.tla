---------------------------- MODULE PQueueProofs ----------------------------
(***************************************************************************)
(* The protected queue of week7 for every capacity, every set of threads   *)
(* and every set of values: its invariants, and that it implements the     *)
(* bounded first-in first-out channel.                                     *)
(***************************************************************************)
EXTENDS PQueue, SequenceTheorems, TLAPS

-----------------------------------------------------------------------------
(* The circular queue.                                                     *)

\* The slot i further on from slot h, around the end of the array.
On(h, i) == (h + i) % Capacity

\* Going on by at most the capacity, as queuep.c does with %, wraps at most once.
LEMMA OnWraps ==
    ASSUME NEW h \in Slot, NEW i \in 0 .. Capacity
    PROVE  /\ On(h, i) = IF h + i < Capacity THEN h + i ELSE h + i - Capacity
           /\ On(h, i) \in Slot
<1>1. Capacity \in Nat /\ Capacity > 0 /\ h \in Nat /\ h < Capacity /\ i \in Nat /\ i <= Capacity
  BY CapacityAssumption DEF Slot
<1>2. CASE h + i < Capacity
  <2>1. (h + i) % Capacity = h + i
    BY <1>1, <1>2
  <2> QED BY <1>1, <1>2, <2>1 DEF On, Slot
<1>3. CASE h + i >= Capacity
  <2>1. (h + i) % Capacity = h + i - Capacity
    <3>1. h + i - Capacity \in 0 .. Capacity - 1
      BY <1>1, <1>3
    <3> QED BY <1>1, <1>3, <3>1
  <2> QED BY <1>1, <1>3, <2>1 DEF On, Slot
<1> QED BY <1>1, <1>2, <1>3

\* Slots add up, and no slot is met twice within one round.
LEMMA OnAdds ==
    ASSUME NEW h \in Slot, NEW i \in 0 .. Capacity - 1
    PROVE  /\ On(h, 0) = h
           /\ On(On(h, i), 1) = On(h, i + 1)
           /\ On(On(h, 1), i) = On(h, i + 1)
           /\ \A j \in 0 .. Capacity - 1 : i < j => On(h, i) # On(h, j)
<1>1. Capacity \in Nat /\ Capacity > 0 /\ h \in Nat /\ h < Capacity /\ i \in Nat /\ i < Capacity
  BY CapacityAssumption DEF Slot
<1>2. /\ 0 \in 0 .. Capacity /\ 1 \in 0 .. Capacity /\ i \in 0 .. Capacity /\ i + 1 \in 0 .. Capacity
      /\ \A k \in Slot : k \in Nat /\ k < Capacity
  BY <1>1 DEF Slot
<1>3. On(h, 0) = h
  <2>1. On(h, 0) = IF h + 0 < Capacity THEN h + 0 ELSE h + 0 - Capacity
    BY <1>2, OnWraps
  <2> QED BY <1>1, <2>1
<1>4. On(On(h, i), 1) = On(h, i + 1)
  <2>1. PICK x \in Slot : x = On(h, i)
    BY <1>2, OnWraps
  <2>2. /\ x = IF h + i < Capacity THEN h + i ELSE h + i - Capacity
        /\ On(x, 1) = IF x + 1 < Capacity THEN x + 1 ELSE x + 1 - Capacity
        /\ On(h, i + 1) = IF h + (i + 1) < Capacity THEN h + (i + 1) ELSE h + (i + 1) - Capacity
    BY <1>2, <2>1, OnWraps
  <2>3. On(x, 1) = On(h, i + 1)
    BY <1>1, <1>2, <2>2
  <2> QED BY <2>1, <2>3
<1>5. On(On(h, 1), i) = On(h, i + 1)
  <2>1. PICK x \in Slot : x = On(h, 1)
    BY <1>2, OnWraps
  <2>2. /\ x = IF h + 1 < Capacity THEN h + 1 ELSE h + 1 - Capacity
        /\ On(x, i) = IF x + i < Capacity THEN x + i ELSE x + i - Capacity
        /\ On(h, i + 1) = IF h + (i + 1) < Capacity THEN h + (i + 1) ELSE h + (i + 1) - Capacity
    BY <1>2, <2>1, OnWraps
  <2>3. On(x, i) = On(h, i + 1)
    BY <1>1, <1>2, <2>2
  <2> QED BY <2>1, <2>3
<1>6. ASSUME NEW j \in 0 .. Capacity - 1, i < j
      PROVE  On(h, i) # On(h, j)
  <2>1. j \in 0 .. Capacity
    BY <1>1
  <2>2. /\ On(h, i) = IF h + i < Capacity THEN h + i ELSE h + i - Capacity
        /\ On(h, j) = IF h + j < Capacity THEN h + j ELSE h + j - Capacity
    BY <1>2, <2>1, OnWraps
  <2> QED BY <1>1, <1>6, <2>2
<1> QED BY <1>3, <1>4, <1>5, <1>6

\* The definitions of CircularQueue in terms of On.
LEMMA InTermsOfOn ==
    ASSUME NEW r \in Queue
    PROVE  /\ RingOK(r) <=> r.tail = On(r.head, r.size)
           /\ Contents(r) = [i \in 1 .. r.size |-> r.data[On(r.head, i - 1)]]
           /\ \A v : ~ queue_full(r) =>
                queue_put(r, v) = [data |-> [r.data EXCEPT ![r.tail] = v], head |-> r.head,
                                   tail |-> On(r.tail, 1), size |-> r.size + 1]
           /\ ~ queue_empty(r) =>
                queue_get(r) = [data |-> r.data, head |-> On(r.head, 1),
                                tail |-> r.tail, size |-> r.size - 1]
<1>1. Capacity \in Nat \ {0} /\ r.head \in Nat /\ r.size \in 0 .. Capacity
  BY CapacityAssumption DEF Queue, Slot
<1>2. RingOK(r) <=> r.tail = On(r.head, r.size)
  BY DEF RingOK, On
<1>3. Contents(r) = [i \in 1 .. r.size |-> r.data[On(r.head, i - 1)]]
  <2>1. ASSUME NEW i \in 1 .. r.size
        PROVE  r.head + i - 1 = r.head + (i - 1)
    BY <1>1
  <2> QED BY <2>1, Zenon DEF Contents, On
<1>4. ASSUME NEW v, ~ queue_full(r)
      PROVE  queue_put(r, v) = [data |-> [r.data EXCEPT ![r.tail] = v], head |-> r.head,
                                tail |-> On(r.tail, 1), size |-> r.size + 1]
  <2>1. r.size < Capacity
    BY <1>1, <1>4 DEF queue_full
  <2> QED BY <2>1, Zenon DEF queue_put, On
<1>5. ASSUME ~ queue_empty(r)
      PROVE  queue_get(r) = [data |-> r.data, head |-> On(r.head, 1),
                             tail |-> r.tail, size |-> r.size - 1]
  <2>1. r.size > 0
    BY <1>1, <1>5 DEF queue_empty
  <2> QED BY <2>1, Zenon DEF queue_get, On
<1> QED BY <1>2, <1>3, <1>4, <1>5, Zenon

\* The items in a queue are a sequence as long as its size says.
LEMMA ContentsIsSeq ==
    ASSUME NEW r \in Queue
    PROVE  Contents(r) \in Seq(Value \cup {Garbage}) /\ Len(Contents(r)) = r.size
<1>1. /\ Capacity \in Nat \ {0} /\ r.head \in Slot /\ r.size \in 0 .. Capacity
      /\ r.data \in [Slot -> Value \cup {Garbage}]
  BY CapacityAssumption DEF Queue
<1>2. ASSUME NEW i \in 1 .. r.size
      PROVE  r.data[On(r.head, i - 1)] \in Value \cup {Garbage}
  <2>1. i - 1 \in 0 .. Capacity
    BY <1>1
  <2> QED BY <1>1, <2>1, OnWraps
<1> QED BY <1>1, <1>2, InTermsOfOn

\* queue_put on a queue with room appends to what queue_get will hand out.
LEMMA PutAppends ==
    ASSUME NEW r \in Queue, NEW v \in Value, RingOK(r), ~ queue_full(r)
    PROVE  /\ queue_put(r, v) \in Queue
           /\ RingOK(queue_put(r, v))
           /\ Contents(queue_put(r, v)) = Append(Contents(r), v)
<1> DEFINE s == queue_put(r, v)
<1>1. /\ Capacity \in Nat \ {0}
      /\ r.head \in Slot /\ r.tail \in Slot
      /\ r.size \in 0 .. Capacity - 1
      /\ r.data \in [Slot -> Value \cup {Garbage}]
  BY CapacityAssumption DEF Queue, queue_full
<1>2. s = [data |-> [r.data EXCEPT ![r.tail] = v], head |-> r.head,
           tail |-> On(r.tail, 1), size |-> r.size + 1]
  BY InTermsOfOn, Zenon
<1>3. s \in Queue
  BY <1>1, <1>2, OnWraps DEF Queue
<1>4. r.tail = On(r.head, r.size)
  BY InTermsOfOn
<1>5. RingOK(s)
  <2>1. On(r.head, r.size + 1) = On(On(r.head, r.size), 1)
    BY <1>1, OnAdds
  <2> QED BY <1>2, <1>3, <1>4, <2>1, InTermsOfOn
<1>6. ASSUME NEW i \in 1 .. r.size
      PROVE  On(r.head, i - 1) # r.tail /\ On(r.head, i - 1) \in Slot
  <2>1. i - 1 \in 0 .. Capacity - 1 /\ i - 1 \in 0 .. Capacity /\ i - 1 < r.size
    BY <1>1
  <2> QED BY <1>1, <1>4, <2>1, OnAdds, OnWraps
<1>7. /\ Contents(r) = [i \in 1 .. r.size |-> r.data[On(r.head, i - 1)]]
      /\ Contents(s) = [i \in 1 .. r.size + 1 |-> [r.data EXCEPT ![r.tail] = v][On(r.head, i - 1)]]
  <2>1. s.size = r.size + 1 /\ s.head = r.head /\ s.data = [r.data EXCEPT ![r.tail] = v]
    BY <1>2
  <2> QED BY <1>3, <2>1, InTermsOfOn
<1> DEFINE a == Append(Contents(r), v)
<1>8. /\ a \in Seq(Value \cup {Garbage}) /\ Len(a) = r.size + 1
      /\ \A i \in 1 .. r.size : a[i] = Contents(r)[i]
      /\ a[r.size + 1] = v
  BY <1>1, ContentsIsSeq, AppendProperties
<1> HIDE DEF a
<1>9. ASSUME NEW i \in 1 .. r.size + 1
      PROVE  Contents(s)[i] = a[i]
  <2>1. CASE i = r.size + 1
    <3>1. On(r.head, i - 1) = r.tail
      BY <1>1, <1>4, <2>1
    <3>2. Contents(s)[i] = v
      BY <1>1, <1>7, <3>1
    <3> QED BY <1>8, <2>1, <3>2
  <2>2. CASE i \in 1 .. r.size
    <3>1. Contents(s)[i] = r.data[On(r.head, i - 1)]
      BY <1>1, <1>6, <1>7, <2>2
    <3>2. Contents(s)[i] = Contents(r)[i]
      BY <1>7, <2>2, <3>1
    <3> QED BY <1>8, <2>2, <3>2
  <2> QED BY <1>1, <2>1, <2>2
<1>10. Contents(s) = Append(Contents(r), v)
  <2>1. Contents(s) \in Seq(Value \cup {Garbage}) /\ Len(Contents(s)) = r.size + 1
    BY <1>2, <1>3, ContentsIsSeq
  <2> HIDE DEF s
  <2>2. Contents(s) = a
    BY <1>8, <1>9, <2>1, SeqEqual
  <2> QED BY <2>2 DEF a, s
<1> QED BY <1>3, <1>5, <1>10

\* queue_get on a queue that is not empty hands out the oldest item and keeps the
\* others in their order.
LEMMA GetTakesHead ==
    ASSUME NEW r \in Queue, RingOK(r), ~ queue_empty(r)
    PROVE  /\ queue_get(r) \in Queue
           /\ RingOK(queue_get(r))
           /\ Contents(r) # <<>>
           /\ queue_get_result(r) = Head(Contents(r))
           /\ Contents(queue_get(r)) = Tail(Contents(r))
<1> DEFINE s == queue_get(r)
<1>1. /\ Capacity \in Nat \ {0}
      /\ r.head \in Slot /\ r.tail \in Slot
      /\ r.size \in 1 .. Capacity
      /\ r.data \in [Slot -> Value \cup {Garbage}]
  BY CapacityAssumption DEF Queue, queue_empty
<1>2. s = [data |-> r.data, head |-> On(r.head, 1), tail |-> r.tail, size |-> r.size - 1]
  BY InTermsOfOn, Zenon
<1>3. s \in Queue
  BY <1>1, <1>2, OnWraps DEF Queue
<1>4. ASSUME NEW i \in 1 .. r.size
      PROVE  On(On(r.head, 1), i - 1) = On(r.head, i)
  <2>1. i - 1 \in 0 .. Capacity - 1 /\ (i - 1) + 1 = i
    BY <1>1
  <2> QED BY <1>1, <2>1, OnAdds
<1>5. RingOK(s)
  <2>1. r.tail = On(r.head, r.size)
    BY InTermsOfOn
  <2>2. r.tail = On(On(r.head, 1), r.size - 1)
    BY <1>1, <1>4, <2>1
  <2> QED BY <1>2, <1>3, <2>2, InTermsOfOn
<1>6. /\ Contents(r) = [i \in 1 .. r.size |-> r.data[On(r.head, i - 1)]]
      /\ Contents(s) = [i \in 1 .. r.size - 1 |-> r.data[On(On(r.head, 1), i - 1)]]
  <2>1. s.size = r.size - 1 /\ s.head = On(r.head, 1) /\ s.data = r.data
    BY <1>2
  <2> QED BY <1>3, <2>1, InTermsOfOn
<1>7. Contents(r) # <<>> /\ queue_get_result(r) = Head(Contents(r))
  <2>1. On(r.head, 0) = r.head
    BY <1>1, OnAdds
  <2>2. Contents(r)[1] = r.data[r.head]
    BY <1>1, <1>6, <2>1
  <2>3. queue_get_result(r) = r.data[r.head]
    BY <1>1 DEF queue_get_result
  <2> QED BY <1>1, <2>2, <2>3, ContentsIsSeq
<1>8. ASSUME NEW i \in 1 .. r.size - 1
      PROVE  Contents(s)[i] = Contents(r)[i + 1]
  <2>1. On(On(r.head, 1), i - 1) = On(r.head, (i + 1) - 1) /\ i + 1 \in 1 .. r.size
    BY <1>1, <1>4
  <2> QED BY <1>6, <2>1
<1>9. Contents(s) = Tail(Contents(r))
  <2> DEFINE a == Contents(s)  b == Contents(r)
  <2>1. b \in Seq(Value \cup {Garbage}) /\ Len(b) = r.size
    BY ContentsIsSeq
  <2>2. a \in Seq(Value \cup {Garbage}) /\ Len(a) = r.size - 1
    BY <1>2, <1>3, ContentsIsSeq
  <2>3. \A i \in 1 .. r.size - 1 : a[i] = b[i + 1]
    BY <1>8
  <2> HIDE DEF a, b, s
  <2>4. a = Tail(b)
    BY <1>1, <2>1, <2>2, <2>3
  <2> QED BY <2>4 DEF a, b, s
<1> QED BY <1>3, <1>5, <1>7, <1>9

-----------------------------------------------------------------------------
(* The steps of pput and pget, by what they do.                            *)

\* Thread t locks the mutex, at the start of a call or when it wakes up.
Acquire(t) ==
    \/ Lock(t, "put_lock", "put_test")
    \/ Reacquire(t, "put_wait", "put_test")
    \/ Lock(t, "get_lock", "get_test")
    \/ Reacquire(t, "get_wait", "get_test")

Sleep(t) == PputWait(t) \/ PgetWait(t)

Wake(t) == Broadcast(t, "put_signal", "put_unlock") \/ Broadcast(t, "get_signal", "get_unlock")

Release(t) == Unlock(t, "put_unlock", "put_done") \/ Unlock(t, "get_unlock", "get_done")

Caller(t) == CallPput(t) \/ CallPget(t) \/ Return(t) \/ End(t)

\* What a thread does falls into these eight kinds of steps.
LEMMA Steps ==
    ASSUME NEW t \in Threads,
           \/ pput(t) \/ pget(t) \/ SpuriousWakeup(t)
           \/ CallPput(t) \/ CallPget(t) \/ Return(t) \/ End(t)
    PROVE  \/ Acquire(t) \/ Sleep(t) \/ PputInsert(t) \/ PgetRemove(t) \/ Wake(t) \/ Release(t)
           \/ SpuriousWakeup(t) \/ Caller(t)
BY Zenon DEF pput, pget, Acquire, Sleep, Wake, Release, Caller

\* The inductive invariant: NoLostWakeup needs MutexDiscipline (only the owner of the
\* mutex can be about to broadcast, and a sleeper is in a wait loop), and
\* QueueConsistent needs itself only.
IInv == TypeOK /\ MutexDiscipline /\ NoLostWakeup /\ QueueConsistent

\* pqueueinit establishes the invariant.
LEMMA InitIInv == Init => IInv
<1> SUFFICES ASSUME Init PROVE IInv
  OBVIOUS
<1> USE DEF Init, pqueueinit, queue_init
<1>1. Capacity \in Nat \ {0} /\ MaxSpurious \in Nat /\ Nobody \notin Threads
  BY CapacityAssumption, SpuriousAssumption, NobodyAssumption
<1>2. q \in Queue /\ q.size = 0 /\ q.tail = 0 /\ q.head = 0
  BY <1>1 DEF Queue, Slot
<1>3. TypeOK
  BY <1>1, <1>2 DEF TypeOK, PutPC, GetPC
<1>4. MutexDiscipline /\ NoLostWakeup
  BY <1>1 DEF MutexDiscipline, NoLostWakeup, Inside
<1>5. QueueConsistent
  <2>1. RingOK(q)
    <3>1. On(0, 0) = 0
      BY <1>1, OnAdds DEF Slot
    <3> QED BY <1>2, <3>1, InTermsOfOn
  <2> QED BY <1>2, <2>1 DEF QueueConsistent, PutPC
<1> QED BY <1>3, <1>4, <1>5 DEF IInv

\* Steps that leave the queue alone keep the parts of the invariant about it.
LEMMA QueueUntouched ==
    ASSUME IInv, NEW t \in Threads,
           Acquire(t) \/ Sleep(t) \/ Wake(t) \/ Release(t) \/ SpuriousWakeup(t) \/ Caller(t)
    PROVE  TypeOK' /\ QueueConsistent'
<1> USE DEF IInv, TypeOK, QueueConsistent, PutPC, GetPC, Goto
<1>1. CASE Acquire(t)
  BY <1>1 DEF Acquire, Lock, Reacquire
<1>2. CASE Sleep(t)
  BY <1>2 DEF Sleep, PputWait, PgetWait, CondWait
<1>3. CASE Wake(t)
  BY <1>3 DEF Wake, Broadcast
<1>4. CASE Release(t)
  BY <1>4 DEF Release, Unlock
<1>5. CASE SpuriousWakeup(t)
  BY <1>5, SpuriousAssumption DEF SpuriousWakeup
<1>6. CASE Caller(t)
  BY <1>6 DEF Caller, CallPput, CallPget, Return, End
<1> QED BY <1>1, <1>2, <1>3, <1>4, <1>5, <1>6

\* An insertion and a removal keep them by the lemmas on the circular queue.
LEMMA QueueChanged ==
    ASSUME IInv, NEW t \in Threads, PputInsert(t) \/ PgetRemove(t)
    PROVE  TypeOK' /\ QueueConsistent'
<1>1. TypeOK /\ RingOK(q) /\ (\A i \in 1 .. q.size : Contents(q)[i] \in Value)
  BY DEF IInv, QueueConsistent
<1>2. Contents(q) \in Seq(Value \cup {Garbage}) /\ Len(Contents(q)) = q.size /\ q.size \in Nat
  BY <1>1, ContentsIsSeq DEF TypeOK, Queue
<1>3. CASE PputInsert(t)
  <2>1. val[t] \in Value /\ ~ queue_full(q) /\ q' = queue_put(q, val[t])
    BY <1>3 DEF PputInsert, IInv, QueueConsistent, PutPC
  <2>2. q' \in Queue /\ RingOK(q') /\ Contents(q') = Append(Contents(q), val[t])
    BY <1>1, <2>1, PutAppends DEF TypeOK
  <2>3. Len(Contents(q')) = q'.size /\ q'.size = q.size + 1
    <3>1. Len(Contents(q')) = q'.size
      BY <2>2, ContentsIsSeq
    <3>2. Len(Append(Contents(q), val[t])) = q.size + 1
      BY <1>2, <2>1, AppendProperties
    <3> QED BY <2>2, <3>1, <3>2
  <2>4. \A i \in 1 .. q'.size : Contents(q')[i] \in Value
    BY <1>1, <1>2, <2>1, <2>2, <2>3, AppendProperties
  <2>5. TypeOK'
    BY <1>1, <1>3, <2>2 DEF PputInsert, TypeOK, Goto, PutPC
  <2>6. QueueConsistent'
    BY <1>1, <1>3, <2>1, <2>2, <2>4 DEF PputInsert, IInv, QueueConsistent, TypeOK, Goto, PutPC
  <2> QED BY <2>5, <2>6
<1>4. CASE PgetRemove(t)
  <2>1. ~ queue_empty(q) /\ q' = queue_get(q) /\ val' = [val EXCEPT ![t] = queue_get_result(q)]
    BY <1>4 DEF PgetRemove
  <2>2. /\ q' \in Queue /\ RingOK(q') /\ Contents(q') = Tail(Contents(q))
        /\ Contents(q) # <<>> /\ queue_get_result(q) = Head(Contents(q))
    BY <1>1, <2>1, GetTakesHead DEF TypeOK
  <2>3. queue_get_result(q) \in Value
    BY <1>1, <1>2, <2>2
  <2>4. Len(Contents(q')) = q'.size /\ q'.size = q.size - 1
    <3>1. Len(Contents(q')) = q'.size
      BY <2>2, ContentsIsSeq
    <3>2. Len(Tail(Contents(q))) = q.size - 1
      BY <1>2, <2>2, HeadTailProperties
    <3> QED BY <2>2, <3>1, <3>2
  <2>5. \A i \in 1 .. q'.size : Contents(q')[i] \in Value
    <3> TAKE i \in 1 .. q'.size
    <3>1. Tail(Contents(q))[i] = Contents(q)[i + 1] /\ i + 1 \in 1 .. q.size
      BY <1>2, <2>2, <2>4, HeadTailProperties
    <3> QED BY <1>1, <2>2, <3>1
  <2>6. TypeOK'
    BY <1>1, <1>4, <2>1, <2>2, <2>3 DEF PgetRemove, TypeOK, Goto, GetPC
  <2>7. QueueConsistent'
    BY <1>1, <1>4, <2>1, <2>2, <2>3, <2>5 DEF PgetRemove, IInv, QueueConsistent, TypeOK, Goto, PutPC
  <2> QED BY <2>6, <2>7
<1> QED BY <1>3, <1>4

\* Every kind of step keeps the mutex discipline.
LEMMA MutexKept ==
    ASSUME IInv, NEW t \in Threads,
           \/ Acquire(t) \/ Sleep(t) \/ PputInsert(t) \/ PgetRemove(t) \/ Wake(t) \/ Release(t)
           \/ SpuriousWakeup(t) \/ Caller(t)
    PROVE  MutexDiscipline'
<1> USE NobodyAssumption DEF IInv, TypeOK, MutexDiscipline, Inside, Goto
<1>1. CASE Acquire(t)
  BY <1>1 DEF Acquire, Lock, Reacquire
<1>2. CASE Sleep(t)
  BY <1>2 DEF Sleep, PputWait, PgetWait, CondWait
<1>3. CASE PputInsert(t) \/ PgetRemove(t)
  BY <1>3 DEF PputInsert, PgetRemove
<1>4. CASE Wake(t)
  BY <1>4 DEF Wake, Broadcast
<1>5. CASE Release(t)
  BY <1>5 DEF Release, Unlock
<1>6. CASE SpuriousWakeup(t)
  BY <1>6 DEF SpuriousWakeup
<1>7. CASE Caller(t)
  BY <1>7 DEF Caller, CallPput, CallPget, Return, End
<1> QED BY <1>1, <1>2, <1>3, <1>4, <1>5, <1>6, <1>7

\* No kind of step leaves a sleeper behind without a broadcast to come.
LEMMA WakeupsKept ==
    ASSUME IInv, NEW t \in Threads,
           \/ Acquire(t) \/ Sleep(t) \/ PputInsert(t) \/ PgetRemove(t) \/ Wake(t) \/ Release(t)
           \/ SpuriousWakeup(t) \/ Caller(t)
    PROVE  NoLostWakeup'
<1> USE DEF IInv, TypeOK, MutexDiscipline, NoLostWakeup, BroadcastPending, Goto
<1>1. CASE Acquire(t)
  BY <1>1 DEF Acquire, Lock, Reacquire
<1>2. CASE Sleep(t)
  BY <1>2 DEF Sleep, PputWait, PgetWait, CondWait
<1>3. CASE PputInsert(t) \/ PgetRemove(t)
  BY <1>3 DEF PputInsert, PgetRemove
<1>4. CASE Wake(t)
  BY <1>4 DEF Wake, Broadcast
<1>5. CASE Release(t)
  BY <1>5 DEF Release, Unlock
<1>6. CASE SpuriousWakeup(t)
  BY <1>6 DEF SpuriousWakeup
<1>7. CASE Caller(t)
  BY <1>7 DEF Caller, CallPput, CallPget, Return, End
<1> QED BY <1>1, <1>2, <1>3, <1>4, <1>5, <1>6, <1>7

\* The invariant is inductive.
LEMMA NextIInv == IInv /\ [Next]_pqVars => IInv'
<1> SUFFICES ASSUME IInv, [Next]_pqVars PROVE IInv'
  OBVIOUS
<1>1. CASE Next
  <2>1. PICK t \in Threads :
          \/ Acquire(t) \/ Sleep(t) \/ PputInsert(t) \/ PgetRemove(t) \/ Wake(t) \/ Release(t)
          \/ SpuriousWakeup(t) \/ Caller(t)
    BY <1>1, Steps, Zenon DEF Next
  <2>2. TypeOK' /\ QueueConsistent'
    BY <2>1, QueueUntouched, QueueChanged, Zenon
  <2> QED BY <2>1, <2>2, MutexKept, WakeupsKept, Zenon DEF IInv
<1>2. CASE UNCHANGED pqVars
  BY <1>2 DEF pqVars, IInv, TypeOK, MutexDiscipline, Inside, NoLostWakeup, BroadcastPending,
              QueueConsistent, PutPC, GetPC
<1> QED BY <1>1, <1>2

\* The invariant holds in every reachable state.
THEOREM Invariant == Spec => []IInv
BY InitIInv, NextIInv, PTL DEF Spec

\* Type correctness of the protected queue: the indices of the circular queue stay
\* within the array.
THEOREM TypeCorrect == Spec => []TypeOK
BY Invariant, PTL DEF IInv

\* For every number of threads: the mutex of pqueuep.c is held by at most the one
\* thread that is between its lock and its unlock.
THEOREM MutualExclusion == Spec => []MutexDiscipline
BY Invariant, PTL DEF IInv

\* For every number of producers and consumers and every capacity: broadcasting on
\* one condition variable for both kinds loses no wakeup.
THEOREM WakeupSafety == Spec => []NoLostWakeup
BY Invariant, PTL DEF IInv

\* For every capacity: the circular queue stays consistent and pget returns only
\* what some pput has put.
THEOREM QueueIntegrity == Spec => []QueueConsistent
BY Invariant, PTL DEF IInv

-----------------------------------------------------------------------------
(* The protected queue implements the bounded channel.                     *)

\* A new queue is an empty channel.
LEMMA FifoInit == Init => Fifo!Init
<1> SUFFICES ASSUME Init PROVE Contents(q) = <<>>
  BY DEF Fifo!Init
<1>1. q \in Queue /\ q.size = 0
  BY InitIInv DEF IInv, TypeOK, Init, pqueueinit, queue_init
<1> QED BY <1>1, ContentsIsSeq

\* An insertion is a Put, a removal a Get; every other step leaves the channel alone.
LEMMA FifoStep ==
    ASSUME IInv, [Next]_pqVars
    PROVE  [Fifo!Next]_Fifo!vars
<1>1. CASE Next
  <2>1. PICK t \in Threads :
          \/ Acquire(t) \/ Sleep(t) \/ PputInsert(t) \/ PgetRemove(t) \/ Wake(t) \/ Release(t)
          \/ SpuriousWakeup(t) \/ Caller(t)
    BY <1>1, Steps, Zenon DEF Next
  <2>2. q \in Queue /\ RingOK(q)
    BY DEF IInv, TypeOK, QueueConsistent
  <2>3. CASE PputInsert(t)
    <3>1. val[t] \in Value /\ ~ queue_full(q) /\ q' = queue_put(q, val[t]) /\ val' = val
      BY <2>3 DEF PputInsert, IInv, QueueConsistent, PutPC
    <3>2. Contents(q') = Append(Contents(q), val[t])
      BY <2>2, <3>1, PutAppends
    <3>3. Len(Contents(q)) < Capacity
      BY <2>2, <3>1, ContentsIsSeq, CapacityAssumption DEF queue_full, Queue
    <3>4. Fifo!Put(t)
      BY <3>1, <3>2, <3>3 DEF Fifo!Put
    <3> QED BY <3>4 DEF Fifo!Next
  <2>4. CASE PgetRemove(t)
    <3>1. ~ queue_empty(q) /\ q' = queue_get(q) /\ val' = [val EXCEPT ![t] = queue_get_result(q)]
      BY <2>4 DEF PgetRemove
    <3>2. /\ Contents(q) # <<>> /\ Contents(q') = Tail(Contents(q))
          /\ queue_get_result(q) = Head(Contents(q))
      BY <2>2, <3>1, GetTakesHead
    <3>3. Fifo!Get(t)
      BY <3>1, <3>2, Zenon DEF Fifo!Get
    <3> QED BY <3>3 DEF Fifo!Next
  <2>5. CASE CallPput(t)
    <3>1. PICK v \in Value : val' = [val EXCEPT ![t] = v]
      BY <2>5 DEF CallPput
    <3>2. val' = [val EXCEPT ![t] = val'[t]] /\ q' = q
      BY <2>5, <3>1 DEF CallPput, IInv, TypeOK
    <3>3. Fifo!Think(t)
      BY <3>2, Zenon DEF Fifo!Think
    <3> QED BY <3>3 DEF Fifo!Next
  <2>6. CASE Acquire(t) \/ Sleep(t) \/ Wake(t) \/ Release(t) \/ SpuriousWakeup(t) \/ CallPget(t) \/ Return(t) \/ End(t)
    <3>1. q' = q /\ val' = val
      BY <2>6, Zenon DEF Acquire, Lock, Reacquire, Sleep, PputWait, PgetWait, CondWait, Wake, Broadcast,
                  Release, Unlock, SpuriousWakeup, CallPget, Return, End
    <3> QED BY <3>1 DEF Fifo!vars
  <2> QED BY <2>1, <2>3, <2>4, <2>5, <2>6 DEF Caller
<1>2. CASE UNCHANGED pqVars
  BY <1>2 DEF pqVars, Fifo!vars
<1> QED BY <1>1, <1>2

\* Every behaviour of the protected queue is one of a first-in first-out channel
\* that holds at most Capacity items: nothing is lost, duplicated or overtaken.
THEOREM Refinement == Spec => ImplementsFifo
<1>1. Init => Fifo!Init
  BY FifoInit
<1>2. IInv /\ [Next]_pqVars => [Fifo!Next]_Fifo!vars
  BY FifoStep
<1> QED BY <1>1, <1>2, Invariant, PTL DEF Spec, ImplementsFifo, Fifo!Spec
=============================================================================
