------------------------- MODULE ProcessQueueProofs -------------------------
(***************************************************************************)
(* The process queue of week5 for every set of processes, every priorities *)
(* and any number of nodes: its pointers always make up the list they      *)
(* should, no call leaks a node, the search finds the right process, and   *)
(* the whole implements the queue with removal by priority.                *)
(***************************************************************************)
EXTENDS ProcessQueue, SequenceTheorems, TLAPS

\* The inductive invariant.  That a new node is not in the list yet is HeapIsList; that the
\* node taken out is in the list, and which place it has, is BestSoFar.
IInv == TypeOK /\ ListWellFormed /\ HeapIsList /\ BestSoFar

-----------------------------------------------------------------------------
\* What taking out the k-th element of a sequence leaves.
LEMMA WithoutElement ==
    ASSUME NEW S, NEW s \in Seq(S), NEW k \in 1 .. Len(s)
    PROVE  /\ Abstract!Without(s, k) \in Seq(S)
           /\ Len(Abstract!Without(s, k)) = Len(s) - 1
           /\ \A i \in 1 .. Len(s) - 1 :
                 Abstract!Without(s, k)[i] = IF i < k THEN s[i] ELSE s[i + 1]
<1> DEFINE t == Abstract!Without(s, k)
<1>1. Len(s) \in Nat /\ Len(s) - 1 \in Nat
  OBVIOUS
<1>2. t = [i \in 1 .. Len(s) - 1 |-> IF i < k THEN s[i] ELSE s[i + 1]]
  BY DEF Abstract!Without
<1>3. \A i \in 1 .. Len(s) - 1 : (IF i < k THEN s[i] ELSE s[i + 1]) \in S
  BY <1>1
<1>4. t \in [1 .. Len(s) - 1 -> S]
  BY <1>2, <1>3
<1>5. t \in Seq(S) /\ Len(t) = Len(s) - 1
  BY <1>1, <1>4, IsASeq, LenProperties
<1> QED BY <1>2, <1>5

\* The part of ListWellFormed that is about the nodes of the list.
Chain ==
    \A i \in 1 .. Len(order) :
        /\ next[order[i]] = IF i = Len(order) THEN NULL ELSE order[i + 1]
        /\ prev[order[i]] = IF i = 1 THEN NULL ELSE order[i - 1]
        /\ data[order[i]] \in Procs
        /\ \A j \in 1 .. Len(order) : order[i] = order[j] => i = j

Ends ==
    /\ queue = NULL => order = <<>>
    /\ queue # NULL =>
          /\ size = Len(order)
          /\ head = IF Len(order) = 0 THEN NULL ELSE order[1]
          /\ tail = IF Len(order) = 0 THEN NULL ELSE order[Len(order)]

\* ListWellFormed is about the ends of the list and about its nodes.
LEMMA ListParts == ListWellFormed <=> Ends /\ Chain
BY DEF ListWellFormed, Ends, Chain

\* Between calls the heap is the list.
LEMMA HeapBetweenCalls ==
    ASSUME TypeOK, HeapIsList, pc # "destroy"
    PROVE  allocated = {order[i] : i \in 1 .. Len(order)}
BY DEF HeapIsList

-----------------------------------------------------------------------------
\* Without a queue there is nothing to be wrong.
LEMMA InitIInv == Init => IInv
<1> SUFFICES ASSUME Init PROVE IInv
  OBVIOUS
<1>1. Len(order) = 0 /\ order \in Seq(Nodes)
  BY DEF Init
<1>2. TypeOK
  BY <1>1 DEF Init, TypeOK, Pointers, Elements
<1>3. ListWellFormed
  BY <1>1 DEF Init, ListWellFormed
<1>4. HeapIsList
  BY <1>1 DEF Init, HeapIsList
<1>5. BestSoFar
  BY DEF Init, BestSoFar
<1> QED BY <1>2, <1>3, <1>4, <1>5 DEF IInv

-----------------------------------------------------------------------------
\* Taking out the k-th node, as remove_process does it: the pointers around it and the
\* ends of the list are mended, wherever in the list it is.
LEMMA Removal ==
    ASSUME IInv, queue # NULL, pc # "destroy", NEW k \in 1 .. Len(order),
           Unlink(order[k]), FreeNode(order[k]), queue' = queue, data' = data
    PROVE  /\ order' = Abstract!Without(order, k)
           /\ order' \in Seq(Nodes) /\ size' \in Nat
           /\ head' \in Pointers /\ tail' \in Pointers
           /\ next' \in [Nodes -> Pointers] /\ prev' \in [Nodes -> Pointers]
           /\ ListWellFormed'
           /\ allocated' = {order'[i] : i \in 1 .. Len(order')}
           /\ allocated' \subseteq Nodes
<1> DEFINE n == Len(order)
           b == order[k]
           o == Abstract!Without(order, k)
<1>1. /\ order \in Seq(Nodes) /\ n \in Nat /\ k \in Nat /\ k >= 1 /\ k <= n
      /\ \A i \in 1 .. n : order[i] \in Nodes
      /\ NULL \notin Nodes
  BY ProcessQueueAssumption DEF IInv, TypeOK
<1>2. Chain /\ Ends
  BY ListParts DEF IInv
<1>3. \A i, j \in 1 .. n : order[i] = order[j] => i = j
  BY <1>2 DEF Chain
<1>4. order' = o
  BY <1>1, <1>3 DEF FreeNode
<1>5. /\ o \in Seq(Nodes) /\ Len(o) = n - 1
      /\ \A i \in 1 .. n - 1 : o[i] = IF i < k THEN order[i] ELSE order[i + 1]
  BY <1>1, WithoutElement
<1>6. /\ next[b] = IF k = n THEN NULL ELSE order[k + 1]
      /\ prev[b] = IF k = 1 THEN NULL ELSE order[k - 1]
  BY <1>2 DEF Chain
<1>7. /\ next' = [m \in Nodes |-> IF m = prev[b] THEN next[b] ELSE next[m]]
      /\ prev' = [m \in Nodes |-> IF m = next[b] THEN prev[b] ELSE prev[m]]
      /\ head' = IF prev[b] = NULL THEN next[b] ELSE head
      /\ tail' = IF next[b] = NULL THEN prev[b] ELSE tail
  BY DEF Unlink
<1>8. /\ next[b] \in Pointers /\ prev[b] \in Pointers
      /\ head \in Pointers /\ tail \in Pointers
      /\ next \in [Nodes -> Pointers] /\ prev \in [Nodes -> Pointers]
  BY <1>1 DEF IInv, TypeOK, Pointers
<1>9. /\ head' \in Pointers /\ tail' \in Pointers
      /\ next' \in [Nodes -> Pointers] /\ prev' \in [Nodes -> Pointers]
  BY <1>7, <1>8
<1>10. size = n /\ size' = n - 1 /\ size' \in Nat
  BY <1>1, <1>2 DEF Ends, FreeNode
<1>11. Ends'
  <2>1. CASE n = 1
    BY <1>1, <1>2, <1>4, <1>5, <1>6, <1>7, <1>10, <2>1 DEF Ends
  <2>2. CASE n # 1
    <3>1. head' = o[1]
      BY <1>1, <1>2, <1>5, <1>6, <1>7, <2>2 DEF Ends
    <3>2. tail' = o[n - 1]
      BY <1>1, <1>2, <1>5, <1>6, <1>7, <2>2 DEF Ends
    <3> QED BY <1>1, <1>4, <1>5, <1>10, <2>2, <3>1, <3>2 DEF Ends
  <2> QED BY <2>1, <2>2, Zenon
<1>12. Chain'
  <2> SUFFICES ASSUME NEW i \in 1 .. n - 1
               PROVE  /\ next'[o[i]] = IF i = n - 1 THEN NULL ELSE o[i + 1]
                      /\ prev'[o[i]] = IF i = 1 THEN NULL ELSE o[i - 1]
                      /\ data[o[i]] \in Procs
                      /\ \A j \in 1 .. n - 1 : o[i] = o[j] => i = j
    BY <1>4, <1>5 DEF Chain
  <2> DEFINE c == IF i < k THEN i ELSE i + 1
  <2>1. c \in 1 .. n /\ c # k /\ o[i] = order[c] /\ order[c] \in Nodes
    BY <1>1, <1>5
  <2>2. /\ next[order[c]] = IF c = n THEN NULL ELSE order[c + 1]
        /\ prev[order[c]] = IF c = 1 THEN NULL ELSE order[c - 1]
        /\ data[order[c]] \in Procs
    BY <1>2, <2>1 DEF Chain
  <2>3. next'[o[i]] = IF i = n - 1 THEN NULL ELSE o[i + 1]
    <3>1. CASE i = k - 1
      <4>1. o[i] = prev[b] /\ o[i] \in Nodes
        BY <1>1, <1>6, <2>1, <3>1
      <4>2. next'[o[i]] = next[b]
        BY <1>7, <4>1
      <4>3. k # n => o[k] = order[k + 1]
        BY <1>1, <1>5
      <4> QED BY <1>1, <1>6, <3>1, <4>2, <4>3
    <3>2. CASE i # k - 1
      <4>1. order[c] # prev[b]
        BY <1>1, <1>3, <1>6, <2>1, <3>2
      <4>2. next'[o[i]] = next[order[c]]
        BY <1>7, <2>1, <4>1
      <4>3. (c = n) <=> (i = n - 1)
        BY <1>1, <3>2
      <4>4. i # n - 1 => o[i + 1] = order[c + 1]
        BY <1>1, <1>5, <3>2
      <4> QED BY <2>2, <4>2, <4>3, <4>4
    <3> QED BY <3>1, <3>2
  <2>4. prev'[o[i]] = IF i = 1 THEN NULL ELSE o[i - 1]
    <3>1. CASE i = k
      <4>1. o[i] = next[b] /\ o[i] \in Nodes
        BY <1>1, <1>6, <2>1, <3>1
      <4>2. prev'[o[i]] = prev[b]
        BY <1>7, <4>1
      <4>3. k # 1 => o[k - 1] = order[k - 1]
        BY <1>1, <1>5
      <4> QED BY <1>1, <1>6, <3>1, <4>2, <4>3
    <3>2. CASE i # k
      <4>1. order[c] # next[b]
        BY <1>1, <1>3, <1>6, <2>1, <3>2
      <4>2. prev'[o[i]] = prev[order[c]]
        BY <1>7, <2>1, <4>1
      <4>3. (c = 1) <=> (i = 1)
        BY <1>1, <3>2
      <4>4. i # 1 => o[i - 1] = order[c - 1]
        BY <1>1, <1>5, <3>2
      <4> QED BY <2>2, <4>2, <4>3, <4>4
    <3> QED BY <3>1, <3>2
  <2>5. \A j \in 1 .. n - 1 : o[i] = o[j] => i = j
    <3> TAKE j \in 1 .. n - 1
    <3> DEFINE d == IF j < k THEN j ELSE j + 1
    <3>1. d \in 1 .. n /\ o[j] = order[d]
      BY <1>1, <1>5
    <3>2. o[i] = o[j] => c = d
      BY <1>3, <2>1, <3>1
    <3>3. c = d => i = j
      BY <1>1
    <3> QED BY <3>2, <3>3
  <2> QED BY <2>1, <2>2, <2>3, <2>4, <2>5
<1>13. allocated' = {o[i] : i \in 1 .. n - 1}
  <2>1. allocated = {order[i] : i \in 1 .. n} /\ allocated' = allocated \ {b}
    BY HeapBetweenCalls DEF IInv, FreeNode
  <2>2. \A i \in 1 .. n - 1 : o[i] \in allocated'
    <3> TAKE i \in 1 .. n - 1
    <3> DEFINE c == IF i < k THEN i ELSE i + 1
    <3>1. c \in 1 .. n /\ c # k
      BY <1>1
    <3>2. o[i] = order[c]
      BY <1>5
    <3>3. order[c] \in allocated /\ order[c] # b
      BY <1>3, <2>1, <3>1
    <3> QED BY <2>1, <3>2, <3>3
  <2>3. ASSUME NEW x \in allocated' PROVE \E i \in 1 .. n - 1 : x = o[i]
    <3>1. PICK j \in 1 .. n : x = order[j] /\ j # k
      BY <2>1, <2>3
    <3>2. CASE j < k
      BY <1>1, <1>5, <3>1, <3>2
    <3>3. CASE j > k
      <4>1. j - 1 \in 1 .. n - 1 /\ x = o[j - 1]
        BY <1>1, <1>5, <3>1, <3>3
      <4> QED BY <4>1
    <3> QED BY <3>1, <3>2, <3>3
  <2> QED BY <2>2, <2>3
<1>14. ListWellFormed'
  BY <1>11, <1>12 DEF ListWellFormed, Ends, Chain
<1> QED BY <1>4, <1>5, <1>9, <1>10, <1>13, <1>14

-----------------------------------------------------------------------------
\* A step that leaves the list, the heap and the loops alone keeps the invariant.
LEMMA OnlyResult ==
    ASSUME IInv, UNCHANGED <<queue, fields, links, allocated, pc, locals, order>>,
           result'.value \in Elements \cup Nat
    PROVE  IInv'
<1> USE DEF fields, links, locals
<1>1. TypeOK'
  BY DEF IInv, TypeOK, Pointers, Elements
<1>2. ListWellFormed'
  BY DEF IInv, ListWellFormed
<1>3. HeapIsList'
  BY DEF IInv, HeapIsList
<1>4. BestSoFar'
  BY DEF IInv, BestSoFar
<1> QED BY <1>1, <1>2, <1>3, <1>4 DEF IInv

\* create_queue keeps the invariant: there was no queue, so the list is empty.
LEMMA CreateKeeps == ASSUME IInv, create_queue PROVE IInv'
<1> USE DEF fields, links, locals
<1>1. /\ order = <<>> /\ Len(order) = 0 /\ order \in Seq(Nodes)
      /\ pc = "idle" /\ pc' = "idle" /\ order' = order /\ allocated' = allocated
  BY DEF IInv, TypeOK, ListWellFormed, create_queue
<1>2. TypeOK'
  BY DEF IInv, TypeOK, Pointers, Elements, create_queue, Returns
<1>3. ListWellFormed'
  BY <1>1 DEF IInv, ListWellFormed, create_queue
<1>4. HeapIsList'
  BY <1>1 DEF IInv, HeapIsList
<1>5. BestSoFar'
  BY <1>1 DEF BestSoFar
<1> QED BY <1>2, <1>3, <1>4, <1>5 DEF IInv

\* push_queue keeps the invariant: the new node is not in the list yet and its prev is
\* the old tail, whose next is the new node.
LEMMA PushKeeps == ASSUME IInv, NEW p \in Procs, push_queue(p) PROVE IInv'
<1> USE DEF fields, links, locals
<1> DEFINE n == Len(order)
<1>1. CASE UNCHANGED <<fields, links, allocated, order>>
  BY <1>1, OnlyResult DEF push_queue, Returns, Elements
<1>2. ASSUME queue # NULL, NEW x \in Nodes \ allocated,
             allocated' = allocated \cup {x}, LinkNew(x, p), order' = Append(order, x),
             size' = size + 1
      PROVE  IInv'
  <2>1. /\ order \in Seq(Nodes) /\ n \in Nat
        /\ \A i \in 1 .. n : order[i] \in Nodes
        /\ NULL \notin Nodes /\ x \in Nodes /\ p \in Elements
        /\ pc = "idle" /\ pc' = "idle" /\ queue' = queue
    BY ProcessQueueAssumption DEF IInv, TypeOK, push_queue, Elements
  <2>2. Chain /\ Ends
    BY ListParts DEF IInv
  <2>3. allocated = {order[i] : i \in 1 .. n}
    BY <2>1, HeapBetweenCalls DEF IInv
  <2>4. \A i \in 1 .. n : order[i] # x
    BY <2>3
  <2>5. /\ order' \in Seq(Nodes) /\ Len(order') = n + 1
        /\ \A i \in 1 .. n : order'[i] = order[i]
        /\ order'[n + 1] = x
    BY <1>2, <2>1
  <2>6. /\ data' = [data EXCEPT ![x] = p]
        /\ prev' = [prev EXCEPT ![x] = tail]
        /\ next' = [m \in Nodes |-> IF m = x THEN NULL ELSE IF m = tail THEN x ELSE next[m]]
        /\ head' = IF tail = NULL THEN x ELSE head
        /\ tail' = x
    BY <1>2 DEF LinkNew
  <2>7. /\ size = n
        /\ head = IF n = 0 THEN NULL ELSE order[1]
        /\ tail = IF n = 0 THEN NULL ELSE order[n]
    BY <1>2, <2>2 DEF Ends
  <2>8. TypeOK'
    <3>1. data' \in [Nodes -> Elements] /\ prev' \in [Nodes -> Pointers]
      BY <2>1, <2>6 DEF IInv, TypeOK
    <3>2. next' \in [Nodes -> Pointers] /\ head' \in Pointers /\ tail' \in Pointers
      BY <2>1, <2>6 DEF IInv, TypeOK, Pointers
    <3> QED BY <1>2, <2>1, <2>5, <3>1, <3>2
        DEF IInv, TypeOK, push_queue, Returns, Elements, Pointers
  <2>9. Ends'
    <3>1. size' = n + 1 /\ tail' = order'[n + 1]
      BY <1>2, <2>5, <2>6, <2>7
    <3>2. head' = order'[1]
      BY <2>1, <2>5, <2>6, <2>7
    <3> QED BY <1>2, <2>1, <2>5, <3>1, <3>2 DEF Ends
  <2>10. Chain'
    <3> SUFFICES ASSUME NEW i \in 1 .. n + 1
                 PROVE  /\ next'[order'[i]] = IF i = n + 1 THEN NULL ELSE order'[i + 1]
                        /\ prev'[order'[i]] = IF i = 1 THEN NULL ELSE order'[i - 1]
                        /\ data'[order'[i]] \in Procs
                        /\ \A j \in 1 .. n + 1 : order'[i] = order'[j] => i = j
      BY <2>5 DEF Chain
    <3>1. CASE i = n + 1
      <4>1. next'[x] = NULL /\ data'[x] = p /\ prev'[x] = tail
        BY <2>1, <2>6 DEF IInv, TypeOK
      <4>2. tail = IF i = 1 THEN NULL ELSE order'[i - 1]
        BY <2>1, <2>5, <2>7, <3>1
      <4>3. \A j \in 1 .. n + 1 : x = order'[j] => i = j
        BY <2>1, <2>4, <2>5, <3>1
      <4> QED BY <2>5, <3>1, <4>1, <4>2, <4>3
    <3>2. CASE i # n + 1
      <4>1. i \in 1 .. n /\ order'[i] = order[i] /\ order[i] \in Nodes /\ order[i] # x
        BY <2>1, <2>4, <2>5, <3>2
      <4>2. /\ next[order[i]] = IF i = n THEN NULL ELSE order[i + 1]
            /\ prev[order[i]] = IF i = 1 THEN NULL ELSE order[i - 1]
            /\ data[order[i]] \in Procs
            /\ \A j \in 1 .. n : order[i] = order[j] => i = j
        BY <2>2, <4>1 DEF Chain
      <4>3. data'[order'[i]] \in Procs /\ prev'[order'[i]] = prev[order[i]]
        BY <2>1, <2>6, <4>1, <4>2 DEF IInv, TypeOK
      <4>4. prev'[order'[i]] = IF i = 1 THEN NULL ELSE order'[i - 1]
        BY <2>1, <2>5, <4>1, <4>2, <4>3
      <4>5. next'[order'[i]] = order'[i + 1]
        <5>1. CASE i = n
          BY <2>1, <2>5, <2>6, <2>7, <4>1, <5>1
        <5>2. CASE i # n
          <6>1. order[i] # tail
            BY <2>1, <2>7, <4>1, <4>2, <5>2
          <6>2. i + 1 \in 1 .. n
            BY <2>1, <4>1, <5>2
          <6> QED BY <2>5, <2>6, <4>1, <4>2, <5>2, <6>1, <6>2
        <5> QED BY <5>1, <5>2
      <4>6. \A j \in 1 .. n + 1 : order'[i] = order'[j] => i = j
        BY <2>1, <2>5, <4>1, <4>2
      <4> QED BY <3>2, <4>3, <4>4, <4>5, <4>6
    <3> QED BY <3>1, <3>2
  <2>11. ListWellFormed'
    BY <2>9, <2>10 DEF ListWellFormed, Ends, Chain
  <2>12. HeapIsList'
    <3>1. allocated' = {order'[i] : i \in 1 .. Len(order')}
      <4>1. \A y \in allocated' : \E i \in 1 .. n + 1 : y = order'[i]
        BY <1>2, <2>1, <2>3, <2>5
      <4>2. \A i \in 1 .. n + 1 : order'[i] \in allocated'
        BY <1>2, <2>1, <2>3, <2>5
      <4> QED BY <2>5, <4>1, <4>2
    <3>2. 1 \in 1 .. Len(order') + 1
      BY <2>1, <2>5
    <3> QED BY <2>1, <3>1, <3>2 DEF HeapIsList
  <2>13. BestSoFar'
    BY <2>1 DEF BestSoFar
  <2> QED BY <2>8, <2>11, <2>12, <2>13 DEF IInv
<1> QED BY <1>1, <1>2 DEF push_queue

-----------------------------------------------------------------------------
\* A call that has taken out the k-th node and returns keeps the invariant.
LEMMA RemovalKeeps ==
    ASSUME IInv, queue # NULL, pc # "destroy", NEW k \in 1 .. Len(order),
           Unlink(order[k]), FreeNode(order[k]), queue' = queue, data' = data,
           pc' = "idle", current' \in Pointers, best_node' \in Pointers,
           best_proc' \in Elements, result'.value \in Elements
    PROVE  IInv'
<1>1. /\ order' \in Seq(Nodes) /\ size' \in Nat
      /\ head' \in Pointers /\ tail' \in Pointers
      /\ next' \in [Nodes -> Pointers] /\ prev' \in [Nodes -> Pointers]
      /\ ListWellFormed'
      /\ allocated' = {order'[i] : i \in 1 .. Len(order')}
      /\ allocated' \subseteq Nodes
  BY Removal
<1>2. queue \in {Q, NULL} /\ data \in [Nodes -> Elements]
  BY DEF IInv, TypeOK
<1>3. TypeOK'
  BY <1>1, <1>2 DEF TypeOK, Pointers, Elements
<1>4. HeapIsList'
  <2>1. 1 \in 1 .. Len(order') + 1
    BY <1>1
  <2> QED BY <1>1, <2>1 DEF HeapIsList
<1>5. BestSoFar'
  BY DEF BestSoFar
<1> QED BY <1>1, <1>3, <1>4, <1>5 DEF IInv

\* pop_queue with a node to take takes out the first one.
LEMMA PopIsRemoval ==
    ASSUME IInv, pop_queue, queue # NULL, head # NULL
    PROVE  /\ 1 \in 1 .. Len(order) /\ head = order[1] /\ data[order[1]] \in Procs
           /\ Unlink(order[1]) /\ FreeNode(order[1])
<1>1. /\ order \in Seq(Nodes) /\ Len(order) \in Nat
      /\ next \in [Nodes -> Pointers] /\ NULL \notin Nodes
  BY ProcessQueueAssumption DEF IInv, TypeOK
<1>2. Chain /\ Ends
  BY ListParts DEF IInv
<1>3. 1 \in 1 .. Len(order) /\ head = order[1]
  BY <1>1, <1>2 DEF Ends
<1>4. prev[order[1]] = NULL /\ data[order[1]] \in Procs
  BY <1>2, <1>3 DEF Chain
<1>5. next = [m \in Nodes |-> IF m = prev[order[1]] THEN next[order[1]] ELSE next[m]]
  BY <1>1, <1>4
<1> QED BY <1>3, <1>4, <1>5 DEF pop_queue, Unlink

\* pop_queue keeps the invariant.
LEMMA PopKeeps == ASSUME IInv, pop_queue PROVE IInv'
<1> USE DEF fields, links, locals
<1>1. CASE queue = NULL \/ head = NULL
  BY <1>1, OnlyResult DEF pop_queue, Returns, Elements
<1>2. CASE queue # NULL /\ head # NULL
  <2>1. /\ 1 \in 1 .. Len(order) /\ head = order[1] /\ data[order[1]] \in Procs
        /\ Unlink(order[1]) /\ FreeNode(order[1])
    BY <1>2, PopIsRemoval
  <2>2. /\ pc = "idle" /\ pc' = "idle" /\ queue' = queue /\ data' = data
        /\ current' \in Pointers /\ best_node' \in Pointers /\ best_proc' \in Elements
        /\ result'.value \in Elements
    BY <1>2, <2>1 DEF pop_queue, Returns, IInv, TypeOK, Elements
  <2> QED BY <1>2, <2>1, <2>2, RemovalKeeps
<1> QED BY <1>1, <1>2

\* The search of remove_process starts at the head with the head as the best.
LEMMA RemoveStartKeeps == ASSUME IInv, RemoveStart PROVE IInv'
<1> USE DEF fields, links, locals
<1>1. CASE queue = NULL \/ head = NULL
  BY <1>1, OnlyResult DEF RemoveStart, Returns, Elements
<1>2. CASE queue # NULL /\ head # NULL
  <2>1. /\ current' = head /\ best_node' = head /\ best_proc' = data[head]
        /\ pc = "idle" /\ pc' = "scan" /\ result' = result
        /\ UNCHANGED <<queue, fields, links, allocated, order>>
    BY <1>2 DEF RemoveStart
  <2>2. /\ order \in Seq(Nodes) /\ Len(order) \in Nat /\ head \in Nodes
        /\ data[head] \in Elements
    BY <1>2 DEF IInv, TypeOK, Pointers
  <2>3. head = order[1] /\ 1 \in 1 .. Len(order)
    BY <1>2, <2>2, ListParts DEF IInv, Ends
  <2>4. TypeOK'
    BY <2>1, <2>2 DEF IInv, TypeOK, Pointers, Elements
  <2>5. ListWellFormed'
    BY <2>1 DEF IInv, ListWellFormed
  <2>6. HeapIsList'
    BY <2>1, <2>2 DEF IInv, HeapIsList
  <2>7. BestSoFar'
    <3>1. 1 \in 1 .. Len(order) + 1 /\ ~ (1 > Len(order))
      BY <2>2, <2>3
    <3> QED BY <2>1, <2>3, <3>1 DEF BestSoFar
  <2> QED BY <2>4, <2>5, <2>6, <2>7 DEF IInv
<1> QED BY <1>1, <1>2

\* A turn of the search keeps best_node the first of the best so far.
LEMMA RemoveScanKeeps == ASSUME IInv, RemoveScan PROVE IInv'
<1> USE DEF fields, links, locals
<1> DEFINE n == Len(order)
<1>1. /\ pc = "scan" /\ pc' = "scan" /\ current # NULL /\ current' = next[current]
      /\ UNCHANGED <<queue, fields, links, allocated, result, order>>
  BY DEF RemoveScan
<1>2. PICK k \in 1 .. n + 1, b \in 1 .. n :
        /\ current = IF k > n THEN NULL ELSE order[k]
        /\ best_node = order[b] /\ best_proc = data[order[b]]
        /\ k > 1 => b < k
        /\ k = 1 => b = 1
        /\ \A i \in 1 .. k - 1 : priority[data[order[i]]] <= priority[best_proc]
        /\ \A i \in 1 .. b - 1 : priority[data[order[i]]] < priority[best_proc]
  BY <1>1 DEF IInv, BestSoFar
<1>3. /\ order \in Seq(Nodes) /\ n \in Nat /\ k \in Nat /\ b \in Nat
      /\ k >= 1 /\ k <= n /\ b >= 1 /\ b <= n /\ current = order[k]
  BY <1>1, <1>2 DEF IInv, TypeOK
<1>4. /\ Chain
      /\ \A i \in 1 .. n : data[order[i]] \in Procs /\ order[i] \in Nodes
      /\ \A i \in 1 .. n : priority[data[order[i]]] \in Int
  BY <1>3, ListParts, ProcessQueueAssumption DEF IInv, Chain
<1>5. next[current] = IF k = n THEN NULL ELSE order[k + 1]
  BY <1>3, <1>4 DEF Chain
<1>6. /\ k + 1 \in 1 .. n + 1
      /\ current' = IF k + 1 > n THEN NULL ELSE order[k + 1]
  BY <1>1, <1>3, <1>5
<1>7. /\ data[current] \in Procs /\ current \in Nodes
      /\ next[current] \in Pointers
  BY <1>3, <1>4 DEF IInv, TypeOK
<1>8. TypeOK'
  BY <1>1, <1>7 DEF IInv, TypeOK, RemoveScan, Pointers, Elements
<1>9. ListWellFormed'
  BY <1>1 DEF IInv, ListWellFormed
<1>10. HeapIsList'
  BY <1>1 DEF IInv, HeapIsList
<1>11. BestSoFar'
  <2>1. CASE Better(data[current])
    <3>1. best_node' = order[k] /\ best_proc' = data[order[k]]
      BY <1>3, <2>1 DEF RemoveScan
    <3>2. priority[data[order[k]]] > priority[best_proc]
      BY <1>3, <2>1 DEF Better
    <3>3. \A i \in 1 .. k - 1 : priority[data[order[i]]] < priority[data[order[k]]]
      BY <1>2, <1>3, <1>4, <3>2
    <3>4. \A i \in 1 .. k : priority[data[order[i]]] <= priority[data[order[k]]]
      BY <1>3, <1>4, <3>3
    <3>5. k \in 1 .. n /\ k < k + 1 /\ ~ (k + 1 = 1) /\ (k + 1) - 1 = k
      BY <1>3
    <3>6. /\ k + 1 \in 1 .. Len(order') + 1 /\ k \in 1 .. Len(order')
          /\ current' = IF k + 1 > Len(order') THEN NULL ELSE order'[k + 1]
          /\ best_node' = order'[k] /\ best_proc' = data'[order'[k]]
          /\ k + 1 > 1 => k < k + 1
          /\ k + 1 = 1 => k = 1
          /\ \A i \in 1 .. (k + 1) - 1 :
                priority[data'[order'[i]]] <= priority[best_proc']
          /\ \A i \in 1 .. k - 1 : priority[data'[order'[i]]] < priority[best_proc']
      BY <1>1, <1>6, <3>1, <3>3, <3>4, <3>5
    <3> QED BY <3>6 DEF BestSoFar
  <2>2. CASE ~ Better(data[current])
    <3>1. best_node' = best_node /\ best_proc' = best_proc
      BY <2>2 DEF RemoveScan
    <3>2. priority[data[order[k]]] <= priority[best_proc]
      BY <1>2, <1>3, <1>4, <2>2 DEF Better
    <3>3. \A i \in 1 .. k : priority[data[order[i]]] <= priority[best_proc]
      BY <1>2, <1>3, <3>2
    <3>4. b < k + 1 /\ ~ (k + 1 = 1) /\ (k + 1) - 1 = k
      BY <1>2, <1>3
    <3>5. /\ k + 1 \in 1 .. Len(order') + 1 /\ b \in 1 .. Len(order')
          /\ current' = IF k + 1 > Len(order') THEN NULL ELSE order'[k + 1]
          /\ best_node' = order'[b] /\ best_proc' = data'[order'[b]]
          /\ k + 1 > 1 => b < k + 1
          /\ k + 1 = 1 => b = 1
          /\ \A i \in 1 .. (k + 1) - 1 :
                priority[data'[order'[i]]] <= priority[best_proc']
          /\ \A i \in 1 .. b - 1 : priority[data'[order'[i]]] < priority[best_proc']
      BY <1>1, <1>2, <1>6, <3>1, <3>3, <3>4
    <3> QED BY <3>5 DEF BestSoFar
  <2> QED BY <2>1, <2>2
<1> QED BY <1>8, <1>9, <1>10, <1>11 DEF IInv

\* When the search is over, best_node is the oldest of those with the highest priority.
LEMMA SearchFinds ==
    ASSUME IInv, pc = "scan", current = NULL
    PROVE  \E b \in 1 .. Len(order) :
              /\ best_node = order[b] /\ best_proc = data[order[b]]
              /\ \A i \in 1 .. b - 1 : priority[data[order[i]]] < priority[data[order[b]]]
              /\ \A i \in 1 .. Len(order) :
                    priority[data[order[i]]] <= priority[data[order[b]]]
<1> DEFINE n == Len(order)
<1>1. PICK k \in 1 .. n + 1, b \in 1 .. n :
        /\ current = IF k > n THEN NULL ELSE order[k]
        /\ best_node = order[b] /\ best_proc = data[order[b]]
        /\ \A i \in 1 .. k - 1 : priority[data[order[i]]] <= priority[best_proc]
        /\ \A i \in 1 .. b - 1 : priority[data[order[i]]] < priority[best_proc]
  BY DEF IInv, BestSoFar
<1>2. order \in Seq(Nodes) /\ n \in Nat /\ NULL \notin Nodes
  BY ProcessQueueAssumption DEF IInv, TypeOK
<1>3. k > n
  BY <1>1, <1>2
<1>4. k - 1 = n
  BY <1>2, <1>3
<1> QED BY <1>1, <1>4

\* A search has a queue with a node in it.
LEMMA ListHasQueue ==
    ASSUME IInv, NEW b \in 1 .. Len(order)
    PROVE  queue # NULL
BY ListParts DEF IInv, TypeOK, Ends

\* Taking out what the search has found keeps the invariant.
LEMMA RemoveUnlinkKeeps == ASSUME IInv, RemoveUnlink PROVE IInv'
<1>1. PICK b \in 1 .. Len(order) : best_node = order[b] /\ best_proc = data[order[b]]
  BY SearchFinds DEF RemoveUnlink
<1>2. queue # NULL /\ best_proc \in Elements
  BY ListHasQueue DEF IInv, TypeOK
<1>3. /\ pc = "scan" /\ Unlink(order[b]) /\ FreeNode(order[b])
      /\ queue' = queue /\ data' = data /\ pc' = "idle"
      /\ current' \in Pointers /\ best_node' \in Pointers /\ best_proc' \in Elements
      /\ result'.value \in Elements
  BY <1>1, <1>2 DEF RemoveUnlink, Leave, Returns, Pointers, Elements
<1> QED BY <1>2, <1>3, RemovalKeeps

\* get_queue_size keeps the invariant.
LEMMA SizeKeeps == ASSUME IInv, get_queue_size PROVE IInv'
<1>1. result'.value \in Elements \cup Nat
  BY DEF get_queue_size, Returns, IInv, TypeOK
<1> QED BY <1>1, OnlyResult DEF get_queue_size

\* destroy_queue starts with the whole list to free.
LEMMA DestroyStartKeeps == ASSUME IInv, DestroyStart PROVE IInv'
<1> USE DEF fields, links, locals
<1>1. CASE queue = NULL
  BY <1>1, OnlyResult DEF DestroyStart, Returns, Elements
<1>2. CASE queue # NULL
  <2>1. /\ current' = head /\ pc = "idle" /\ pc' = "destroy" /\ result' = result
        /\ UNCHANGED <<queue, fields, links, allocated, best_node, best_proc, order>>
    BY <1>2 DEF DestroyStart
  <2>2. order \in Seq(Nodes) /\ Len(order) \in Nat
    BY DEF IInv, TypeOK
  <2>3. head = IF 1 > Len(order) THEN NULL ELSE order[1]
    BY <1>2, <2>2, ListParts DEF IInv, Ends
  <2>4. TypeOK'
    BY <2>1 DEF IInv, TypeOK, Pointers, Elements
  <2>5. ListWellFormed'
    BY <2>1 DEF IInv, ListWellFormed
  <2>6. HeapIsList'
    <3>1. allocated = {order[i] : i \in 1 .. Len(order)}
      BY <2>1, HeapBetweenCalls DEF IInv
    <3>2. 1 \in 1 .. Len(order) + 1
      BY <2>2
    <3>3. /\ 1 \in 1 .. Len(order') + 1
          /\ allocated' = {order'[i] : i \in 1 .. Len(order')}
          /\ current' = IF 1 > Len(order') THEN NULL ELSE order'[1]
      BY <2>1, <2>3, <3>1, <3>2
    <3> QED BY <2>1, <3>3 DEF HeapIsList
  <2>7. BestSoFar'
    BY <2>1 DEF BestSoFar
  <2> QED BY <2>4, <2>5, <2>6, <2>7 DEF IInv
<1> QED BY <1>1, <1>2

\* A turn of destroy_queue frees the next node of the list, once.
LEMMA DestroyNodeKeeps == ASSUME IInv, DestroyNode PROVE IInv'
<1> USE DEF fields, links, locals
<1> DEFINE n == Len(order)
<1>1. /\ pc = "destroy" /\ pc' = "destroy" /\ current # NULL /\ current' = next[current]
      /\ allocated' = allocated \ {current}
      /\ UNCHANGED <<queue, fields, links, best_node, best_proc, result, order>>
  BY DEF DestroyNode
<1>2. PICK k \in 1 .. n + 1 :
        /\ allocated = {order[i] : i \in k .. n}
        /\ current = IF k > n THEN NULL ELSE order[k]
  BY <1>1 DEF IInv, HeapIsList
<1>3. /\ order \in Seq(Nodes) /\ n \in Nat /\ k \in Nat /\ k >= 1 /\ k <= n
      /\ current = order[k] /\ current \in Nodes
  BY <1>1, <1>2 DEF IInv, TypeOK
<1>4. Chain
  BY ListParts DEF IInv
<1>5. /\ k + 1 \in 1 .. n + 1
      /\ current' = IF k + 1 > n THEN NULL ELSE order[k + 1]
  BY <1>1, <1>3, <1>4 DEF Chain
<1>6. allocated' = {order[i] : i \in k + 1 .. n}
  <2>1. \A i \in 1 .. n : order[i] = order[k] => i = k
    BY <1>3, <1>4 DEF Chain
  <2>2. \A y \in allocated' : \E i \in k + 1 .. n : y = order[i]
    <3> TAKE y \in allocated'
    <3>1. PICK i \in k .. n : y = order[i] /\ i # k
      BY <1>1, <1>2, <1>3
    <3>2. i \in k + 1 .. n
      BY <1>3, <3>1
    <3> QED BY <3>1, <3>2
  <2>3. \A i \in k + 1 .. n : order[i] \in allocated'
    <3> TAKE i \in k + 1 .. n
    <3>1. i \in k .. n /\ i \in 1 .. n /\ i # k
      BY <1>3
    <3>2. order[i] \in allocated /\ order[i] # current
      BY <1>2, <1>3, <2>1, <3>1
    <3> QED BY <1>1, <3>2
  <2> QED BY <2>2, <2>3
<1>7. TypeOK'
  BY <1>1, <1>3 DEF IInv, TypeOK, Pointers, Elements
<1>8. ListWellFormed'
  BY <1>1 DEF IInv, ListWellFormed
<1>9. HeapIsList'
  <2>1. /\ k + 1 \in 1 .. Len(order') + 1
        /\ allocated' = {order'[i] : i \in k + 1 .. Len(order')}
        /\ current' = IF k + 1 > Len(order') THEN NULL ELSE order'[k + 1]
    BY <1>1, <1>5, <1>6
  <2> QED BY <1>1, <2>1 DEF HeapIsList
<1>10. BestSoFar'
  BY <1>1 DEF BestSoFar
<1> QED BY <1>7, <1>8, <1>9, <1>10 DEF IInv

\* At the end of destroy_queue no node is left on the heap.
LEMMA DestroyEndKeeps == ASSUME IInv, DestroyEnd PROVE IInv'
<1> USE DEF fields, links, locals
<1>1. /\ pc = "destroy" /\ current = NULL /\ queue' = NULL /\ order' = <<>> /\ pc' = "idle"
      /\ UNCHANGED <<fields, links, allocated>>
  BY DEF DestroyEnd, Leave
<1>2. PICK k \in 1 .. Len(order) + 1 :
        /\ allocated = {order[i] : i \in k .. Len(order)}
        /\ current = IF k > Len(order) THEN NULL ELSE order[k]
  BY <1>1 DEF IInv, HeapIsList
<1>3. order \in Seq(Nodes) /\ Len(order) \in Nat /\ NULL \notin Nodes
  BY ProcessQueueAssumption DEF IInv, TypeOK
<1>4. k > Len(order)
  BY <1>1, <1>2, <1>3
<1>5. allocated = {}
  BY <1>2, <1>3, <1>4
<1>6. TypeOK'
  BY <1>1 DEF IInv, TypeOK, DestroyEnd, Leave, Returns, Pointers, Elements
<1>7. ListWellFormed'
  BY <1>1 DEF ListWellFormed
<1>8. HeapIsList'
  <2>1. Len(order') = 0 /\ 1 \in 1 .. Len(order') + 1 /\ 1 .. Len(order') = {}
    BY <1>1
  <2>2. allocated' = {order'[i] : i \in 1 .. Len(order')}
    BY <1>1, <1>5, <2>1
  <2> QED BY <1>1, <2>1, <2>2 DEF HeapIsList
<1>9. BestSoFar'
  BY <1>1 DEF BestSoFar
<1> QED BY <1>6, <1>7, <1>8, <1>9 DEF IInv

\* Every step of the queue and every other step keep the invariant.
LEMMA NextKeeps == IInv /\ [Next]_pqVars => IInv'
<1> SUFFICES ASSUME IInv, [Next]_pqVars PROVE IInv'
  OBVIOUS
<1>1. CASE UNCHANGED pqVars
  BY <1>1, OnlyResult DEF pqVars, IInv, TypeOK
<1>2. CASE create_queue
  BY <1>2, CreateKeeps
<1>3. ASSUME NEW p \in Procs, push_queue(p) PROVE IInv'
  BY <1>3, PushKeeps
<1>4. CASE pop_queue
  BY <1>4, PopKeeps
<1>5. CASE remove_process
  BY <1>5, RemoveStartKeeps, RemoveScanKeeps, RemoveUnlinkKeeps DEF remove_process
<1>6. CASE get_queue_size
  BY <1>6, SizeKeeps
<1>7. CASE destroy_queue
  BY <1>7, DestroyStartKeeps, DestroyNodeKeeps, DestroyEndKeeps DEF destroy_queue
<1> QED BY <1>1, <1>2, <1>3, <1>4, <1>5, <1>6, <1>7 DEF Next

\* The invariant holds throughout, whatever is called and in whatever order.
THEOREM Invariance == SafetySpec => []IInv
BY InitIInv, NextKeeps, PTL DEF SafetySpec

\* The variables of the queue keep their types.
THEOREM TypeCorrect == SafetySpec => []TypeOK
<1>1. IInv => TypeOK
  BY DEF IInv
<1> QED BY <1>1, Invariance, PTL

\* However push_queue, pop_queue and remove_process have been mixed, for any number of
\* nodes: prev and next run through the same nodes in opposite order, size counts them,
\* and head and tail are the ends.
THEOREM ListCorrect == SafetySpec => []ListWellFormed
<1>1. IInv => ListWellFormed
  BY DEF IInv
<1> QED BY <1>1, Invariance, PTL

\* No call leaks a node, none is freed twice, and after destroy_queue none is left.
THEOREM NoLeak == SafetySpec => []HeapIsList
<1>1. IInv => HeapIsList
  BY DEF IInv
<1> QED BY <1>1, Invariance, PTL

\* The search of remove_process has at every turn the oldest of the best it has seen.
THEOREM SearchCorrect == SafetySpec => []BestSoFar
<1>1. IInv => BestSoFar
  BY DEF IInv
<1> QED BY <1>1, Invariance, PTL

-----------------------------------------------------------------------------
(* The list implements the queue with removal by priority.                 *)

\* The processes in the list, in its order.
Items == [i \in 1 .. Len(order) |-> data[order[i]]]

\* They are a sequence of processes, as long as the list.
LEMMA ItemsIsSeq ==
    ASSUME IInv
    PROVE  /\ Items \in Seq(Procs) /\ Len(Items) = Len(order) /\ Len(order) \in Nat
           /\ \A i \in 1 .. Len(order) : Items[i] = data[order[i]]
           /\ Items = <<>> <=> Len(order) = 0
<1>1. Len(order) \in Nat
  BY DEF IInv, TypeOK
<1>2. \A i \in 1 .. Len(order) : data[order[i]] \in Procs
  BY ListParts DEF IInv, Chain
<1>3. Items \in [1 .. Len(order) -> Procs]
  BY <1>2 DEF Items
<1>4. Items \in Seq(Procs) /\ Len(Items) = Len(order)
  BY <1>1, <1>3, <1>2, IsASeq, LenProperties DEF Items
<1>5. Items = <<>> <=> Len(order) = 0
  BY <1>1, <1>4, EmptySeq
<1> QED BY <1>1, <1>4, <1>5 DEF Items

\* Taking a node out of the list takes its process out of the sequence.
LEMMA ItemsWithout ==
    ASSUME IInv, NEW k \in 1 .. Len(order), order' = Abstract!Without(order, k), data' = data
    PROVE  Items' = Abstract!Without(Items, k)
<1> DEFINE n == Len(order)
<1>1. n \in Nat /\ order \in Seq(Nodes) /\ k \in Nat /\ k >= 1 /\ k <= n
  BY DEF IInv, TypeOK
<1>2. /\ Len(order') = n - 1
      /\ \A i \in 1 .. n - 1 : order'[i] = IF i < k THEN order[i] ELSE order[i + 1]
  BY <1>1, WithoutElement
<1>3. Items' = [i \in 1 .. n - 1 |-> data[order'[i]]]
  BY <1>2 DEF Items
<1>4. Abstract!Without(Items, k) = [i \in 1 .. n - 1 |-> IF i < k THEN Items[i] ELSE Items[i + 1]]
  BY ItemsIsSeq DEF Abstract!Without
<1>5. \A i \in 1 .. n - 1 : data[order'[i]] = IF i < k THEN Items[i] ELSE Items[i + 1]
  <2> TAKE i \in 1 .. n - 1
  <2>1. i \in 1 .. n /\ i + 1 \in 1 .. n
    BY <1>1
  <2>2. Items[i] = data[order[i]] /\ Items[i + 1] = data[order[i + 1]]
    BY <2>1, ItemsIsSeq
  <2> QED BY <1>2, <2>2
<1> QED BY <1>3, <1>4, <1>5

\* A step that leaves the list alone leaves the sequence alone.
LEMMA ItemsSame == ASSUME order' = order, data' = data PROVE Items' = Items
BY DEF Items

\* The new list is the new queue.
LEMMA AbstractInit == Init => Abstract!Init
<1> SUFFICES ASSUME Init PROVE Abstract!Init
  OBVIOUS
<1>1. IInv /\ Len(order) = 0
  BY InitIInv DEF Init
<1>2. Items = <<>>
  BY <1>1, ItemsIsSeq
<1> QED BY <1>2 DEF Init, Abstract!Init, Items

\* push_queue is Push, with or without memory for the node.
LEMMA PushImplements == ASSUME IInv, NEW p \in Procs, push_queue(p) PROVE Abstract!Push(p)
<1> USE DEF fields, links, locals
<1>1. CASE (queue = NULL \/ MallocFails) /\ UNCHANGED <<fields, links, allocated, order>>
  <2>1. Items' = Items
    BY <1>1, ItemsSame
  <2> QED BY <1>1, <2>1 DEF push_queue, Returns, Abstract!Push, Abstract!Returns, Items
<1>2. ASSUME queue # NULL, NEW x \in Nodes \ allocated, LinkNew(x, p), order' = Append(order, x)
      PROVE  Abstract!Push(p)
  <2> DEFINE n == Len(order)
  <2>1. /\ order \in Seq(Nodes) /\ n \in Nat /\ data \in [Nodes -> Elements] /\ x \in Nodes
        /\ \A i \in 1 .. n : order[i] \in Nodes /\ order[i] # x
    BY HeapBetweenCalls DEF IInv, TypeOK, push_queue
  <2>2. /\ Len(order') = n + 1 /\ order'[n + 1] = x
        /\ \A i \in 1 .. n : order'[i] = order[i]
        /\ data' = [data EXCEPT ![x] = p]
    BY <1>2, <2>1 DEF LinkNew
  <2>3. Items' = [i \in 1 .. n + 1 |-> data'[order'[i]]]
    BY <2>2 DEF Items
  <2>4. \A i \in 1 .. n + 1 : data'[order'[i]] = IF i = n + 1 THEN p ELSE data[order[i]]
    <3> TAKE i \in 1 .. n + 1
    <3>1. CASE i = n + 1
      BY <2>1, <2>2, <3>1
    <3>2. CASE i # n + 1
      <4>1. i \in 1 .. n
        BY <2>1, <3>2
      <4> QED BY <2>1, <2>2, <3>2, <4>1
    <3> QED BY <3>1, <3>2
  <2>5. Items \in Seq(Procs) /\ Len(Items) = n /\ \A i \in 1 .. n : Items[i] = data[order[i]]
    BY ItemsIsSeq
  <2>6. /\ Append(Items, p) \in Seq(Procs) /\ Len(Append(Items, p)) = n + 1
        /\ \A i \in 1 .. n + 1 : Append(Items, p)[i] = IF i = n + 1 THEN p ELSE data[order[i]]
    BY <2>1, <2>5
  <2>7. Items' = Append(Items, p)
    <3>1. Append(Items, p) = [i \in 1 .. n + 1 |-> Append(Items, p)[i]]
      BY <2>6, LenProperties
    <3> QED BY <2>3, <2>4, <2>6, <3>1
  <2> QED BY <1>2, <2>7 DEF push_queue, Returns, Abstract!Push, Abstract!Returns, Items
<1> QED BY <1>1, <1>2 DEF push_queue

\* pop_queue is Pop.
LEMMA PopImplements == ASSUME IInv, pop_queue PROVE Abstract!Pop
<1> USE DEF fields, links, locals
<1>1. CASE queue = NULL \/ head = NULL
  <2>1. Len(order) = 0
    <3>1. order \in Seq(Nodes) /\ NULL \notin Nodes
      BY ProcessQueueAssumption DEF IInv, TypeOK
    <3> QED BY <1>1, <3>1, ListParts DEF IInv, Ends
  <2>2. Items = <<>>
    BY <2>1, ItemsIsSeq
  <2>3. Items' = Items
    BY <1>1, ItemsSame DEF pop_queue
  <2> QED BY <1>1, <2>2, <2>3 DEF pop_queue, Returns, Abstract!Pop, Abstract!Returns, Items
<1>2. CASE queue # NULL /\ head # NULL
  <2>1. /\ 1 \in 1 .. Len(order) /\ head = order[1]
        /\ Unlink(order[1]) /\ FreeNode(order[1])
    BY <1>2, PopIsRemoval
  <2>2. pc # "destroy" /\ queue' = queue /\ data' = data /\ result' = [call |-> "pop", value |-> data[head]]
    BY <1>2 DEF pop_queue, Returns
  <2>3. order' = Abstract!Without(order, 1)
    BY <1>2, <2>1, <2>2, Removal
  <2>4. Items' = Abstract!Without(Items, 1)
    BY <2>1, <2>2, <2>3, ItemsWithout
  <2>5. Items # <<>> /\ Items[1] = data[head]
    BY <2>1, ItemsIsSeq
  <2> QED BY <2>2, <2>4, <2>5 DEF Abstract!Pop, Abstract!Returns, Items
<1> QED BY <1>1, <1>2

\* remove_process is RemoveHighest at its return; its search changes nothing.
LEMMA RemoveImplements ==
    ASSUME IInv, remove_process
    PROVE  Abstract!RemoveHighest \/ UNCHANGED Abstract!vars
<1> USE DEF fields, links, locals
<1>1. CASE RemoveStart /\ (queue = NULL \/ head = NULL)
  <2>1. Len(order) = 0
    <3>1. order \in Seq(Nodes) /\ NULL \notin Nodes
      BY ProcessQueueAssumption DEF IInv, TypeOK
    <3> QED BY <1>1, <3>1, ListParts DEF IInv, Ends
  <2>2. Items = <<>>
    BY <2>1, ItemsIsSeq
  <2>3. Items' = Items
    BY <1>1, ItemsSame DEF RemoveStart
  <2> QED BY <1>1, <2>2, <2>3
      DEF RemoveStart, Returns, Abstract!RemoveHighest, Abstract!Returns, Items
<1>2. CASE RemoveStart /\ ~ (queue = NULL \/ head = NULL)
  <2>1. queue' = queue /\ order' = order /\ data' = data /\ result' = result
    BY <1>2 DEF RemoveStart
  <2> QED BY <2>1 DEF Abstract!vars
<1>3. CASE RemoveScan
  <2>1. queue' = queue /\ order' = order /\ data' = data /\ result' = result
    BY <1>3 DEF RemoveScan
  <2> QED BY <2>1 DEF Abstract!vars
<1>4. CASE RemoveUnlink
  <2>1. PICK b \in 1 .. Len(order) :
          /\ best_node = order[b] /\ best_proc = data[order[b]]
          /\ \A i \in 1 .. b - 1 : priority[data[order[i]]] < priority[data[order[b]]]
          /\ \A i \in 1 .. Len(order) : priority[data[order[i]]] <= priority[data[order[b]]]
    BY <1>4, SearchFinds DEF RemoveUnlink
  <2>2. /\ queue # NULL /\ pc # "destroy" /\ queue' = queue /\ data' = data
        /\ Unlink(order[b]) /\ FreeNode(order[b])
        /\ result' = [call |-> "remove", value |-> data[order[b]]]
    BY <1>4, <2>1, ListHasQueue DEF RemoveUnlink, Returns
  <2>3. order' = Abstract!Without(order, b)
    BY <2>2, Removal
  <2>4. Items' = Abstract!Without(Items, b)
    BY <2>2, <2>3, ItemsWithout
  <2>5. /\ b \in 1 .. Len(Items) /\ Items[b] = data[order[b]]
        /\ \A i \in 1 .. b - 1 : priority[Items[i]] < priority[Items[b]]
        /\ \A i \in 1 .. Len(Items) : priority[Items[i]] <= priority[Items[b]]
    <3>1. /\ Len(Items) = Len(order) /\ Len(order) \in Nat
          /\ \A i \in 1 .. Len(order) : Items[i] = data[order[i]]
      BY ItemsIsSeq
    <3>2. \A i \in 1 .. b - 1 : i \in 1 .. Len(order)
      BY <3>1
    <3> QED BY <2>1, <3>1, <3>2
  <2> QED BY <2>2, <2>4, <2>5, Zenon
      DEF Abstract!RemoveHighest, Abstract!OldestHighest, Abstract!Returns, Items
<1> QED BY <1>1, <1>2, <1>3, <1>4 DEF remove_process

\* destroy_queue is Destroy at its return; freeing the nodes before changes nothing.
LEMMA DestroyImplements ==
    ASSUME IInv, destroy_queue
    PROVE  Abstract!Destroy \/ UNCHANGED Abstract!vars
<1> USE DEF fields, links, locals
<1>1. CASE DestroyStart /\ queue = NULL
  <2>1. Items = <<>>
    BY <1>1, ListParts, ItemsIsSeq DEF IInv, Ends
  <2>2. Items' = Items
    BY <1>1, ItemsSame DEF DestroyStart
  <2> QED BY <1>1, <2>1, <2>2
      DEF DestroyStart, Returns, Abstract!Destroy, Abstract!Returns, Items
<1>2. CASE DestroyStart /\ queue # NULL
  <2>1. queue' = queue /\ order' = order /\ data' = data /\ result' = result
    BY <1>2 DEF DestroyStart
  <2> QED BY <2>1 DEF Abstract!vars
<1>3. CASE DestroyNode
  <2>1. queue' = queue /\ order' = order /\ data' = data /\ result' = result
    BY <1>3 DEF DestroyNode
  <2> QED BY <2>1 DEF Abstract!vars
<1>4. CASE DestroyEnd
  <2>1. order' = <<>> /\ queue' = NULL
    BY <1>4 DEF DestroyEnd
  <2>2. Items' = <<>>
    <3>1. Len(order') = 0 /\ 1 .. Len(order') = {}
      BY <2>1
    <3> QED BY <3>1 DEF Items
  <2> QED BY <1>4, <2>1, <2>2
      DEF DestroyEnd, Returns, Abstract!Destroy, Abstract!Returns, Items
<1> QED BY <1>1, <1>2, <1>3, <1>4 DEF destroy_queue

\* Every step of the list is a step of the queue or leaves it as it is.
LEMMA AbstractStep == IInv /\ [Next]_pqVars => [Abstract!Next]_Abstract!vars
<1> USE DEF fields, links, locals
<1> SUFFICES ASSUME IInv, [Next]_pqVars PROVE [Abstract!Next]_Abstract!vars
  OBVIOUS
<1>1. CASE UNCHANGED pqVars
  BY <1>1 DEF pqVars, Abstract!vars
<1>2. CASE create_queue
  <2>1. Items' = Items
    BY <1>2, ItemsSame DEF create_queue
  <2>2. Q # NULL
    BY ProcessQueueAssumption
  <2>3. Abstract!Create
    BY <1>2, <2>1, <2>2, ProcessQueueAssumption
    DEF create_queue, Returns, Abstract!Create, Abstract!Returns, Items
  <2> QED BY <2>3 DEF Abstract!Next
<1>3. ASSUME NEW p \in Procs, push_queue(p) PROVE [Abstract!Next]_Abstract!vars
  BY <1>3, PushImplements DEF Abstract!Next
<1>4. CASE pop_queue
  BY <1>4, PopImplements DEF Abstract!Next
<1>5. CASE remove_process
  BY <1>5, RemoveImplements DEF Abstract!Next
<1>6. CASE get_queue_size
  <2>1. Items' = Items
    BY <1>6, ItemsSame DEF get_queue_size
  <2>2. (IF queue = NULL THEN 0 ELSE size) = Len(Items)
    BY ItemsIsSeq, ListParts DEF IInv, Ends
  <2>3. Abstract!Size
    BY <1>6, <2>1, <2>2 DEF get_queue_size, Returns, Abstract!Size, Abstract!Returns, Items
  <2> QED BY <2>3 DEF Abstract!Next
<1>7. CASE destroy_queue
  BY <1>7, DestroyImplements DEF Abstract!Next
<1> QED BY <1>1, <1>2, <1>3, <1>4, <1>5, <1>6, <1>7 DEF Next

\* The linked list implements the queue with removal by priority, for every set of
\* processes, all priorities and any number of nodes: every call returns what it should,
\* the oldest of equals included, and no process is lost except for want of memory.
THEOREM Refinement == SafetySpec => ImplementsPriorityQueue
BY AbstractInit, AbstractStep, Invariance, PTL
DEF SafetySpec, ImplementsPriorityQueue, Abstract!Spec
=============================================================================
