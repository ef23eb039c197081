--------------------------- MODULE LRUCacheProofs ---------------------------
(***************************************************************************)
(* The LRU cache of practicum1 for every capacity, every size of the hash  *)
(* table and every set of ids, as long as no eviction cuts a search        *)
(* (CarefulSpec): table, list and heap agree, the cache is written         *)
(* through, and it implements the LRU cache of LRUSpec.                    *)
(***************************************************************************)
EXTENDS LRUCache, InductionLemmas, SequenceTheorems

-----------------------------------------------------------------------------
(* The hash table.                                                         *)

\* The slots a search for id looks at are all the slots, each of them once.
LEMMA ProbeSlots ==
    ASSUME NEW id \in Ids
    PROVE  /\ \A k \in Slot : ProbeSlot(id, k) \in Slot
           /\ \A k, j \in Slot : ProbeSlot(id, k) = ProbeSlot(id, j) => k = j
           /\ \A h \in Slot : \E k \in Slot : ProbeSlot(id, k) = h
<1> DEFINE a == hash(id)
<1>1. HASH_SIZE \in Nat /\ HASH_SIZE > 0 /\ id \in Nat
  BY SizesAssumption
<1>2. a \in Nat /\ a < HASH_SIZE
  BY <1>1 DEF hash
<1> HIDE DEF a
<1>3. ASSUME NEW k \in Slot
      PROVE  ProbeSlot(id, k) = IF a + k < HASH_SIZE THEN a + k ELSE a + k - HASH_SIZE
  <2>1. k \in Nat /\ k < HASH_SIZE
    BY <1>1 DEF Slot
  <2>2. CASE a + k < HASH_SIZE
    <3>1. (a + k) % HASH_SIZE = a + k
      BY <1>1, <1>2, <2>1, <2>2
    <3> QED BY <2>2, <3>1 DEF ProbeSlot, a
  <2>3. CASE a + k >= HASH_SIZE
    <3>1. a + k - HASH_SIZE \in 0 .. HASH_SIZE - 1
      BY <1>1, <1>2, <2>1, <2>3
    <3>2. (a + k) % HASH_SIZE = a + k - HASH_SIZE
      BY <1>1, <1>2, <2>1, <2>3, <3>1
    <3> QED BY <1>1, <1>2, <2>1, <2>3, <3>2 DEF ProbeSlot, a
  <2> QED BY <1>1, <1>2, <2>1, <2>2, <2>3
<1>4. \A k \in Slot : ProbeSlot(id, k) \in Slot
  BY <1>1, <1>2, <1>3 DEF Slot
<1>5. ASSUME NEW k \in Slot, NEW j \in Slot, ProbeSlot(id, k) = ProbeSlot(id, j)
      PROVE  k = j
  BY <1>1, <1>2, <1>3, <1>5 DEF Slot
<1>6. ASSUME NEW h \in Slot
      PROVE  \E k \in Slot : ProbeSlot(id, k) = h
  <2>1. CASE h >= a
    <3>1. h - a \in Slot /\ a + (h - a) = h /\ h < HASH_SIZE
      BY <1>1, <1>2, <2>1 DEF Slot
    <3> QED BY <1>3, <3>1
  <2>2. CASE h < a
    <3>1. h - a + HASH_SIZE \in Slot /\ a + (h - a + HASH_SIZE) = h + HASH_SIZE /\ h \in Nat
      BY <1>1, <1>2, <2>2 DEF Slot
    <3>2. PICK k \in Slot : k = h - a + HASH_SIZE
      BY <3>1
    <3>3. a + k = h + HASH_SIZE
      BY <3>1, <3>2
    <3>4. ~ (a + k < HASH_SIZE) /\ a + k - HASH_SIZE = h
      BY <1>1, <1>2, <3>1, <3>3 DEF Slot
    <3> QED BY <1>3, <3>4
  <2> QED BY <1>1, <1>2, <2>1, <2>2 DEF Slot
<1> QED BY <1>4, <1>5, <1>6

\* The search for id ends after k steps and not before.
EndsAt(m, id, k) ==
    /\ k \in Slot
    /\ ProbeEnds(m, id, k)
    /\ \A j \in 0 .. k - 1 : ~ ProbeEnds(m, id, j)

\* Where it ends is what Probe says.
LEMMA ProbeIs ==
    ASSUME NEW m, NEW id, NEW k, EndsAt(m, id, k)
    PROVE  Probe(m, id) = ProbeSlot(id, k)
<1> DEFINE P(x) == ProbeEnds(m, id, x) /\ \A j \in 0 .. x - 1 : ~ ProbeEnds(m, id, j)
<1>1. k \in Slot /\ P(k) /\ Slot \subseteq Nat
  BY SizesAssumption DEF EndsAt, Slot
<1>2. ASSUME NEW x \in Slot, P(x) PROVE x = k
  <2>1. ~ (x < k) /\ ~ (k < x)
    BY <1>1, <1>2
  <2> QED BY <1>1, <2>1
<1>3. (CHOOSE x \in Slot : P(x)) = k
  BY <1>1, <1>2
<1> QED BY <1>3 DEF Probe

\* In a table with an empty slot every search ends.
LEMMA SearchEnds ==
    ASSUME NEW m, NEW id \in Ids, \E h \in Slot : m.hash_table[h] = NULL
    PROVE  \E k \in Slot : EndsAt(m, id, k)
<1> DEFINE T == {k \in Slot : ProbeEnds(m, id, k)}
<1>1. T \in SUBSET Nat /\ Slot \subseteq Nat
  BY SizesAssumption DEF Slot
<1>2. T # {}
  BY ProbeSlots DEF ProbeEnds
<1>3. PICK k \in T : \A i \in T : k <= i
  BY <1>1, <1>2, Least
<1>4. ASSUME NEW j \in 0 .. k - 1 PROVE ~ ProbeEnds(m, id, j)
  <2>1. j \in Slot /\ ~ (k <= j)
    BY <1>1, <1>3, SizesAssumption DEF Slot
  <2> QED BY <1>3, <2>1
<1> QED BY <1>3, <1>4 DEF EndsAt

-----------------------------------------------------------------------------
(* The list.  Its nodes in their order are a function s on 1 .. N.         *)

\* The k-th node of the list with its two dummy nodes.
Link(s, N, k) == IF k = 0 THEN head ELSE IF k = N + 1 THEN tail ELSE s[k]

\* next and prev chain the nodes of s between head and tail.
Links(nx, pv, s, N) ==
    \A k \in 0 .. N : /\ nx[Link(s, N, k)] = Link(s, N, k + 1)
                      /\ pv[Link(s, N, k + 1)] = Link(s, N, k)

\* s without its i-th node, and s with n after its last.
Drop(s, N, i) == [k \in 1 .. N - 1 |-> IF k < i THEN s[k] ELSE s[k + 1]]
Add(s, N, n)  == [k \in 1 .. N + 1 |-> IF k <= N THEN s[k] ELSE n]

\* The nodes of s.
Members(s, N) == {s[k] : k \in 1 .. N}

\* The types of next, prev and of an order without repetitions.
Nexts == [Nodes \cup {head} -> Nodes \cup {tail, NULL}]
Prevs == [Nodes \cup {tail} -> Nodes \cup {head, NULL}]
Orders(N) == {s \in [1 .. N -> Nodes] : \A j, k \in 1 .. N : s[j] = s[k] => j = k}

\* The nodes and the dummy nodes of a list are all different.
LEMMA LinkFacts ==
    ASSUME NEW N \in Nat, NEW s \in Orders(N)
    PROVE  /\ Link(s, N, 0) = head /\ Link(s, N, N + 1) = tail
           /\ \A k \in 1 .. N : Link(s, N, k) = s[k]
           /\ \A k \in 0 .. N : Link(s, N, k) \in Nodes \cup {head}
           /\ \A k \in 1 .. N + 1 : Link(s, N, k) \in Nodes \cup {tail}
           /\ \A j, k \in 0 .. N + 1 : Link(s, N, j) = Link(s, N, k) => j = k
<1>1. \A k \in 1 .. N : s[k] \in Nodes /\ s[k] # head /\ s[k] # tail
  BY PointersAssumption DEF Orders
<1>2. \A j, k \in 1 .. N : s[j] = s[k] => j = k
  BY DEF Orders
<1>3. head # tail
  BY PointersAssumption
<1>4. Link(s, N, 0) = head /\ Link(s, N, N + 1) = tail
  BY DEF Link
<1>5. \A k \in 1 .. N : Link(s, N, k) = s[k]
  BY DEF Link
<1>6. \A k \in 0 .. N + 1 : k = 0 \/ k = N + 1 \/ k \in 1 .. N
  OBVIOUS
<1>7. \A k \in 0 .. N : Link(s, N, k) \in Nodes \cup {head}
  BY <1>1, <1>4, <1>5
<1>8. \A k \in 1 .. N + 1 : Link(s, N, k) \in Nodes \cup {tail}
  BY <1>1, <1>4, <1>5
<1>9. \A j, k \in 0 .. N + 1 : Link(s, N, j) = Link(s, N, k) => j = k
  BY <1>1, <1>2, <1>3, <1>4, <1>5, <1>6
<1> QED BY <1>4, <1>5, <1>7, <1>8, <1>9

\* The links of a list without its i-th node.
LEMMA DropLinks ==
    ASSUME NEW N \in Nat, NEW s \in Orders(N), NEW i \in 1 .. N
    PROVE  /\ N - 1 \in Nat /\ Drop(s, N, i) \in Orders(N - 1)
           /\ \A k \in 0 .. N : Link(Drop(s, N, i), N - 1, k) = Link(s, N, IF k < i THEN k ELSE k + 1)
           /\ Members(Drop(s, N, i), N - 1) = Members(s, N) \ {s[i]}
<1> DEFINE t == Drop(s, N, i)
<1>1. N - 1 \in Nat /\ N \in Nat \ {0}
  OBVIOUS
<1>2. \A k \in 1 .. N - 1 : t[k] = s[IF k < i THEN k ELSE k + 1]
  BY DEF Drop
<1>3. \A k \in 1 .. N - 1 : (IF k < i THEN k ELSE k + 1) \in 1 .. N
  BY <1>1
<1>4. \A j, k \in 1 .. N : s[j] = s[k] => j = k
  BY DEF Orders
<1>5. t \in [1 .. N - 1 -> Nodes]
  <2>1. \A k \in 1 .. N : s[k] \in Nodes
    BY DEF Orders
  <2>2. t = [k \in 1 .. N - 1 |-> t[k]]
    BY DEF Drop
  <2>3. \A k \in 1 .. N - 1 : t[k] \in Nodes
    BY <1>2, <1>3, <2>1
  <2> QED BY <2>2, <2>3
<1>6. \A j, k \in 1 .. N - 1 : t[j] = t[k] => j = k
  <2> SUFFICES ASSUME NEW j \in 1 .. N - 1, NEW k \in 1 .. N - 1, t[j] = t[k]
               PROVE  j = k
    OBVIOUS
  <2>1. (IF j < i THEN j ELSE j + 1) = (IF k < i THEN k ELSE k + 1)
    BY <1>2, <1>3, <1>4
  <2> QED BY <2>1
<1>7. t \in Orders(N - 1)
  BY <1>5, <1>6 DEF Orders
<1>8. \A k \in 0 .. N : Link(t, N - 1, k) = Link(s, N, IF k < i THEN k ELSE k + 1)
  <2> SUFFICES ASSUME NEW k \in 0 .. N
               PROVE  Link(t, N - 1, k) = Link(s, N, IF k < i THEN k ELSE k + 1)
    OBVIOUS
  <2>1. CASE k = 0
    BY <2>1 DEF Link
  <2>2. CASE k = N
    BY <1>1, <2>2 DEF Link
  <2>3. CASE k \in 1 .. N - 1
    <3>1. Link(t, N - 1, k) = t[k]
      BY <1>1, <2>3 DEF Link
    <3>2. Link(s, N, IF k < i THEN k ELSE k + 1) = s[IF k < i THEN k ELSE k + 1]
      BY <1>1, <1>3, <2>3 DEF Link
    <3> QED BY <1>2, <2>3, <3>1, <3>2
  <2> QED BY <1>1, <2>1, <2>2, <2>3
<1>9. ASSUME NEW n
      PROVE  (\E k \in 1 .. N - 1 : t[k] = n) <=> (n # s[i] /\ \E k \in 1 .. N : s[k] = n)
  <2>1. ASSUME NEW k \in 1 .. N - 1, t[k] = n
        PROVE  n # s[i] /\ \E j \in 1 .. N : s[j] = n
    <3>1. (IF k < i THEN k ELSE k + 1) # i
      OBVIOUS
    <3> QED BY <1>2, <1>3, <1>4, <2>1, <3>1
  <2>2. ASSUME n # s[i], NEW j \in 1 .. N, s[j] = n
        PROVE  \E k \in 1 .. N - 1 : t[k] = n
    <3>1. CASE j < i
      <4>1. j \in 1 .. N - 1
        BY <3>1
      <4> QED BY <1>2, <2>2, <3>1, <4>1
    <3>2. CASE j > i
      <4>1. j - 1 \in 1 .. N - 1 /\ ~ (j - 1 < i) /\ j - 1 + 1 = j
        BY <3>2
      <4>2. t[j - 1] = s[j]
        BY <1>2, <4>1
      <4> QED BY <2>2, <4>1, <4>2
    <3> QED BY <2>2, <3>1, <3>2
  <2> QED BY <2>1, <2>2
<1>10. Members(t, N - 1) = Members(s, N) \ {s[i]}
  BY <1>9 DEF Members
<1> QED BY <1>1, <1>7, <1>8, <1>10

\* The links of a list with a new last node.
LEMMA AddLinks ==
    ASSUME NEW N \in Nat, NEW s \in Orders(N), NEW n \in Nodes \ Members(s, N)
    PROVE  /\ N + 1 \in Nat /\ Add(s, N, n) \in Orders(N + 1)
           /\ \A k \in 0 .. N : Link(Add(s, N, n), N + 1, k) = Link(s, N, k)
           /\ Link(Add(s, N, n), N + 1, N + 1) = n
           /\ Link(Add(s, N, n), N + 1, N + 2) = tail
           /\ Members(Add(s, N, n), N + 1) = Members(s, N) \cup {n}
<1> DEFINE t == Add(s, N, n)
<1>1. t = [k \in 1 .. N + 1 |-> t[k]] /\ t[N + 1] = n /\ \A k \in 1 .. N : t[k] = s[k]
  BY DEF Add
<1>2. \A k \in 1 .. N + 1 : k = N + 1 \/ k \in 1 .. N
  OBVIOUS
<1>3. \A k \in 1 .. N : s[k] \in Nodes
  BY DEF Orders
<1>4. \A j, k \in 1 .. N : s[j] = s[k] => j = k
  BY DEF Orders
<1>5. t \in [1 .. N + 1 -> Nodes]
  BY <1>1, <1>2, <1>3
<1>6. \A j, k \in 1 .. N + 1 : t[j] = t[k] => j = k
  <2> HIDE DEF t
  <2>1. \A k \in 1 .. N : s[k] # n
    BY DEF Members
  <2> QED BY <1>1, <1>2, <1>4, <2>1
<1>7. t \in Orders(N + 1)
  BY <1>5, <1>6 DEF Orders
<1>8. \A k \in 0 .. N : Link(t, N + 1, k) = Link(s, N, k)
  <2> HIDE DEF t
  <2>1. \A k \in 0 .. N : k # N + 1 /\ k # N + 1 + 1 /\ (k = 0 \/ k \in 1 .. N)
    OBVIOUS
  <2> QED BY <1>1, <2>1 DEF Link
<1>9. Link(t, N + 1, N + 1) = n /\ Link(t, N + 1, N + 2) = tail
  BY <1>1 DEF Link
<1>10. \A x : (\E k \in 1 .. N + 1 : t[k] = x) <=> (x = n \/ \E k \in 1 .. N : s[k] = x)
  <2>1. N + 1 \in 1 .. N + 1 /\ \A k \in 1 .. N : k \in 1 .. N + 1
    OBVIOUS
  <2> QED BY <1>1, <1>2, <2>1
<1>11. Members(t, N + 1) = Members(s, N) \cup {n}
  BY <1>10 DEF Members
<1> QED BY <1>7, <1>8, <1>9, <1>11

\* What remove_node does to the pointers takes the i-th node out of the list.
LEMMA Unlink ==
    ASSUME NEW N \in Nat, NEW s \in Orders(N), NEW i \in 1 .. N,
           NEW nx \in Nexts, NEW pv \in Prevs, Links(nx, pv, s, N)
    PROVE  /\ pv[s[i]] \in Nodes \cup {head} /\ nx[s[i]] \in Nodes \cup {tail}
           /\ Links([nx EXCEPT ![pv[s[i]]] = nx[s[i]]], [pv EXCEPT ![nx[s[i]]] = pv[s[i]]],
                    Drop(s, N, i), N - 1)
<1> DEFINE a == Link(s, N, i - 1)
           b == Link(s, N, i + 1)
           t == Drop(s, N, i)
           nx2 == [nx EXCEPT ![a] = b]
           pv2 == [pv EXCEPT ![b] = a]
<1>1. /\ i - 1 \in 0 .. N /\ i \in 0 .. N /\ i + 1 \in 1 .. N + 1 /\ i + 1 \in 0 .. N + 1
      /\ i - 1 \in 0 .. N + 1 /\ i - 1 + 1 = i
  OBVIOUS
<1>2. pv[s[i]] = a /\ nx[s[i]] = b
  <2>1. Link(s, N, i) = s[i]
    BY LinkFacts
  <2>2. nx[Link(s, N, i)] = Link(s, N, i + 1)
    BY <1>1 DEF Links
  <2>3. pv[Link(s, N, i - 1 + 1)] = Link(s, N, i - 1)
    BY <1>1 DEF Links
  <2> QED BY <1>1, <2>1, <2>2, <2>3
<1>3. a \in Nodes \cup {head} /\ b \in Nodes \cup {tail}
  BY <1>1, LinkFacts
<1>4. /\ nx2[a] = b /\ \A x \in Nodes \cup {head} : x # a => nx2[x] = nx[x]
      /\ pv2[b] = a /\ \A x \in Nodes \cup {tail} : x # b => pv2[x] = pv[x]
  BY <1>3 DEF Nexts, Prevs
<1>5. ASSUME NEW k \in 0 .. N - 1
      PROVE  nx2[Link(t, N - 1, k)] = Link(t, N - 1, k + 1) /\ pv2[Link(t, N - 1, k + 1)] = Link(t, N - 1, k)
  <2>1. k \in 0 .. N /\ k + 1 \in 0 .. N
    OBVIOUS
  <2>2. Link(t, N - 1, k) = Link(s, N, IF k < i THEN k ELSE k + 1)
    BY <2>1, DropLinks
  <2>3. Link(t, N - 1, k + 1) = Link(s, N, IF k + 1 < i THEN k + 1 ELSE k + 1 + 1)
    BY <2>1, DropLinks
  <2>4. CASE k + 1 < i
    <3>1. Link(t, N - 1, k) = Link(s, N, k) /\ Link(t, N - 1, k + 1) = Link(s, N, k + 1)
      BY <2>2, <2>3, <2>4
    <3>2. /\ k \in 0 .. N + 1 /\ k + 1 \in 0 .. N + 1 /\ k + 1 \in 1 .. N + 1
          /\ k # i - 1 /\ k + 1 # i + 1
      BY <2>4
    <3>3. Link(s, N, k) # a /\ Link(s, N, k + 1) # b
      BY <1>1, <3>2, LinkFacts
    <3>4. Link(s, N, k) \in Nodes \cup {head} /\ Link(s, N, k + 1) \in Nodes \cup {tail}
      BY <2>1, <3>2, LinkFacts
    <3> QED BY <1>4, <2>1, <3>1, <3>3, <3>4 DEF Links
  <2>5. CASE k + 1 = i
    <3>1. Link(t, N - 1, k) = a /\ Link(t, N - 1, k + 1) = b
      <4>1. k < i /\ ~ (k + 1 < i) /\ k = i - 1 /\ k + 1 + 1 = i + 1
        BY <2>5
      <4> QED BY <2>2, <2>3, <4>1
    <3> QED BY <1>4, <3>1
  <2>6. CASE k + 1 > i
    <3>1. Link(t, N - 1, k) = Link(s, N, k + 1) /\ Link(t, N - 1, k + 1) = Link(s, N, k + 1 + 1)
      <4>1. ~ (k < i) /\ ~ (k + 1 < i)
        BY <2>6
      <4> QED BY <2>2, <2>3, <4>1
    <3>2. /\ k + 1 \in 0 .. N + 1 /\ k + 1 + 1 \in 0 .. N + 1 /\ k + 1 + 1 \in 1 .. N + 1
          /\ k + 1 # i - 1 /\ k + 1 + 1 # i + 1
      BY <2>6
    <3>3. Link(s, N, k + 1) # a /\ Link(s, N, k + 1 + 1) # b
      BY <1>1, <3>2, LinkFacts
    <3>4. Link(s, N, k + 1) \in Nodes \cup {head} /\ Link(s, N, k + 1 + 1) \in Nodes \cup {tail}
      BY <2>1, <3>2, LinkFacts
    <3> QED BY <1>4, <2>1, <3>1, <3>3, <3>4 DEF Links
  <2> QED BY <2>4, <2>5, <2>6
<1>6. Links(nx2, pv2, t, N - 1)
  BY <1>5 DEF Links
<1> QED BY <1>2, <1>3, <1>6

\* What add_node_to_tail does to the pointers makes n the last node of the list.
LEMMA LinkIn ==
    ASSUME NEW N \in Nat, NEW s \in Orders(N), NEW n \in Nodes \ Members(s, N),
           NEW nx \in Nexts, NEW pv \in Prevs, Links(nx, pv, s, N)
    PROVE  /\ pv[tail] \in Nodes \cup {head}
           /\ Links([nx EXCEPT ![pv[tail]] = n, ![n] = tail], [pv EXCEPT ![n] = pv[tail], ![tail] = n],
                    Add(s, N, n), N + 1)
<1> DEFINE a == Link(s, N, N)
           t == Add(s, N, n)
           nx2 == [nx EXCEPT ![a] = n, ![n] = tail]
           pv2 == [pv EXCEPT ![n] = a, ![tail] = n]
<1>1. pv[tail] = a
  <2>1. N \in 0 .. N
    OBVIOUS
  <2> QED BY <2>1, LinkFacts DEF Links
<1>2. a \in Nodes \cup {head}
  BY LinkFacts
<1>3. \A k \in 0 .. N + 1 : Link(s, N, k) # n
  <2>1. n # head /\ n # tail
    BY PointersAssumption
  <2>2. \A k \in 0 .. N + 1 : k = 0 \/ k = N + 1 \/ k \in 1 .. N
    OBVIOUS
  <2> QED BY <2>1, <2>2, LinkFacts DEF Members
<1>4. a # n /\ n # tail
  <2>1. N \in 0 .. N + 1
    OBVIOUS
  <2> QED BY <1>3, <2>1, PointersAssumption
<1>5. /\ nx2[a] = n /\ nx2[n] = tail
      /\ \A x \in Nodes \cup {head} : x # a /\ x # n => nx2[x] = nx[x]
  BY <1>2, <1>4 DEF Nexts
<1>6. /\ pv2[tail] = n /\ pv2[n] = a
      /\ \A x \in Nodes \cup {tail} : x # tail /\ x # n => pv2[x] = pv[x]
  BY <1>2, <1>4 DEF Prevs
<1>7. /\ \A k \in 0 .. N : Link(t, N + 1, k) = Link(s, N, k)
      /\ Link(t, N + 1, N + 1) = n
      /\ Link(t, N + 1, N + 1 + 1) = tail
  <2>1. N + 2 = N + 1 + 1
    OBVIOUS
  <2> QED BY <2>1, AddLinks
<1>8. ASSUME NEW k \in 0 .. N + 1
      PROVE  nx2[Link(t, N + 1, k)] = Link(t, N + 1, k + 1) /\ pv2[Link(t, N + 1, k + 1)] = Link(t, N + 1, k)
  <2>1. CASE k = N + 1
    BY <1>5, <1>6, <1>7, <2>1
  <2>2. CASE k = N
    <3>1. Link(t, N + 1, k) = a /\ Link(t, N + 1, k + 1) = n
      BY <1>7, <2>2
    <3> QED BY <1>5, <1>6, <3>1
  <2>3. CASE k < N
    <3>1. k \in 0 .. N /\ k + 1 \in 0 .. N /\ k + 1 \in 1 .. N + 1 /\ k \in 0 .. N + 1 /\ k + 1 \in 0 .. N + 1
      BY <2>3
    <3>2. Link(t, N + 1, k) = Link(s, N, k) /\ Link(t, N + 1, k + 1) = Link(s, N, k + 1)
      BY <1>7, <3>1
    <3>3. N \in 0 .. N + 1 /\ N + 1 \in 0 .. N + 1 /\ k # N /\ k + 1 # N + 1
      BY <2>3
    <3>4. Link(s, N, k) # a /\ Link(s, N, k + 1) # tail
      BY <3>1, <3>3, LinkFacts
    <3>5. Link(s, N, k) # n /\ Link(s, N, k + 1) # n
      BY <1>3, <3>1
    <3>6. Link(s, N, k) \in Nodes \cup {head} /\ Link(s, N, k + 1) \in Nodes \cup {tail}
      BY <3>1, LinkFacts
    <3> QED BY <1>5, <1>6, <3>1, <3>2, <3>4, <3>5, <3>6 DEF Links
  <2> QED BY <2>1, <2>2, <2>3
<1>9. Links(nx2, pv2, t, N + 1)
  BY <1>8 DEF Links
<1> QED BY <1>1, <1>2, <1>9

\* The pointers in a node that is not in the list do not matter.
LEMMA Outside ==
    ASSUME NEW N \in Nat, NEW s \in Orders(N), NEW n \in Nodes \ Members(s, N),
           NEW nx \in Nexts, NEW pv \in Prevs, Links(nx, pv, s, N)
    PROVE  Links([nx EXCEPT ![n] = NULL], [pv EXCEPT ![n] = NULL], s, N)
<1>1. \A k \in 0 .. N + 1 : Link(s, N, k) # n
  <2>1. n # head /\ n # tail
    BY PointersAssumption
  <2>2. \A k \in 0 .. N + 1 : k = 0 \/ k = N + 1 \/ k \in 1 .. N
    OBVIOUS
  <2> QED BY <2>1, <2>2, LinkFacts DEF Members
<1>2. ASSUME NEW k \in 0 .. N
      PROVE  /\ [nx EXCEPT ![n] = NULL][Link(s, N, k)] = Link(s, N, k + 1)
             /\ [pv EXCEPT ![n] = NULL][Link(s, N, k + 1)] = Link(s, N, k)
  <2>1. k \in 0 .. N + 1 /\ k + 1 \in 0 .. N + 1 /\ k + 1 \in 1 .. N + 1
    OBVIOUS
  <2>2. Link(s, N, k) \in Nodes \cup {head} /\ Link(s, N, k + 1) \in Nodes \cup {tail}
    BY <2>1, LinkFacts
  <2> QED BY <1>1, <2>1, <2>2 DEF Links, Nexts, Prevs
<1> QED BY <1>2 DEF Links

\* The list of m has the allocated nodes in the order s.
ListOf(m, s) ==
    /\ s \in Orders(m.current_size)
    /\ Links(m.next, m.prev, s, m.current_size)
    /\ m.allocated = Members(s, m.current_size)

\* Following next from head visits the nodes in that order.
LEMMA OrderIs ==
    ASSUME NEW m, NEW s, m.current_size \in Nat, ListOf(m, s)
    PROVE  Order(m) = s
<1> DEFINE N == m.current_size
           F(f) == [k \in 0 .. N |-> IF k = 0 THEN head ELSE m.next[f[k - 1]]]
           w == [k \in 0 .. N |-> Link(s, N, k)]
<1>1. N \in Nat /\ s \in Orders(N) /\ Links(m.next, m.prev, s, N)
  BY DEF ListOf
<1>2. w = F(w)
  <2>1. ASSUME NEW k \in 0 .. N PROVE w[k] = IF k = 0 THEN head ELSE m.next[w[k - 1]]
    <3>1. CASE k = 0
      BY <1>1, <3>1 DEF Link
    <3>2. CASE k # 0
      <4>1. k - 1 \in 0 .. N /\ k - 1 + 1 = k
        BY <1>1, <3>2
      <4>2. m.next[Link(s, N, k - 1)] = Link(s, N, k - 1 + 1)
        BY <1>1, <4>1 DEF Links
      <4> QED BY <3>2, <4>1, <4>2
    <3> QED BY <3>1, <3>2
  <2> QED BY <2>1
<1>3. ASSUME NEW f, f = F(f) PROVE f = w
  <2> DEFINE D == {k \in 0 .. N : f[k] # w[k]}
  <2>1. D = {}
    <3>1. SUFFICES ASSUME D # {} PROVE FALSE
      OBVIOUS
    <3>2. D \in SUBSET Nat
      OBVIOUS
    <3>3. PICK k \in D : \A i \in D : k <= i
      BY <3>1, <3>2, Least
    <3>4. \A i \in 0 .. N : f[i] = IF i = 0 THEN head ELSE m.next[f[i - 1]]
      BY <1>3
    <3>5. \A i \in 0 .. N : w[i] = IF i = 0 THEN head ELSE m.next[w[i - 1]]
      BY <1>2
    <3>6. k \in 0 .. N /\ f[k] # w[k]
      OBVIOUS
    <3>7. k # 0
      BY <3>4, <3>5, <3>6
    <3>8. k - 1 \in 0 .. N /\ ~ (k <= k - 1)
      BY <1>1, <3>6, <3>7
    <3>9. f[k - 1] = w[k - 1]
      BY <3>3, <3>8
    <3> HIDE DEF w
    <3> QED BY <3>4, <3>5, <3>6, <3>7, <3>9
  <2>2. f = [k \in 0 .. N |-> f[k]]
    BY <1>3
  <2> QED BY <2>1, <2>2
<1>4. (CHOOSE f : f = F(f)) = w
  BY <1>2, <1>3
<1>5. NodeAt(m) = w
  BY <1>4 DEF NodeAt
<1>6. \A k \in 1 .. N : w[k] = s[k]
  BY <1>1, LinkFacts
<1>7. s = [k \in 1 .. N |-> s[k]]
  BY <1>1 DEF Orders
<1> QED BY <1>1, <1>5, <1>6, <1>7 DEF Order

-----------------------------------------------------------------------------
(* The functions of cache.c, field by field.                               *)

\* remove_node changes only pointers.
LEMMA RemoveFields ==
    ASSUME NEW m \in Cache, NEW n \in Nodes,
           m.prev[n] \in Nodes \cup {head}, m.next[n] \in Nodes \cup {tail}
    PROVE  /\ remove_node(m, n) \in Cache
           /\ remove_node(m, n).next = [m.next EXCEPT ![m.prev[n]] = m.next[n]]
           /\ remove_node(m, n).prev = [m.prev EXCEPT ![m.next[n]] = m.prev[n]]
           /\ remove_node(m, n).hash_table = m.hash_table
           /\ remove_node(m, n).key = m.key
           /\ remove_node(m, n).value = m.value
           /\ remove_node(m, n).allocated = m.allocated
           /\ remove_node(m, n).current_size = m.current_size
  BY DEF Cache, remove_node

\* add_node_to_tail changes only pointers.
LEMMA AddFields ==
    ASSUME NEW m \in Cache, NEW n \in Nodes, m.prev[tail] \in Nodes \cup {head}
    PROVE  /\ add_node_to_tail(m, n) \in Cache
           /\ add_node_to_tail(m, n).next = [m.next EXCEPT ![m.prev[tail]] = n, ![n] = tail]
           /\ add_node_to_tail(m, n).prev = [m.prev EXCEPT ![n] = m.prev[tail], ![tail] = n]
           /\ add_node_to_tail(m, n).hash_table = m.hash_table
           /\ add_node_to_tail(m, n).key = m.key
           /\ add_node_to_tail(m, n).value = m.value
           /\ add_node_to_tail(m, n).allocated = m.allocated
           /\ add_node_to_tail(m, n).current_size = m.current_size
  BY DEF Cache, add_node_to_tail

\* The steps of evict_if_needed after it has unlinked n, and those of put_msg before and
\* after it links a new node n; the assignment of a new body.
Freed(m, n, h) == [Free([m EXCEPT !.hash_table[h] = NULL], n) EXCEPT !.current_size = @ - 1]
Filled(m, n, msg) == [m EXCEPT !.key[n] = msg.id, !.value[n] = msg.body, !.allocated = @ \cup {n}]
Entered(m, n, h) == [m EXCEPT !.hash_table[h] = n, !.current_size = @ + 1]
Assigned(m, n, b) == [m EXCEPT !.value[n] = b]

\* r is m after these steps, field by field.
IsFreed(m, n, h, r) ==
    /\ r \in Cache
    /\ r.next = [m.next EXCEPT ![n] = NULL]
    /\ r.prev = [m.prev EXCEPT ![n] = NULL]
    /\ r.hash_table = [m.hash_table EXCEPT ![h] = NULL]
    /\ r.key = [m.key EXCEPT ![n] = NULL]
    /\ r.value = [m.value EXCEPT ![n] = NULL]
    /\ r.allocated = m.allocated \ {n}
    /\ r.current_size = m.current_size - 1

IsFilled(m, n, msg, r) ==
    /\ r \in Cache
    /\ r.next = m.next /\ r.prev = m.prev /\ r.hash_table = m.hash_table
    /\ r.key = [m.key EXCEPT ![n] = msg.id]
    /\ r.value = [m.value EXCEPT ![n] = msg.body]
    /\ r.allocated = m.allocated \cup {n}
    /\ r.current_size = m.current_size

IsEntered(m, n, h, r) ==
    /\ r \in Cache
    /\ r.next = m.next /\ r.prev = m.prev /\ r.key = m.key /\ r.value = m.value
    /\ r.hash_table = [m.hash_table EXCEPT ![h] = n]
    /\ r.allocated = m.allocated
    /\ r.current_size = m.current_size + 1

IsAssigned(m, n, b, r) ==
    /\ r \in Cache
    /\ r.next = m.next /\ r.prev = m.prev /\ r.key = m.key
    /\ r.hash_table = m.hash_table
    /\ r.value = [m.value EXCEPT ![n] = b]
    /\ r.allocated = m.allocated
    /\ r.current_size = m.current_size

\* What is done to the table, the heap and the count when lru has been unlinked.
LEMMA FreeFields ==
    ASSUME NEW m \in Cache, NEW n \in Nodes, NEW h \in Slot, m.current_size > 0
    PROVE  IsFreed(m, n, h, Freed(m, n, h))
<1>1. m.current_size - 1 \in 0 .. CACHE_CAPACITY
  BY SizesAssumption DEF Cache
<1> QED BY <1>1 DEF Cache, Free, Freed, IsFreed

\* What put_msg fills in for a new node.
LEMMA FillFields ==
    ASSUME NEW m \in Cache, NEW n \in Nodes, NEW msg \in Message
    PROVE  IsFilled(m, n, msg, Filled(m, n, msg))
  BY DEF Cache, Message, Filled, IsFilled

\* What put_msg does when it puts the new node into the table.
LEMMA EnterFields ==
    ASSUME NEW m \in Cache, NEW n \in Nodes, NEW h \in Slot, m.current_size < CACHE_CAPACITY
    PROVE  IsEntered(m, n, h, Entered(m, n, h))
<1>1. m.current_size + 1 \in 0 .. CACHE_CAPACITY
  BY SizesAssumption DEF Cache
<1> QED BY <1>1 DEF Cache, Entered, IsEntered

\* The new body of a cached message.
LEMMA AssignFields ==
    ASSUME NEW m \in Cache, NEW n \in Nodes, NEW b \in Bodies
    PROVE  IsAssigned(m, n, b, Assigned(m, n, b))
  BY DEF Cache, Assigned, IsAssigned

\* The types of the fields.
LEMMA CacheTypes ==
    ASSUME NEW m \in Cache
    PROVE  /\ m.hash_table \in [Slot -> Nodes \cup {NULL}]
           /\ m.next \in Nexts /\ m.prev \in Prevs
           /\ m.key \in [Nodes -> Ids \cup {NULL}]
           /\ m.value \in [Nodes -> Bodies \cup {NULL}]
           /\ m.allocated \in SUBSET Nodes
           /\ m.current_size \in Nat /\ m.current_size <= CACHE_CAPACITY
  BY SizesAssumption DEF Cache, Nexts, Prevs

\* The order of use after the i-th of N nodes has been used.
Used(s, N, i) == Add(Drop(s, N, i), N - 1, s[i])

\* remove_node and add_node_to_tail make the i-th node the most recently used one.
LEMMA MoveEffect ==
    ASSUME NEW m \in Cache, NEW s, ListOf(m, s), NEW i \in 1 .. m.current_size
    PROVE  LET r == MoveToTail(m, s[i])
           IN  /\ r \in Cache
               /\ ListOf(r, Used(s, m.current_size, i))
               /\ r.hash_table = m.hash_table /\ r.key = m.key /\ r.value = m.value
               /\ r.allocated = m.allocated /\ r.current_size = m.current_size
<1> DEFINE N == m.current_size
           n == s[i]
           u == remove_node(m, n)
           t == Drop(s, N, i)
           r == add_node_to_tail(u, n)
<1>1. /\ N \in Nat /\ s \in Orders(N) /\ i \in 1 .. N /\ Links(m.next, m.prev, s, N)
      /\ m.next \in Nexts /\ m.prev \in Prevs
  BY CacheTypes DEF ListOf
<1>2. n \in Nodes /\ n # tail
  BY <1>1, PointersAssumption DEF Orders
<1>3. /\ m.prev[n] \in Nodes \cup {head} /\ m.next[n] \in Nodes \cup {tail}
      /\ Links([m.next EXCEPT ![m.prev[n]] = m.next[n]], [m.prev EXCEPT ![m.next[n]] = m.prev[n]], t, N - 1)
  BY <1>1, Unlink
<1> HIDE DEF u
<1>4. /\ u \in Cache /\ Links(u.next, u.prev, t, N - 1)
      /\ u.hash_table = m.hash_table /\ u.key = m.key /\ u.value = m.value
      /\ u.allocated = m.allocated /\ u.current_size = N
  BY <1>2, <1>3, RemoveFields DEF u
<1>5. N - 1 \in Nat /\ t \in Orders(N - 1) /\ Members(t, N - 1) = Members(s, N) \ {n}
  BY <1>1, DropLinks
<1>6. n \in Nodes \ Members(t, N - 1)
  BY <1>2, <1>5
<1>7. N - 1 + 1 = N
  BY <1>1
<1>8. /\ u.prev[tail] \in Nodes \cup {head}
      /\ Links([u.next EXCEPT ![u.prev[tail]] = n, ![n] = tail],
               [u.prev EXCEPT ![n] = u.prev[tail], ![tail] = n], Add(t, N - 1, n), N - 1 + 1)
  <2>1. u.next \in Nexts /\ u.prev \in Prevs
    BY <1>4, CacheTypes
  <2> HIDE DEF n, t
  <2> QED BY <1>4, <1>5, <1>6, <2>1, LinkIn
<1> HIDE DEF r
<1>9. /\ r \in Cache /\ Links(r.next, r.prev, Add(t, N - 1, n), N - 1 + 1)
      /\ r.hash_table = u.hash_table /\ r.key = u.key /\ r.value = u.value
      /\ r.allocated = u.allocated /\ r.current_size = u.current_size
  BY <1>2, <1>4, <1>8, AddFields DEF r
<1>10. /\ Add(t, N - 1, n) \in Orders(N - 1 + 1)
       /\ Members(Add(t, N - 1, n), N - 1 + 1) = Members(t, N - 1) \cup {n}
  <2> HIDE DEF t, n
  <2> QED BY <1>5, <1>6, AddLinks
<1>11. n \in Members(s, N)
  BY DEF Members
<1>12. ListOf(r, Used(s, N, i))
  <2>1. Links(r.next, r.prev, Add(t, N - 1, n), N) /\ r.current_size = N
    BY <1>4, <1>7, <1>9
  <2>2. Add(t, N - 1, n) \in Orders(N)
    BY <1>7, <1>10
  <2>3. r.allocated = Members(Add(t, N - 1, n), N)
    BY <1>4, <1>5, <1>7, <1>9, <1>10, <1>11 DEF ListOf
  <2> QED BY <2>1, <2>2, <2>3 DEF ListOf, Used
<1> QED BY <1>4, <1>9, <1>12 DEF MoveToTail, r, u

-----------------------------------------------------------------------------
(* The inductive invariant of the cache.                                   *)

\* The table leads to exactly the allocated nodes, each of which the search for its id finds.
Found(m) ==
    /\ \A n \in m.allocated : m.key[n] \in Ids /\ m.value[n] \in Bodies
    /\ \A h \in Slot : m.hash_table[h] # NULL =>
          m.hash_table[h] \in m.allocated /\ Probe(m, m.key[m.hash_table[h]]) = h
    /\ \A n \in m.allocated : m.hash_table[Probe(m, m.key[n])] = n

CacheInv(m) ==
    /\ m \in Cache
    /\ Found(m)
    /\ \E s : ListOf(m, s)

\* current_size is the number of nodes.
LEMMA CountsNodes ==
    ASSUME NEW m \in Cache, NEW s, ListOf(m, s)
    PROVE  IsFiniteSet(m.allocated) /\ Cardinality(m.allocated) = m.current_size
<1> DEFINE N == m.current_size
<1>1. N \in Nat
  BY CacheTypes
<1>2. s \in Orders(N) /\ m.allocated = Members(s, N)
  BY DEF ListOf
<1>3. s \in Bijection(1 .. N, Members(s, N))
  <2>1. s \in [1 .. N -> Members(s, N)]
    BY <1>2 DEF Orders, Members
  <2>2. s \in Injection(1 .. N, Members(s, N))
    BY <1>2, <2>1 DEF Orders, Injection, IsInjective
  <2>3. s \in Surjection(1 .. N, Members(s, N))
    BY <2>1 DEF Members, Surjection
  <2> QED BY <2>2, <2>3 DEF Bijection
<1>4. ExistsBijection(1 .. N, Members(s, N))
  BY <1>3 DEF ExistsBijection
<1>5. IsFiniteSet(m.allocated)
  BY <1>1, <1>2, <1>4, FS_NatBijection
<1>6. Cardinality(m.allocated) = N
  BY <1>1, <1>2, <1>4, FS_CountingElements
<1> QED BY <1>5, <1>6

\* The table is never full: it has more slots than the cache has places.
LEMMA EmptySlot ==
    ASSUME NEW m, CacheInv(m)
    PROVE  \E h \in Slot : m.hash_table[h] = NULL
<1>1. SUFFICES ASSUME \A h \in Slot : m.hash_table[h] # NULL PROVE FALSE
  OBVIOUS
<1>2. IsFiniteSet(m.allocated) /\ Cardinality(m.allocated) <= CACHE_CAPACITY
  BY CountsNodes, CacheTypes DEF CacheInv
<1>3. IsFiniteSet(Slot) /\ Cardinality(Slot) = HASH_SIZE
  <2>1. HASH_SIZE - 1 \in Int /\ ~ (0 > HASH_SIZE - 1) /\ HASH_SIZE - 1 - 0 + 1 = HASH_SIZE
    BY SizesAssumption
  <2> QED BY <2>1, FS_Interval DEF Slot
<1>4. m.hash_table \in [Slot -> m.allocated]
  BY <1>1, CacheTypes DEF CacheInv, Found
<1>5. Cardinality(m.allocated) < Cardinality(Slot)
  <2>1. Cardinality(m.allocated) \in Nat
    BY <1>2, FS_CardinalityType
  <2> QED BY <1>2, <1>3, <2>1, SizesAssumption
<1>6. PICK g \in Slot, h \in Slot : g # h /\ m.hash_table[g] = m.hash_table[h]
  BY <1>2, <1>3, <1>4, <1>5, FS_PigeonHole
<1> QED BY <1>1, <1>6 DEF CacheInv, Found

\* Every search ends, at the slot that Probe names.
LEMMA SearchFinds ==
    ASSUME NEW m, CacheInv(m), NEW id \in Ids
    PROVE  /\ Probe(m, id) \in Slot
           /\ \E k \in Slot : EndsAt(m, id, k) /\ Probe(m, id) = ProbeSlot(id, k)
<1>1. PICK k \in Slot : EndsAt(m, id, k)
  BY EmptySlot, SearchEnds
<1>2. Probe(m, id) = ProbeSlot(id, k)
  BY <1>1, ProbeIs
<1>3. ProbeSlot(id, k) \in Slot
  BY ProbeSlots
<1> QED BY <1>1, <1>2, <1>3

\* An empty slot means that id is not cached; otherwise the node found is the node of id.
LEMMA SearchMeans ==
    ASSUME NEW m, CacheInv(m), NEW id \in Ids
    PROVE  /\ m.hash_table[Probe(m, id)] = NULL => \A n \in m.allocated : m.key[n] # id
           /\ m.hash_table[Probe(m, id)] # NULL =>
                /\ m.hash_table[Probe(m, id)] \in m.allocated
                /\ m.key[m.hash_table[Probe(m, id)]] = id
<1>1. NULL \notin m.allocated
  BY CacheTypes, PointersAssumption DEF CacheInv
<1>2. PICK k \in Slot : EndsAt(m, id, k) /\ Probe(m, id) = ProbeSlot(id, k)
  BY SearchFinds
<1>3. m.hash_table[Probe(m, id)] # NULL => m.key[m.hash_table[Probe(m, id)]] = id
  BY <1>2 DEF EndsAt, ProbeEnds
<1> QED BY <1>1, <1>3, SearchFinds DEF CacheInv, Found

\* A search reads only the table and the keys.
LEMMA SameSearches ==
    ASSUME NEW m, NEW r, r.hash_table = m.hash_table, r.key = m.key, NEW id
    PROVE  Probe(r, id) = Probe(m, id)
  BY DEF Probe, ProbeEnds

\* A used node stays where it is in the table.
LEMMA MoveKeeps ==
    ASSUME NEW m, CacheInv(m), NEW s, ListOf(m, s), NEW i \in 1 .. m.current_size
    PROVE  LET r == MoveToTail(m, s[i])
           IN  /\ CacheInv(r)
               /\ ListOf(r, Used(s, m.current_size, i))
               /\ r.hash_table = m.hash_table /\ r.key = m.key /\ r.value = m.value
               /\ r.allocated = m.allocated /\ r.current_size = m.current_size
<1> DEFINE r == MoveToTail(m, s[i])
<1>1. /\ r \in Cache
      /\ ListOf(r, Used(s, m.current_size, i))
      /\ r.hash_table = m.hash_table /\ r.key = m.key /\ r.value = m.value
      /\ r.allocated = m.allocated /\ r.current_size = m.current_size
  BY MoveEffect DEF CacheInv
<1> HIDE DEF r
<1>2. \A id : Probe(r, id) = Probe(m, id)
  BY <1>1, SameSearches
<1>3. Found(r)
  BY <1>1, <1>2 DEF Found, CacheInv
<1>4. CacheInv(r)
  BY <1>1, <1>3 DEF CacheInv
<1> QED BY <1>1, <1>4 DEF r

\* The eviction of lru leaves a search alone that does not pass the slot of lru.
LEMMA EvictionSpares ==
    ASSUME CacheInv(cache), NEW lru \in cache.allocated, NEW e,
           e.hash_table = [cache.hash_table EXCEPT ![Probe(cache, cache.key[lru])] = NULL],
           e.key = [cache.key EXCEPT ![lru] = NULL],
           NEW id \in Ids, ~ Passes(id, Probe(cache, cache.key[lru])),
           Probe(cache, id) # Probe(cache, cache.key[lru])
    PROVE  Probe(e, id) = Probe(cache, id)
<1> DEFINE h0 == Probe(cache, cache.key[lru])
<1>1. PICK k \in Slot : EndsAt(cache, id, k) /\ Probe(cache, id) = ProbeSlot(id, k)
  BY SearchFinds
<1>2. Slot \subseteq Nat /\ \A j \in 0 .. k : j \in Slot
  BY SizesAssumption DEF Slot
<1>3. ASSUME NEW j \in 0 .. k PROVE ProbeSlot(id, j) # h0
  <2>1. CASE j = k
    BY <1>1, <2>1
  <2>2. CASE j # k
    <3>1. \A i \in 0 .. j : i \in 0 .. k - 1
      BY <1>2, <2>2
    <3>2. \A i \in 0 .. j : ~ ProbeEnds(cache, id, i)
      BY <1>1, <3>1 DEF EndsAt
    <3> QED BY <1>2, <3>2 DEF ProbeEnds, Passes
  <2> QED BY <2>1, <2>2
<1>4. cache.hash_table \in [Slot -> Nodes \cup {NULL}] /\ cache.key \in [Nodes -> Ids \cup {NULL}]
  BY CacheTypes DEF CacheInv
<1>5. ASSUME NEW j \in 0 .. k PROVE ProbeEnds(e, id, j) <=> ProbeEnds(cache, id, j)
  <2> DEFINE h == ProbeSlot(id, j)
  <2>1. h \in Slot /\ h # h0
    BY <1>2, <1>3, ProbeSlots
  <2>2. e.hash_table[h] = cache.hash_table[h] /\ cache.hash_table[h] \in Nodes \cup {NULL}
    BY <1>4, <2>1
  <2>3. cache.hash_table[h] # lru
    <3>1. lru # NULL
      BY CacheTypes, PointersAssumption DEF CacheInv
    <3> QED BY <2>1, <3>1 DEF CacheInv, Found
  <2>4. cache.hash_table[h] # NULL => e.key[cache.hash_table[h]] = cache.key[cache.hash_table[h]]
    BY <1>4, <2>2, <2>3
  <2> QED BY <2>2, <2>4 DEF ProbeEnds
<1>6. EndsAt(e, id, k)
  <2>1. k \in 0 .. k /\ \A j \in 0 .. k - 1 : j \in 0 .. k
    BY <1>2
  <2> QED BY <1>1, <1>5, <2>1 DEF EndsAt
<1> QED BY <1>1, <1>6, ProbeIs

\* evict_if_needed makes room, and the search for id still ends where it had ended.
LEMMA EvictEffect ==
    ASSUME CacheInv(cache), NEW s, ListOf(cache, s),
           NEW id \in Ids, cache.hash_table[Probe(cache, id)] = NULL, ~ Cuts(id)
    PROVE  LET e == evict_if_needed(cache)
           IN  /\ CacheInv(e)
               /\ e.current_size < CACHE_CAPACITY
               /\ Probe(e, id) = Probe(cache, id) /\ e.hash_table[Probe(e, id)] = NULL
               /\ \A n \in e.allocated : /\ n \in cache.allocated
                                         /\ e.key[n] = cache.key[n] /\ e.value[n] = cache.value[n]
               /\ \A h \in Slot : e.hash_table[h] # NULL => e.hash_table[h] = cache.hash_table[h]
               /\ IF cache.current_size < CACHE_CAPACITY
                  THEN ListOf(e, s) /\ e.current_size = cache.current_size
                  ELSE /\ ListOf(e, Drop(s, cache.current_size, 1))
                       /\ e.current_size = cache.current_size - 1
<1> DEFINE N == cache.current_size
           lru == cache.next[head]
           h0 == Probe(cache, cache.key[lru])
           u == remove_node(cache, lru)
           e == evict_if_needed(cache)
<1>1. CASE N < CACHE_CAPACITY
  <2>1. e = cache
    BY <1>1 DEF evict_if_needed
  <2> QED BY <1>1, <2>1
<1>2. CASE ~ (N < CACHE_CAPACITY)
  <2>1. /\ cache \in Cache /\ N \in Nat /\ N = CACHE_CAPACITY /\ N > 0 /\ 1 \in 1 .. N
        /\ s \in Orders(N) /\ Links(cache.next, cache.prev, s, N) /\ cache.allocated = Members(s, N)
        /\ cache.next \in Nexts /\ cache.prev \in Prevs
    BY <1>2, CacheTypes, SizesAssumption DEF CacheInv, ListOf
  <2>2. lru = s[1] /\ lru \in Nodes /\ lru # tail /\ lru # NULL
    <3>1. 0 \in 0 .. N /\ 0 + 1 = 1
      BY <2>1
    <3>2. cache.next[Link(s, N, 0)] = Link(s, N, 1)
      BY <2>1, <3>1 DEF Links
    <3>3. Link(s, N, 0) = head /\ Link(s, N, 1) = s[1]
      BY <2>1, LinkFacts
    <3> QED BY <2>1, <3>2, <3>3, PointersAssumption DEF Orders
  <2>3. lru \in cache.allocated
    BY <2>1, <2>2 DEF Members
  <2>4. cache.key[lru] \in Ids /\ h0 \in Slot /\ cache.hash_table[h0] = lru
    BY <2>3, SearchFinds DEF CacheInv, Found
  <2> HIDE DEF lru
  <2>5. /\ cache.prev[lru] \in Nodes \cup {head} /\ cache.next[lru] \in Nodes \cup {tail}
        /\ Links([cache.next EXCEPT ![cache.prev[lru]] = cache.next[lru]],
                 [cache.prev EXCEPT ![cache.next[lru]] = cache.prev[lru]], Drop(s, N, 1), N - 1)
    BY <2>1, <2>2, Unlink
  <2> HIDE DEF u
  <2>6. /\ u \in Cache /\ Links(u.next, u.prev, Drop(s, N, 1), N - 1)
        /\ u.hash_table = cache.hash_table /\ u.key = cache.key /\ u.value = cache.value
        /\ u.allocated = cache.allocated /\ u.current_size = N
    BY <2>1, <2>2, <2>5, RemoveFields DEF u
  <2>7. Probe(u, cache.key[lru]) = h0
    BY <2>6, SameSearches
  <2>8. e = Freed(u, lru, h0)
    BY <1>2, <2>2, <2>7 DEF evict_if_needed, lru, u, Freed
  <2> HIDE DEF e, h0
  <2>9. /\ e \in Cache
        /\ e.next = [u.next EXCEPT ![lru] = NULL] /\ e.prev = [u.prev EXCEPT ![lru] = NULL]
        /\ e.hash_table = [cache.hash_table EXCEPT ![h0] = NULL]
        /\ e.key = [cache.key EXCEPT ![lru] = NULL] /\ e.value = [cache.value EXCEPT ![lru] = NULL]
        /\ e.allocated = cache.allocated \ {lru} /\ e.current_size = N - 1
    <3>1. u \in Cache /\ u.current_size > 0
      BY <2>1, <2>6
    <3>2. IsFreed(u, lru, h0, e)
      BY <2>2, <2>4, <2>8, <3>1, FreeFields
    <3> QED BY <2>6, <3>2 DEF IsFreed
  <2>10. ListOf(e, Drop(s, N, 1))
    <3>1. /\ N - 1 \in Nat /\ Drop(s, N, 1) \in Orders(N - 1)
          /\ Members(Drop(s, N, 1), N - 1) = Members(s, N) \ {lru}
      BY <2>1, <2>2, DropLinks
    <3>2. lru \in Nodes \ Members(Drop(s, N, 1), N - 1)
      BY <2>2, <3>1
    <3>3. u.next \in Nexts /\ u.prev \in Prevs
      BY <2>6, CacheTypes
    <3>4. Links(e.next, e.prev, Drop(s, N, 1), N - 1)
      BY <2>6, <2>9, <3>1, <3>2, <3>3, Outside
    <3> QED BY <2>1, <2>9, <3>1, <3>4 DEF ListOf
  <2>11. ~ Passes(id, h0) /\ \A n \in cache.allocated \ {lru} : ~ Passes(cache.key[n], h0)
    BY <2>1 DEF Cuts, h0, lru
  <2>12. Probe(e, id) = Probe(cache, id)
    <3>1. Probe(cache, id) # h0
      BY <2>2, <2>4
    <3> QED BY <2>3, <2>9, <2>11, <3>1, EvictionSpares DEF h0
  <2>13. ASSUME NEW n \in cache.allocated \ {lru}
         PROVE  Probe(e, cache.key[n]) = Probe(cache, cache.key[n])
    <3>1. cache.key[n] \in Ids /\ cache.hash_table[Probe(cache, cache.key[n])] = n
      BY DEF CacheInv, Found
    <3>2. Probe(cache, cache.key[n]) # h0
      BY <2>4, <3>1
    <3> QED BY <2>3, <2>9, <2>11, <3>1, <3>2, EvictionSpares DEF h0
  <2>14. cache.allocated \subseteq Nodes
    BY <2>1, CacheTypes
  <2>15. \A n \in e.allocated : n \in cache.allocated /\ e.key[n] = cache.key[n] /\ e.value[n] = cache.value[n]
    BY <2>1, <2>9, <2>14, CacheTypes
  <2>16. /\ cache.hash_table \in [Slot -> Nodes \cup {NULL}]
         /\ \A h \in Slot : h # h0 => e.hash_table[h] = cache.hash_table[h]
         /\ e.hash_table[h0] = NULL
    BY <2>1, <2>4, <2>9, CacheTypes
  <2>17. Found(e)
    <3>1. \A n \in e.allocated : e.key[n] \in Ids /\ e.value[n] \in Bodies
      BY <2>15 DEF CacheInv, Found
    <3>2. ASSUME NEW h \in Slot, e.hash_table[h] # NULL
          PROVE  e.hash_table[h] \in e.allocated /\ Probe(e, e.key[e.hash_table[h]]) = h
      <4>1. h # h0 /\ e.hash_table[h] = cache.hash_table[h]
        BY <2>16, <3>2
      <4>2. cache.hash_table[h] \in cache.allocated /\ Probe(cache, cache.key[cache.hash_table[h]]) = h
        BY <3>2, <4>1 DEF CacheInv, Found
      <4>3. cache.hash_table[h] # lru
        BY <4>1, <4>2 DEF h0
      <4> QED BY <2>9, <2>13, <2>15, <4>1, <4>2, <4>3
    <3>3. ASSUME NEW n \in e.allocated PROVE e.hash_table[Probe(e, e.key[n])] = n
      <4>1. n \in cache.allocated \ {lru} /\ e.key[n] = cache.key[n]
        BY <2>9, <2>15
      <4>2. cache.hash_table[Probe(cache, cache.key[n])] = n /\ Probe(cache, cache.key[n]) \in Slot
        BY <4>1, SearchFinds DEF CacheInv, Found
      <4>3. Probe(cache, cache.key[n]) # h0
        BY <2>4, <4>1, <4>2
      <4> QED BY <2>13, <2>16, <4>1, <4>2, <4>3
    <3> QED BY <3>1, <3>2, <3>3 DEF Found
  <2>18. e.hash_table[Probe(e, id)] = NULL
    BY <2>12, <2>16, SearchFinds
  <2>19. CacheInv(e)
    BY <2>9, <2>10, <2>17 DEF CacheInv
  <2>20. N - 1 < CACHE_CAPACITY
    BY <2>1
  <2>21. \A h \in Slot : e.hash_table[h] # NULL => e.hash_table[h] = cache.hash_table[h]
    BY <2>16
  <2> QED BY <1>2, <2>9, <2>10, <2>12, <2>15, <2>18, <2>19, <2>20, <2>21 DEF e
<1> QED BY <1>1, <1>2

\* A new node at the empty slot where the search for its id ends stops no other search.
LEMMA InsertionSpares ==
    ASSUME NEW e, CacheInv(e), NEW n \in Nodes \ e.allocated, NEW new \in Ids, NEW r,
           e.hash_table[Probe(e, new)] = NULL,
           r.hash_table = [e.hash_table EXCEPT ![Probe(e, new)] = n],
           r.key = [e.key EXCEPT ![n] = new],
           NEW id \in Ids, id = new \/ e.hash_table[Probe(e, id)] # NULL
    PROVE  Probe(r, id) = Probe(e, id)
<1> DEFINE h0 == Probe(e, new)
<1>1. PICK k \in Slot : EndsAt(e, id, k) /\ Probe(e, id) = ProbeSlot(id, k)
  BY SearchFinds
<1>2. Slot \subseteq Nat /\ \A j \in 0 .. k : j \in Slot
  BY SizesAssumption DEF Slot
<1>3. ASSUME NEW j \in 0 .. k - 1 PROVE ProbeSlot(id, j) # h0
  BY <1>1 DEF EndsAt, ProbeEnds
<1>4. e.hash_table \in [Slot -> Nodes \cup {NULL}] /\ e.key \in [Nodes -> Ids \cup {NULL}] /\ h0 \in Slot
  BY CacheTypes, SearchFinds DEF CacheInv
<1>5. \A h \in Slot : e.hash_table[h] # n
  BY PointersAssumption DEF CacheInv, Found
<1>6. ASSUME NEW j \in 0 .. k, ProbeSlot(id, j) # h0
      PROVE  ProbeEnds(r, id, j) <=> ProbeEnds(e, id, j)
  <2> DEFINE h == ProbeSlot(id, j)
  <2>1. h \in Slot /\ h # h0
    BY <1>2, <1>6, ProbeSlots
  <2>2. r.hash_table[h] = e.hash_table[h] /\ e.hash_table[h] \in Nodes \cup {NULL} /\ e.hash_table[h] # n
    BY <1>4, <1>5, <2>1
  <2>3. e.hash_table[h] # NULL => r.key[e.hash_table[h]] = e.key[e.hash_table[h]]
    BY <1>4, <2>2
  <2> QED BY <2>2, <2>3 DEF ProbeEnds
<1>7. ProbeEnds(r, id, k)
  <2>1. CASE id = new
    <3>1. r.hash_table[h0] = n /\ r.key[n] = new
      BY <1>4
    <3> QED BY <1>1, <2>1, <3>1 DEF ProbeEnds
  <2>2. CASE e.hash_table[Probe(e, id)] # NULL
    <3>1. ProbeSlot(id, k) # h0 /\ k \in 0 .. k
      BY <1>1, <1>2, <2>2
    <3> QED BY <1>1, <1>6, <3>1 DEF EndsAt
  <2> QED BY <2>1, <2>2
<1>8. EndsAt(r, id, k)
  <2>1. \A j \in 0 .. k - 1 : j \in 0 .. k
    BY <1>2
  <2> QED BY <1>1, <1>3, <1>6, <1>7, <2>1 DEF EndsAt
<1> QED BY <1>1, <1>8, ProbeIs

\* put_msg makes the new node the most recently used one, to be found under its id.
LEMMA InsertEffect ==
    ASSUME NEW e, CacheInv(e), NEW s, ListOf(e, s), e.current_size < CACHE_CAPACITY,
           NEW msg \in Message, e.hash_table[Probe(e, msg.id)] = NULL,
           NEW n \in Nodes \ e.allocated
    PROVE  LET r == Insert(e, n, msg, Probe(e, msg.id))
           IN  /\ CacheInv(r)
               /\ ListOf(r, Add(s, e.current_size, n))
               /\ r.allocated = e.allocated \cup {n}
               /\ r.current_size = e.current_size + 1
               /\ r.hash_table = [e.hash_table EXCEPT ![Probe(e, msg.id)] = n]
               /\ r.key[n] = msg.id /\ r.value[n] = msg.body
               /\ \A x \in e.allocated : r.key[x] = e.key[x] /\ r.value[x] = e.value[x]
<1> DEFINE N == e.current_size
           h0 == Probe(e, msg.id)
           f == Filled(e, n, msg)
           a == add_node_to_tail(f, n)
           r == Insert(e, n, msg, h0)
<1>1. /\ e \in Cache /\ N \in Nat /\ s \in Orders(N) /\ Links(e.next, e.prev, s, N)
      /\ e.allocated = Members(s, N) /\ e.next \in Nexts /\ e.prev \in Prevs
      /\ e.allocated \subseteq Nodes
  BY CacheTypes DEF CacheInv, ListOf
<1>2. msg.id \in Ids /\ msg.body \in Bodies /\ h0 \in Slot
  BY SearchFinds DEF Message
<1>3. IsFilled(e, n, msg, f)
  BY <1>1, FillFields
<1>4. r = Entered(a, n, h0)
  BY DEF Insert, Entered, Filled
<1> HIDE DEF f
<1>5. /\ e.prev[tail] \in Nodes \cup {head}
      /\ Links([e.next EXCEPT ![e.prev[tail]] = n, ![n] = tail],
               [e.prev EXCEPT ![n] = e.prev[tail], ![tail] = n], Add(s, N, n), N + 1)
  BY <1>1, LinkIn
<1>6. f \in Cache /\ f.prev[tail] \in Nodes \cup {head}
  BY <1>3, <1>5 DEF IsFilled
<1>7. /\ a \in Cache
      /\ a.next = [f.next EXCEPT ![f.prev[tail]] = n, ![n] = tail]
      /\ a.prev = [f.prev EXCEPT ![n] = f.prev[tail], ![tail] = n]
      /\ a.hash_table = f.hash_table /\ a.key = f.key /\ a.value = f.value
      /\ a.allocated = f.allocated /\ a.current_size = f.current_size
  BY <1>6, AddFields
<1> HIDE DEF a
<1>8. IsEntered(a, n, h0, r)
  <2>1. a.current_size < CACHE_CAPACITY
    BY <1>3, <1>7 DEF IsFilled
  <2> QED BY <1>2, <1>4, <1>7, <2>1, EnterFields
<1> HIDE DEF r, h0
<1>9. /\ r \in Cache /\ Links(r.next, r.prev, Add(s, N, n), N + 1)
      /\ r.hash_table = [e.hash_table EXCEPT ![h0] = n]
      /\ r.key = [e.key EXCEPT ![n] = msg.id] /\ r.value = [e.value EXCEPT ![n] = msg.body]
      /\ r.allocated = e.allocated \cup {n} /\ r.current_size = N + 1
  BY <1>3, <1>5, <1>7, <1>8 DEF IsFilled, IsEntered
<1>10. ListOf(r, Add(s, N, n))
  BY <1>1, <1>9, AddLinks DEF ListOf
<1>11. /\ r.key[n] = msg.id /\ r.value[n] = msg.body
       /\ \A x \in e.allocated : r.key[x] = e.key[x] /\ r.value[x] = e.value[x]
  BY <1>1, <1>9, CacheTypes
<1>12. \A x \in e.allocated : Probe(r, e.key[x]) = Probe(e, e.key[x])
  <2> TAKE x \in e.allocated
  <2>1. e.key[x] \in Ids /\ e.hash_table[Probe(e, e.key[x])] # NULL
    BY <1>1, PointersAssumption DEF CacheInv, Found
  <2> QED BY <1>2, <1>9, <2>1, InsertionSpares DEF h0
<1>13. Probe(r, msg.id) = h0
  BY <1>2, <1>9, InsertionSpares DEF h0
<1>14. /\ r.hash_table[h0] = n
       /\ \A h \in Slot : h # h0 => r.hash_table[h] = e.hash_table[h]
  BY <1>1, <1>2, <1>9, CacheTypes
<1>15. Found(r)
  <2>1. \A x \in r.allocated : r.key[x] \in Ids /\ r.value[x] \in Bodies
    BY <1>2, <1>9, <1>11 DEF CacheInv, Found
  <2>2. ASSUME NEW h \in Slot, r.hash_table[h] # NULL
        PROVE  r.hash_table[h] \in r.allocated /\ Probe(r, r.key[r.hash_table[h]]) = h
    <3>1. CASE h = h0
      BY <1>9, <1>11, <1>13, <1>14, <3>1
    <3>2. CASE h # h0
      <4>1. e.hash_table[h] \in e.allocated /\ Probe(e, e.key[e.hash_table[h]]) = h
        BY <1>14, <2>2, <3>2 DEF CacheInv, Found
      <4> QED BY <1>9, <1>11, <1>12, <1>14, <3>2, <4>1
    <3> QED BY <3>1, <3>2
  <2>3. ASSUME NEW x \in r.allocated PROVE r.hash_table[Probe(r, r.key[x])] = x
    <3>1. CASE x = n
      BY <1>11, <1>13, <1>14, <3>1
    <3>2. CASE x \in e.allocated
      <4>1. e.hash_table[Probe(e, e.key[x])] = x /\ Probe(e, e.key[x]) \in Slot
        BY <3>2, SearchFinds DEF CacheInv, Found
      <4>2. Probe(e, e.key[x]) # h0
        BY <1>1, <3>2, <4>1, PointersAssumption DEF h0
      <4> QED BY <1>11, <1>12, <1>14, <3>2, <4>1, <4>2
    <3> QED BY <1>9, <3>1, <3>2
  <2> QED BY <2>1, <2>2, <2>3 DEF Found
<1>16. CacheInv(r)
  BY <1>9, <1>10, <1>15 DEF CacheInv
<1> QED BY <1>9, <1>10, <1>11, <1>16 DEF r, h0

\* put_msg gives the node of a cached message its new body and makes it the most recently used one.
LEMMA UpdateEffect ==
    ASSUME NEW m, CacheInv(m), NEW s, ListOf(m, s), NEW i \in 1 .. m.current_size, NEW msg \in Message
    PROVE  LET r == Update(m, s[i], msg)
           IN  /\ CacheInv(r)
               /\ ListOf(r, Used(s, m.current_size, i))
               /\ r.allocated = m.allocated /\ r.current_size = m.current_size
               /\ r.hash_table = m.hash_table /\ r.key = m.key
               /\ r.value[s[i]] = msg.body
               /\ \A x \in m.allocated \ {s[i]} : r.value[x] = m.value[x]
<1> DEFINE n == s[i]
           a == Assigned(m, n, msg.body)
           r == MoveToTail(a, n)
<1>1. m \in Cache /\ n \in Nodes /\ n \in m.allocated /\ m.allocated \subseteq Nodes /\ msg.body \in Bodies
  BY CacheTypes DEF CacheInv, ListOf, Orders, Members, Message
<1>2. IsAssigned(m, n, msg.body, a)
  BY <1>1, AssignFields
<1> HIDE DEF a
<1>3. a.value[n] = msg.body /\ \A x \in m.allocated \ {n} : a.value[x] = m.value[x]
  BY <1>1, <1>2, CacheTypes DEF IsAssigned
<1>4. \A id : Probe(a, id) = Probe(m, id)
  BY <1>2, SameSearches DEF IsAssigned
<1>5. Found(a)
  BY <1>1, <1>2, <1>3, <1>4 DEF IsAssigned, Found, CacheInv
<1>6. ListOf(a, s) /\ a.current_size = m.current_size
  BY <1>2 DEF IsAssigned, ListOf
<1>7. CacheInv(a)
  BY <1>2, <1>5, <1>6 DEF IsAssigned, CacheInv
<1>8. /\ CacheInv(r)
      /\ ListOf(r, Used(s, a.current_size, i))
      /\ r.hash_table = a.hash_table /\ r.key = a.key /\ r.value = a.value
      /\ r.allocated = a.allocated /\ r.current_size = a.current_size
  BY <1>6, <1>7, MoveKeeps
<1>9. r = Update(m, n, msg)
  BY DEF Update, Assigned, a
<1> HIDE DEF r
<1> QED BY <1>2, <1>3, <1>6, <1>8, <1>9 DEF IsAssigned

-----------------------------------------------------------------------------
(* The entries of LRUSpec.                                                 *)

\* The message in node n.
Entry(m, n) == [id |-> m.key[n], body |-> m.value[n]]

\* The entries are the messages in the nodes of the list.
LEMMA EntriesIs ==
    ASSUME NEW m, CacheInv(m), NEW s, ListOf(m, s)
    PROVE  /\ m.current_size \in Nat
           /\ Entries(m) \in [1 .. m.current_size -> Message]
           /\ \A k \in 1 .. m.current_size : Entries(m)[k] = Entry(m, s[k]) /\ s[k] \in m.allocated
           /\ \A n \in m.allocated : \E k \in 1 .. m.current_size : n = s[k]
<1>1. m.current_size \in Nat
  BY CacheTypes DEF CacheInv
<1>2. Order(m) = s
  BY <1>1, OrderIs
<1>3. Entries(m) = [k \in 1 .. m.current_size |-> Entry(m, s[k])]
  BY <1>2 DEF Entries, Entry
<1>4. m.allocated = Members(s, m.current_size)
  BY DEF ListOf
<1>5. \A k \in 1 .. m.current_size : s[k] \in m.allocated
  BY <1>4 DEF Members
<1>6. \A n \in m.allocated : Entry(m, n) \in Message
  BY DEF Entry, Message, CacheInv, Found
<1>7. \A n \in m.allocated : \E k \in 1 .. m.current_size : n = s[k]
  BY <1>4 DEF Members
<1> QED BY <1>1, <1>3, <1>5, <1>6, <1>7

\* Appending to a function on 1 .. N.
LEMMA AppendIs ==
    ASSUME NEW S, NEW N \in Nat, NEW e \in [1 .. N -> S], NEW x \in S, NEW f \in [1 .. N + 1 -> S],
           \A k \in 1 .. N : f[k] = e[k], f[N + 1] = x
    PROVE  e \in Seq(S) /\ Len(e) = N /\ f = Append(e, x)
<1>1. e \in Seq(S) /\ f \in Seq(S)
  BY SeqDef
<1>2. Len(e) = N /\ Len(f) = N + 1
  BY <1>1, LenProperties
<1>3. \A k \in 1 .. N + 1 : k = N + 1 \/ k \in 1 .. N
  OBVIOUS
<1>4. /\ Append(e, x) \in Seq(S) /\ Len(Append(e, x)) = N + 1
      /\ \A k \in 1 .. N : Append(e, x)[k] = e[k]
      /\ Append(e, x)[N + 1] = x
  BY <1>1, <1>2, AppendProperties
<1>5. f = Append(e, x)
  BY <1>1, <1>2, <1>3, <1>4, SeqEqual
<1> QED BY <1>1, <1>2, <1>5

\* The length of the entries.
LEMMA EntriesLen ==
    ASSUME NEW m, CacheInv(m)
    PROVE  Entries(m) \in Seq(Message) /\ Len(Entries(m)) = m.current_size
<1>1. m.current_size \in Nat /\ Entries(m) \in [1 .. m.current_size -> Message]
  BY EntriesIs DEF CacheInv
<1>2. Entries(m) \in Seq(Message)
  BY <1>1, SeqDef
<1>3. Entries(m) \in [1 .. Len(Entries(m)) -> Message] /\ Len(Entries(m)) \in Nat
  BY <1>2, LenProperties
<1> QED BY <1>1, <1>2, <1>3

\* A search that ends at an empty slot is a miss in LRUSpec too.
LEMMA NotCached ==
    ASSUME CacheInv(cache), NEW id \in Ids, cache.hash_table[Probe(cache, id)] = NULL
    PROVE  ~ Abstract!Cached(id)
<1>1. PICK s : ListOf(cache, s)
  BY DEF CacheInv
<1>2. \A k \in 1 .. cache.current_size : Entries(cache)[k] = Entry(cache, s[k]) /\ s[k] \in cache.allocated
  BY <1>1, EntriesIs
<1>3. \A n \in cache.allocated : Entry(cache, n).id # id
  BY SearchMeans DEF Entry
<1>4. Len(Entries(cache)) = cache.current_size
  BY EntriesLen
<1> QED BY <1>2, <1>3, <1>4 DEF Abstract!Cached

\* Entries(r) is what LRUSpec makes of the entries e when the i-th one is used, as msg.
LEMMA UsedEntries ==
    ASSUME NEW m, CacheInv(m), NEW s, ListOf(m, s), NEW i \in 1 .. m.current_size,
           NEW r, CacheInv(r), ListOf(r, Used(s, m.current_size, i)), r.current_size = m.current_size,
           NEW msg \in Message, Entry(r, s[i]) = msg,
           \A x \in m.allocated \ {s[i]} : Entry(r, x) = Entry(m, x)
    PROVE  Entries(r) = Append(Drop(Entries(m), m.current_size, i), msg)
<1> DEFINE N == m.current_size
           e == [j \in 1 .. N - 1 |-> IF j < i THEN Entries(m)[j] ELSE Entries(m)[j + 1]]
<1>1. /\ N \in Nat /\ s \in Orders(N) /\ i \in 1 .. N /\ Entries(m) \in [1 .. N -> Message]
      /\ \A k \in 1 .. N : Entries(m)[k] = Entry(m, s[k]) /\ s[k] \in m.allocated
  BY EntriesIs DEF ListOf
<1>2. /\ Entries(r) \in [1 .. N -> Message]
      /\ \A k \in 1 .. N : Entries(r)[k] = Entry(r, Used(s, N, i)[k])
  BY EntriesIs
<1>3. N - 1 \in Nat /\ N - 1 + 1 = N
  BY <1>1
<1>4. ASSUME NEW k \in 1 .. N - 1
      PROVE  e[k] \in Message /\ Entries(r)[k] = e[k]
  <2> DEFINE j == IF k < i THEN k ELSE k + 1
  <2>1. j \in 1 .. N /\ j # i /\ k \in 1 .. N /\ k <= N - 1 /\ k \in 1 .. N - 1 + 1
    BY <1>1, <1>3
  <2>2. e[k] = Entries(m)[j]
    OBVIOUS
  <2>3. Used(s, N, i)[k] = s[j]
    BY <2>1 DEF Used, Add, Drop
  <2> HIDE DEF j, e
  <2>4. s[j] # s[i]
    BY <1>1, <2>1 DEF Orders
  <2>5. Entries(r)[k] = Entry(m, s[j])
    BY <1>1, <1>2, <2>1, <2>3, <2>4
  <2> QED BY <1>1, <2>1, <2>2, <2>5
<1>5. e \in [1 .. N - 1 -> Message]
  BY <1>4
<1>6. Entries(r)[N - 1 + 1] = msg
  <2>1. Used(s, N, i)[N] = s[i]
    BY <1>1, <1>3 DEF Used, Add
  <2> QED BY <1>1, <1>2, <1>3, <2>1
<1>7. Entries(r) \in [1 .. N - 1 + 1 -> Message]
  BY <1>2, <1>3
<1> HIDE DEF e
<1>8. Entries(r) = Append(e, msg)
  BY <1>3, <1>4, <1>5, <1>6, <1>7, AppendIs
<1> QED BY <1>8 DEF e, Drop

\* A used entry in LRUSpec.
LEMMA UsesEntry ==
    ASSUME CacheInv(cache), NEW s, ListOf(cache, s), NEW i \in 1 .. cache.current_size,
           CacheInv(cache'), ListOf(cache', Used(s, cache.current_size, i)),
           cache'.current_size = cache.current_size,
           NEW msg \in Message, cache.key[s[i]] = msg.id, Entry(cache', s[i]) = msg,
           \A x \in cache.allocated \ {s[i]} : Entry(cache', x) = Entry(cache, x)
    PROVE  Abstract!Use(msg)
<1>1. Entries(cache)' = Append(Drop(Entries(cache), cache.current_size, i), msg)
  BY UsedEntries
<1>2. Entries(cache)' = Append(Abstract!Without(i), msg)
  BY <1>1, EntriesLen DEF Abstract!Without, Drop
<1>3. i \in 1 .. Len(Entries(cache)) /\ Entries(cache)[i].id = msg.id
  <2>1. Entries(cache)[i] = Entry(cache, s[i])
    BY EntriesIs
  <2>2. Entry(cache, s[i]).id = msg.id
    BY DEF Entry
  <2> QED BY <2>1, <2>2, EntriesLen
<1> QED BY <1>2, <1>3 DEF Abstract!Use

\* After PutInCache one node holds msg, and all others are as they were and hold other ids.
OthersKept(msg) ==
    \E n0 \in cache'.allocated :
        /\ Entry(cache', n0) = msg
        /\ \A n \in cache'.allocated \ {n0} :
              n \in cache.allocated /\ Entry(cache', n) = Entry(cache, n) /\ cache.key[n] # msg.id

\* No node has changed its slot, and the new one is where the search for its id had ended.
SlotsKept(msg) ==
    \A h \in Slot : cache'.hash_table[h] # NULL =>
        \/ h = Probe(cache, msg.id) /\ cache'.key[cache'.hash_table[h]] = msg.id
        \/ /\ cache'.hash_table[h] = cache.hash_table[h]
           /\ cache'.key[cache.hash_table[h]] = cache.key[cache.hash_table[h]]

\* A cached node is one of the list, and no other holds its id.
LEMMA CachedAt ==
    ASSUME NEW m, CacheInv(m), NEW s, ListOf(m, s), NEW id \in Ids, m.hash_table[Probe(m, id)] # NULL
    PROVE  \E i \in 1 .. m.current_size :
              /\ s[i] = m.hash_table[Probe(m, id)] /\ s[i] \in m.allocated /\ m.key[s[i]] = id
              /\ \A n \in m.allocated \ {s[i]} : m.key[n] # id
<1> DEFINE n0 == m.hash_table[Probe(m, id)]
<1>1. n0 \in m.allocated /\ m.key[n0] = id
  BY SearchMeans
<1>2. PICK i \in 1 .. m.current_size : n0 = s[i]
  BY <1>1, EntriesIs
<1>3. \A n \in m.allocated : m.key[n] = id => n = n0
  BY DEF CacheInv, Found
<1> QED BY <1>1, <1>2, <1>3

\* The message put is the most recently used entry afterwards.
LEMMA PutEffect ==
    ASSUME CacheInv(cache), NEW msg \in Message, ~ Cuts(msg.id), PutInCache(msg)
    PROVE  CacheInv(cache') /\ OthersKept(msg) /\ SlotsKept(msg) /\ Abstract!Use(msg)
<1> DEFINE N == cache.current_size
           h == Probe(cache, msg.id)
<1>1. PICK s : ListOf(cache, s)
  BY DEF CacheInv
<1>2. msg.id \in Ids /\ msg.body \in Bodies /\ msg = [id |-> msg.id, body |-> msg.body]
  BY DEF Message
<1>3. N \in Nat /\ N <= CACHE_CAPACITY
  BY CacheTypes DEF CacheInv
<1>4. CASE cache.hash_table[h] # NULL
  <2>1. cache' = Update(cache, cache.hash_table[h], msg)
    BY <1>4 DEF PutInCache
  <2>2. PICK i \in 1 .. N : /\ s[i] = cache.hash_table[h] /\ s[i] \in cache.allocated /\ cache.key[s[i]] = msg.id
                            /\ \A n \in cache.allocated \ {s[i]} : cache.key[n] # msg.id
    BY <1>1, <1>2, <1>4, CachedAt
  <2>3. cache' = Update(cache, s[i], msg)
    BY <2>1, <2>2
  <2>4. /\ CacheInv(cache')
        /\ ListOf(cache', Used(s, N, i))
        /\ cache'.allocated = cache.allocated /\ cache'.current_size = N
        /\ cache'.hash_table = cache.hash_table /\ cache'.key = cache.key
        /\ cache'.value[s[i]] = msg.body
        /\ \A x \in cache.allocated \ {s[i]} : cache'.value[x] = cache.value[x]
    BY <1>1, <2>3, UpdateEffect
  <2>5. Entry(cache', s[i]) = msg /\ \A x \in cache.allocated \ {s[i]} : Entry(cache', x) = Entry(cache, x)
    BY <1>2, <2>2, <2>4 DEF Entry
  <2>6. OthersKept(msg)
    BY <2>2, <2>4, <2>5 DEF OthersKept
  <2>7. Abstract!Use(msg)
    BY <1>1, <2>2, <2>4, <2>5, UsesEntry
  <2>8. SlotsKept(msg)
    BY <2>4 DEF SlotsKept
  <2> QED BY <2>4, <2>6, <2>7, <2>8
<1>5. CASE cache.hash_table[h] = NULL
  <2> DEFINE e == evict_if_needed(cache)
             t == IF N < CACHE_CAPACITY THEN s ELSE Drop(s, N, 1)
             M == IF N < CACHE_CAPACITY THEN N ELSE N - 1
  <2>1. /\ CacheInv(e) /\ e.current_size < CACHE_CAPACITY
        /\ Probe(e, msg.id) = h /\ e.hash_table[Probe(e, msg.id)] = NULL
        /\ \A n \in e.allocated : n \in cache.allocated /\ e.key[n] = cache.key[n] /\ e.value[n] = cache.value[n]
        /\ \A g \in Slot : e.hash_table[g] # NULL => e.hash_table[g] = cache.hash_table[g]
        /\ ListOf(e, t) /\ e.current_size = M
    BY <1>1, <1>2, <1>5, EvictEffect
  <2>2. PICK n \in Nodes \ e.allocated : cache' = Insert(e, n, msg, h)
    BY <1>5 DEF PutInCache
  <2> HIDE DEF e, t, M
  <2>3. /\ CacheInv(cache')
        /\ ListOf(cache', Add(t, M, n))
        /\ cache'.allocated = e.allocated \cup {n}
        /\ cache'.current_size = M + 1
        /\ cache'.hash_table = [e.hash_table EXCEPT ![h] = n]
        /\ cache'.key[n] = msg.id /\ cache'.value[n] = msg.body
        /\ \A x \in e.allocated : cache'.key[x] = e.key[x] /\ cache'.value[x] = e.value[x]
    BY <2>1, <2>2, InsertEffect
  <2>4. /\ Entry(cache', n) = msg
        /\ \A x \in e.allocated : Entry(cache', x) = Entry(e, x) /\ Entry(e, x) = Entry(cache, x)
    BY <1>2, <2>1, <2>3 DEF Entry
  <2>5. OthersKept(msg)
    <3>1. \A x \in cache.allocated : cache.key[x] # msg.id
      BY <1>2, <1>5, SearchMeans
    <3> QED BY <2>1, <2>3, <2>4, <3>1 DEF OthersKept
  <2>6. Abstract!Use(msg)
    <3>1. ~ Abstract!Cached(msg.id)
      BY <1>2, <1>5, NotCached
    <3>2. /\ M \in Nat /\ Entries(e) \in [1 .. M -> Message]
          /\ \A k \in 1 .. M : Entries(e)[k] = Entry(e, t[k]) /\ t[k] \in e.allocated
      BY <2>1, EntriesIs
    <3>3. /\ Entries(cache') \in [1 .. M + 1 -> Message]
          /\ \A k \in 1 .. M + 1 : Entries(cache')[k] = Entry(cache', Add(t, M, n)[k])
      BY <2>3, EntriesIs
    <3>4. /\ \A k \in 1 .. M : k \in 1 .. M + 1 /\ Add(t, M, n)[k] = t[k]
          /\ M + 1 \in 1 .. M + 1 /\ Add(t, M, n)[M + 1] = n
      BY <3>2 DEF Add
    <3>5. \A k \in 1 .. M : Entries(cache')[k] = Entries(e)[k]
      BY <2>4, <3>2, <3>3, <3>4
    <3>6. Entries(cache')[M + 1] = msg
      BY <2>4, <3>3, <3>4
    <3>7. Entries(cache') = Append(Entries(e), msg)
      BY <3>2, <3>3, <3>5, <3>6, AppendIs
    <3>8. /\ Entries(cache) \in [1 .. N -> Message] /\ Len(Entries(cache)) = N
          /\ \A k \in 1 .. N : Entries(cache)[k] = Entry(cache, s[k])
      BY <1>1, EntriesIs, EntriesLen
    <3>9. Entries(e) = IF N < CACHE_CAPACITY THEN Entries(cache) ELSE Abstract!Without(1)
      <4>1. CASE N < CACHE_CAPACITY
        <5>1. M = N /\ t = s
          BY <4>1 DEF M, t
        <5>2. \A k \in 1 .. N : Entries(e)[k] = Entries(cache)[k]
          BY <2>4, <3>2, <3>8, <5>1
        <5> QED BY <3>2, <3>8, <4>1, <5>1, <5>2
      <4>2. CASE ~ (N < CACHE_CAPACITY)
        <5>1. M = N - 1 /\ t = Drop(s, N, 1)
          BY <4>2 DEF M, t
        <5>2. \A k \in 1 .. N - 1 : t[k] = s[k + 1] /\ k + 1 \in 1 .. N /\ ~ (k < 1)
          BY <1>3, <5>1 DEF Drop
        <5>3. \A k \in 1 .. N - 1 : Entries(e)[k] = Entries(cache)[k + 1]
          BY <2>4, <3>2, <3>8, <5>1, <5>2
        <5>4. Abstract!Without(1) = [k \in 1 .. N - 1 |-> IF k < 1 THEN Entries(cache)[k] ELSE Entries(cache)[k + 1]]
          BY <3>8 DEF Abstract!Without
        <5>5. Abstract!Without(1) = [k \in 1 .. N - 1 |-> Entries(cache)[k + 1]]
          BY <5>2, <5>4
        <5> QED BY <3>2, <4>2, <5>1, <5>3, <5>5
      <4> QED BY <4>1, <4>2
    <3>10. Entries(cache)' = Append(IF Len(Entries(cache)) < CACHE_CAPACITY
                                    THEN Entries(cache) ELSE Abstract!Without(1), msg)
      BY <3>7, <3>8, <3>9
    <3> QED BY <3>1, <3>10 DEF Abstract!Use
  <2>7. SlotsKept(msg)
    <3> SUFFICES ASSUME NEW g \in Slot, cache'.hash_table[g] # NULL, g # h
                 PROVE  /\ cache'.hash_table[g] = cache.hash_table[g]
                        /\ cache'.key[cache.hash_table[g]] = cache.key[cache.hash_table[g]]
      <4>1. cache'.hash_table[h] = n
        BY <1>2, <2>1, <2>3, SearchFinds, CacheTypes DEF CacheInv
      <4> QED BY <2>3, <4>1 DEF SlotsKept
    <3>1. cache'.hash_table[g] = e.hash_table[g]
      BY <2>1, <2>3, CacheTypes DEF CacheInv
    <3>2. e.hash_table[g] \in e.allocated
      BY <2>1, <3>1 DEF CacheInv, Found
    <3> QED BY <2>1, <2>3, <3>1, <3>2
  <2> QED BY <2>3, <2>5, <2>6, <2>7
<1> QED BY <1>4, <1>5

-----------------------------------------------------------------------------
(* The whole invariant.                                                    *)

\* While its file is written, a cached message is the one that is written.
StoringCached ==
    storing # NULL => \A n \in cache.allocated :
                         cache.key[n] = storing.id => cache.value[n] = storing.body

LRUInv ==
    /\ TypeOK
    /\ CacheInv(cache)
    /\ StoringCached
    /\ WriteThrough

\* The cache that init_cache makes is empty.
LEMMA EmptyCache == CacheInv(init_cache) /\ Entries(init_cache) = <<>>
<1> DEFINE s == [k \in 1 .. 0 |-> head]
<1>1. /\ init_cache \in Cache /\ init_cache.current_size = 0 /\ init_cache.allocated = {}
      /\ init_cache.next[head] = tail /\ init_cache.prev[tail] = head
      /\ \A h \in Slot : init_cache.hash_table[h] = NULL
  <2>1. 0 \in 0 .. CACHE_CAPACITY
    BY SizesAssumption
  <2> QED BY <2>1 DEF init_cache, Cache
<1>2. Found(init_cache)
  BY <1>1 DEF Found
<1>3. s \in Orders(0) /\ Members(s, 0) = {}
  BY DEF Orders, Members
<1>4. Links(init_cache.next, init_cache.prev, s, 0)
  BY <1>1 DEF Links, Link
<1>5. ListOf(init_cache, s)
  BY <1>1, <1>3, <1>4 DEF ListOf
<1>6. CacheInv(init_cache)
  BY <1>1, <1>2, <1>5 DEF CacheInv
<1>7. Entries(init_cache) \in Seq(Message) /\ Len(Entries(init_cache)) = 0
  BY <1>1, <1>6, EntriesLen
<1>8. Entries(init_cache) = <<>>
  BY <1>7, EmptySeq
<1> QED BY <1>6, <1>8

\* The invariant holds after main has initialised the cache.
LEMMA InitLRUInv == Init => LRUInv
<1> SUFFICES ASSUME Init PROVE LRUInv
  OBVIOUS
<1>1. cache \in Cache /\ CacheInv(cache) /\ cache.allocated = {}
  BY EmptyCache DEF Init, CacheInv, init_cache
<1>2. TypeOK
  BY <1>1 DEF Init, TypeOK
<1> QED BY <1>1, <1>2 DEF Init, LRUInv, StoringCached, WriteThrough

\* A message put into the cache, and its file opened or not.
LEMMA PutStep ==
    ASSUME LRUInv, NEW msg \in Message, ~ Cuts(msg.id), storing = NULL,
           PutInCache(msg), store_msg(msg), counted' \in {"miss", "none"}
    PROVE  LRUInv' /\ Abstract!Use(msg) /\ Abstract!Store(msg)
<1>1. CacheInv(cache') /\ OthersKept(msg) /\ Abstract!Use(msg)
  BY PutEffect DEF LRUInv
<1>2. /\ msg.id \in Ids /\ msg.body \in Bodies /\ msg = [id |-> msg.id, body |-> msg.body] /\ msg # NULL
  BY PointersAssumption DEF Message
<1>3. /\ disk' \in [Ids -> Bodies \cup {NoFile, Torn}] /\ storing' \in Message \cup {NULL} /\ unsaved' \subseteq Ids
      /\ \A id \in Ids : id # msg.id => disk'[id] = disk[id]
      /\ unsaved \subseteq unsaved'
      /\ storing' = msg \/ (storing' = NULL /\ msg.id \in unsaved')
  BY <1>2 DEF LRUInv, TypeOK, store_msg
<1>4. TypeOK'
  BY <1>1, <1>3 DEF TypeOK, CacheInv
<1>5. PICK n0 \in cache'.allocated :
         /\ Entry(cache', n0) = msg
         /\ \A n \in cache'.allocated \ {n0} :
               n \in cache.allocated /\ Entry(cache', n) = Entry(cache, n) /\ cache.key[n] # msg.id
  BY <1>1 DEF OthersKept
<1>6. cache'.key[n0] = msg.id /\ cache'.value[n0] = msg.body
  BY <1>5 DEF Entry
<1>7. ASSUME NEW n \in cache'.allocated \ {n0}
      PROVE  /\ n \in cache.allocated /\ cache'.key[n] = cache.key[n] /\ cache'.value[n] = cache.value[n]
             /\ cache.key[n] # msg.id /\ cache.key[n] \in Ids
  <2>1. n \in cache.allocated /\ Entry(cache', n) = Entry(cache, n) /\ cache.key[n] # msg.id
    BY <1>5
  <2>2. cache'.key[n] = cache.key[n] /\ cache'.value[n] = cache.value[n]
    BY <2>1 DEF Entry
  <2> QED BY <2>1, <2>2 DEF LRUInv, CacheInv, Found
<1>8. StoringCached'
  BY <1>3, <1>6, <1>7 DEF StoringCached
<1>9. WriteThrough'
  <2> SUFFICES ASSUME NEW n \in cache'.allocated
               PROVE  \/ disk'[cache'.key[n]] = cache'.value[n]
                      \/ storing' # NULL /\ storing' = [id |-> cache'.key[n], body |-> cache'.value[n]]
                      \/ cache'.key[n] \in unsaved'
    BY DEF WriteThrough
  <2>1. CASE n = n0
    BY <1>2, <1>3, <1>6, <2>1
  <2>2. CASE n # n0
    <3>1. disk[cache.key[n]] = cache.value[n] \/ cache.key[n] \in unsaved
      BY <1>7, <2>2 DEF LRUInv, WriteThrough
    <3> QED BY <1>3, <1>7, <2>2, <3>1
  <2> QED BY <2>1, <2>2
<1>10. Abstract!Store(msg)
  BY DEF store_msg, Abstract!Store
<1> QED BY <1>1, <1>4, <1>8, <1>9, <1>10 DEF LRUInv

\* A message found in the cache.
LEMMA HitStep ==
    ASSUME LRUInv, NEW id \in Ids, GetHit(id)
    PROVE  LRUInv' /\ Abstract!Hit(id)
<1> DEFINE N == cache.current_size
<1>1. PICK s : ListOf(cache, s)
  BY DEF LRUInv, CacheInv
<1>2. PICK i \in 1 .. N : /\ s[i] = cache.hash_table[Probe(cache, id)]
                          /\ s[i] \in cache.allocated /\ cache.key[s[i]] = id
  BY <1>1, CachedAt DEF LRUInv, GetHit
<1>3. /\ CacheInv(cache') /\ ListOf(cache', Used(s, N, i))
      /\ cache'.key = cache.key /\ cache'.value = cache.value
      /\ cache'.allocated = cache.allocated /\ cache'.current_size = N
  BY <1>1, <1>2, MoveKeeps DEF LRUInv, GetHit
<1>4. UNCHANGED <<disk, storing, unsaved>> /\ counted' = "hit" /\ storing = NULL
  BY DEF GetHit
<1>5. LRUInv'
  <2>1. TypeOK'
    BY <1>3, <1>4 DEF LRUInv, TypeOK, CacheInv
  <2>2. StoringCached' /\ WriteThrough'
    BY <1>3, <1>4 DEF LRUInv, StoringCached, WriteThrough
  <2> QED BY <1>3, <2>1, <2>2 DEF LRUInv
<1>6. \A n : Entry(cache', n) = Entry(cache, n)
  BY <1>3 DEF Entry
<1> DEFINE msg == Entry(cache, s[i])
<1>7. msg \in Message /\ msg.id = id
  BY <1>2 DEF Entry, Message, LRUInv, CacheInv, Found
<1>8. Entries(cache)[i] = msg /\ i \in 1 .. Len(Entries(cache))
  BY <1>1, <1>2, EntriesIs, EntriesLen DEF LRUInv
<1> HIDE DEF msg
<1>9. Abstract!Use(msg)
  <2>1. Entry(cache', s[i]) = msg /\ cache.key[s[i]] = msg.id
    BY <1>2, <1>6, <1>7 DEF msg
  <2> QED BY <1>1, <1>2, <1>3, <1>6, <1>7, <2>1, UsesEntry DEF LRUInv
<1> QED BY <1>4, <1>5, <1>7, <1>8, <1>9 DEF Abstract!Hit

\* The rest of store_msg.
LEMMA StoreWriteStep ==
    ASSUME LRUInv, StoreWrite
    PROVE  LRUInv' /\ Abstract!StoreReturns
<1>1. /\ storing \in Message /\ storing.id \in Ids /\ storing.body \in Bodies /\ storing # NULL
      /\ cache' = cache /\ storing' = NULL /\ counted' = "none"
  BY DEF LRUInv, TypeOK, StoreWrite, Message
<1>2. TypeOK'
  BY <1>1 DEF LRUInv, TypeOK, StoreWrite
<1>3. WriteThrough'
  <2> SUFFICES ASSUME NEW n \in cache.allocated
               PROVE  disk'[cache.key[n]] = cache.value[n] \/ cache.key[n] \in unsaved'
    BY <1>1 DEF WriteThrough
  <2>1. cache.key[n] \in Ids /\ disk \in [Ids -> Bodies \cup {NoFile, Torn}]
    BY DEF LRUInv, CacheInv, Found, TypeOK
  <2>2. CASE cache.key[n] = storing.id
    <3>1. cache.value[n] = storing.body
      BY <1>1, <2>2 DEF LRUInv, StoringCached
    <3> QED BY <1>1, <2>1, <2>2, <3>1 DEF StoreWrite
  <2>3. CASE cache.key[n] # storing.id
    <3>1. disk[cache.key[n]] = cache.value[n] \/ cache.key[n] \in unsaved
      BY <2>3 DEF LRUInv, WriteThrough
    <3>2. disk'[cache.key[n]] = disk[cache.key[n]] /\ (cache.key[n] \in unsaved => cache.key[n] \in unsaved')
      BY <1>1, <2>1, <2>3 DEF StoreWrite
    <3> QED BY <3>1, <3>2
  <2> QED BY <2>2, <2>3
<1>4. LRUInv'
  BY <1>1, <1>2, <1>3 DEF LRUInv, StoringCached
<1>5. Entries(cache)' = Entries(cache)
  BY <1>1
<1> QED BY <1>4, <1>5 DEF StoreWrite, Abstract!StoreReturns

\* The process dies and starts again.
LEMMA CrashStep ==
    ASSUME LRUInv, Crash
    PROVE  LRUInv' /\ Abstract!Restart
<1>1. /\ CacheInv(cache') /\ cache'.allocated = {} /\ Entries(cache') = <<>>
      /\ storing' = NULL /\ unsaved' = {} /\ counted' = "none" /\ disk' = disk
  BY EmptyCache DEF Crash, init_cache
<1>2. TypeOK'
  BY <1>1 DEF LRUInv, TypeOK, CacheInv
<1>3. LRUInv'
  BY <1>1, <1>2 DEF LRUInv, StoringCached, WriteThrough
<1>4. Entries(cache)' = <<>>
  BY <1>1
<1> QED BY <1>1, <1>3, <1>4 DEF Abstract!Restart

\* Every step keeps the invariant and is a step of LRUSpec or leaves it alone.
LEMMA CarefulStep == LRUInv /\ [CarefulNext]_cacheVars => LRUInv' /\ [Abstract!Next]_Abstract!vars
<1> SUFFICES ASSUME LRUInv, [CarefulNext]_cacheVars
             PROVE  LRUInv' /\ [Abstract!Next]_Abstract!vars
  OBVIOUS
<1>1. ASSUME NEW id \in Ids, GetHit(id) PROVE LRUInv' /\ Abstract!Next
  BY <1>1, HitStep DEF Abstract!Next
<1>2. ASSUME NEW id \in Ids, GetAbsent(id) PROVE LRUInv' /\ Abstract!Next
  <2>1. /\ UNCHANGED <<cache, disk, storing, unsaved>> /\ counted' = "miss" /\ storing = NULL
        /\ cache.hash_table[Probe(cache, id)] = NULL
    BY <1>2 DEF GetAbsent
  <2>2. disk[id] \notin Bodies
    BY <1>2, PointersAssumption DEF GetAbsent
  <2>3. LRUInv'
    <3>1. TypeOK'
      BY <2>1 DEF LRUInv, TypeOK
    <3>2. StoringCached' /\ WriteThrough'
      BY <2>1 DEF LRUInv, StoringCached, WriteThrough
    <3> QED BY <2>1, <3>1, <3>2 DEF LRUInv
  <2>4. ~ Abstract!Cached(id)
    BY <2>1, NotCached DEF LRUInv
  <2>5. Entries(cache)' = Entries(cache)
    BY <2>1
  <2>6. Abstract!Miss(id)
    BY <2>1, <2>2, <2>4, <2>5 DEF Abstract!Miss
  <2> QED BY <2>3, <2>6 DEF Abstract!Next
<1>3. ASSUME NEW id \in Ids, ~ Cuts(id), GetMiss(id) PROVE LRUInv' /\ Abstract!Next
  <2> DEFINE msg == [id |-> id, body |-> disk[id]]
  <2>1. /\ storing = NULL /\ cache.hash_table[Probe(cache, id)] = NULL /\ disk[id] \in Bodies
        /\ PutInCache(msg) /\ store_msg(msg) /\ counted' = "miss"
    BY <1>3 DEF GetMiss
  <2>2. msg \in Message /\ msg.id = id
    BY <2>1 DEF Message
  <2> HIDE DEF msg
  <2>3. LRUInv' /\ Abstract!Use(msg) /\ Abstract!Store(msg)
    BY <1>3, <2>1, <2>2, PutStep
  <2>4. ~ Abstract!Cached(id)
    BY <2>1, NotCached DEF LRUInv
  <2>5. Abstract!Miss(id)
    BY <2>1, <2>3, <2>4 DEF Abstract!Miss, msg
  <2> QED BY <2>3, <2>5 DEF Abstract!Next
<1>4. ASSUME NEW msg \in Message, ~ Cuts(msg.id), put_msg(msg) PROVE LRUInv' /\ Abstract!Next
  <2>1. storing = NULL /\ PutInCache(msg) /\ store_msg(msg) /\ counted' = "none"
    BY <1>4 DEF put_msg
  <2>2. LRUInv' /\ Abstract!Use(msg) /\ Abstract!Store(msg)
    BY <1>4, <2>1, PutStep
  <2>3. Abstract!Put(msg)
    BY <2>1, <2>2 DEF Abstract!Put
  <2>4. msg.id \in Ids /\ msg.body \in Bodies /\ msg = [id |-> msg.id, body |-> msg.body]
    BY DEF Message
  <2>5. \E id \in Ids, body \in Bodies : Abstract!Put([id |-> id, body |-> body])
    BY <2>3, <2>4
  <2> QED BY <2>2, <2>5 DEF Abstract!Next
<1>5. CASE StoreWrite
  BY <1>5, StoreWriteStep DEF Abstract!Next
<1>6. CASE Crash
  BY <1>6, CrashStep DEF Abstract!Next
<1>7. CASE UNCHANGED cacheVars
  <2>1. UNCHANGED <<cache, disk, storing, unsaved, counted>>
    BY <1>7 DEF cacheVars
  <2>2. LRUInv'
    <3>1. TypeOK'
      BY <2>1 DEF LRUInv, TypeOK
    <3>2. StoringCached' /\ WriteThrough'
      BY <2>1 DEF LRUInv, StoringCached, WriteThrough
    <3> QED BY <2>1, <3>1, <3>2 DEF LRUInv
  <2>3. Entries(cache)' = Entries(cache)
    BY <2>1
  <2> QED BY <2>1, <2>2, <2>3 DEF Abstract!vars
<1> QED BY <1>1, <1>2, <1>3, <1>4, <1>5, <1>6, <1>7 DEF CarefulNext, get_msg_from_cache_or_disk

\* As long as no eviction cuts a search, whatever is looked up, put, evicted or lost in a
\* crash, the invariant holds.
THEOREM LRUInvariant == CarefulSpec => []LRUInv
  BY InitLRUInv, CarefulStep, PTL DEF CarefulSpec

\* The types hold; in particular the cache never holds more than CACHE_CAPACITY messages.
THEOREM LRUTypeCorrect == CarefulSpec => []TypeOK
<1>1. LRUInv => TypeOK
  BY DEF LRUInv
<1> QED BY <1>1, LRUInvariant, PTL

\* Hash table, list and heap agree: what get_msg_from_cache_or_disk, put_msg and
\* evict_if_needed do to the pointers never loses, repeats or misplaces a node.
THEOREM StructuresAgree == CarefulSpec => []TableListAgree
<1>1. LRUInv => TableListAgree
  <2> SUFFICES ASSUME LRUInv PROVE TableListAgree
    OBVIOUS
  <2> DEFINE N == cache.current_size
  <2>1. PICK s : ListOf(cache, s)
    BY DEF LRUInv, CacheInv
  <2>2. cache \in Cache /\ N \in Nat /\ s \in Orders(N) /\ cache.allocated = Members(s, N)
    BY <2>1, CacheTypes DEF LRUInv, CacheInv, ListOf
  <2>3. Order(cache) = s
    BY <2>1, <2>2, OrderIs
  <2>4. {Order(cache)[k] : k \in 1 .. N} = cache.allocated
    BY <2>2, <2>3 DEF Members
  <2>5. Cardinality(cache.allocated) = N
    BY <2>1, <2>2, CountsNodes
  <2>6. ASSUME NEW n \in cache.allocated \cup {head} PROVE cache.prev[cache.next[n]] = n
    <3>1. \E k \in 0 .. N : n = Link(s, N, k)
      <4>1. CASE n = head
        BY <2>2, <4>1, LinkFacts
      <4>2. CASE n \in cache.allocated
        <5>1. PICK k \in 1 .. N : n = s[k]
          BY <2>2, <4>2 DEF Members
        <5>2. k \in 0 .. N /\ Link(s, N, k) = s[k]
          BY <2>2, LinkFacts
        <5> QED BY <5>1, <5>2
      <4> QED BY <4>1, <4>2
    <3>2. PICK k \in 0 .. N : n = Link(s, N, k)
      BY <3>1
    <3> QED BY <2>1, <3>2 DEF ListOf, Links
  <2> QED BY <2>4, <2>5, <2>6 DEF TableListAgree, LRUInv, CacheInv, Found
<1> QED BY <1>1, LRUInvariant, PTL

\* Write-through: a cached message differs from its file only while store_msg is writing
\* it or after store_msg has failed.
THEOREM FilesFollowCache == CarefulSpec => []WriteThrough
<1>1. LRUInv => WriteThrough
  BY DEF LRUInv
<1> QED BY <1>1, LRUInvariant, PTL

\* The hash table with linear probing and the doubly linked list implement an LRU cache: a
\* hit is a hit, and the message thrown out is the one not used for longest.
THEOREM IsLRU == CarefulSpec => ImplementsLRU
<1>1. Init => Abstract!Init
  <2> SUFFICES ASSUME Init PROVE Abstract!Init
    OBVIOUS
  <2>1. Entries(cache) = <<>>
    BY EmptyCache DEF Init
  <2> QED BY <2>1 DEF Init, Abstract!Init
<1>2. LRUInv /\ [CarefulNext]_cacheVars => [Abstract!Next]_Abstract!vars
  BY CarefulStep
<1> QED BY <1>1, <1>2, LRUInvariant, PTL DEF CarefulSpec, ImplementsLRU, Abstract!Spec

-----------------------------------------------------------------------------
(* Ids that do not collide, such as the ids 1 to 20 of main in 103 slots.  *)

NoCollisions == \A i, j \in Ids : hash(i) = hash(j) => i = j

\* Every node is in the slot that the hash of its id names.
InHome == \A h \in Slot : cache.hash_table[h] # NULL => hash(cache.key[cache.hash_table[h]]) = h

\* Then every search ends at once, and no eviction cuts one.
LEMMA HomeSearch ==
    ASSUME NoCollisions, LRUInv, InHome, NEW id \in Ids
    PROVE  Probe(cache, id) = hash(id) /\ ~ Cuts(id)
<1>1. ASSUME NEW i \in Ids
      PROVE  /\ ProbeEnds(cache, i, 0) /\ ProbeSlot(i, 0) = hash(i)
             /\ \A h : ~ Passes(i, h)
  <2>1. HASH_SIZE \in Nat \ {0} /\ i \in Nat /\ 0 \in Slot
    BY SizesAssumption DEF Slot
  <2>2. hash(i) \in Nat /\ hash(i) < HASH_SIZE /\ hash(i) \in Slot
    BY <2>1 DEF hash, Slot
  <2>3. (hash(i) + 0) % HASH_SIZE = hash(i)
    BY <2>1, <2>2
  <2>4. ProbeSlot(i, 0) = hash(i)
    BY <2>3 DEF ProbeSlot
  <2>5. cache.hash_table[hash(i)] # NULL => cache.key[cache.hash_table[hash(i)]] = i
    BY <2>2 DEF NoCollisions, InHome, LRUInv, CacheInv, Found
  <2>6. ProbeEnds(cache, i, 0)
    BY <2>4, <2>5 DEF ProbeEnds
  <2>7. ASSUME NEW h, Passes(i, h) PROVE FALSE
    <3>1. PICK k \in Slot : /\ \A j \in 0 .. k : cache.hash_table[ProbeSlot(i, j)] # NULL
                            /\ \A j \in 0 .. k : cache.key[cache.hash_table[ProbeSlot(i, j)]] # i
      BY <2>7 DEF Passes
    <3>2. 0 \in 0 .. k
      BY <2>1 DEF Slot
    <3> QED BY <2>4, <2>5, <3>1, <3>2
  <2> QED BY <2>4, <2>6, <2>7
<1>2. EndsAt(cache, id, 0)
  <2>1. 0 \in Slot /\ 0 .. 0 - 1 = {}
    BY SizesAssumption DEF Slot
  <2> QED BY <1>1, <2>1 DEF EndsAt
<1>3. Probe(cache, id) = hash(id)
  BY <1>1, <1>2, ProbeIs
<1>4. \A n \in cache.allocated : cache.key[n] \in Ids
  BY DEF LRUInv, CacheInv, Found
<1>5. ~ Cuts(id)
  BY <1>1, <1>4 DEF Cuts
<1> QED BY <1>3, <1>5

\* Such a step is a careful one, and leaves the nodes at home.
LEMMA HomeStep ==
    ASSUME NoCollisions, LRUInv, InHome, [Next]_cacheVars
    PROVE  LRUInv' /\ InHome' /\ [CarefulNext]_cacheVars
<1>1. \A id \in Ids : ~ Cuts(id) /\ Probe(cache, id) = hash(id)
  BY HomeSearch
<1>2. \A msg \in Message : msg.id \in Ids
  BY DEF Message
<1>3. [CarefulNext]_cacheVars
  BY <1>1, <1>2 DEF Next, CarefulNext
<1>4. LRUInv'
  BY <1>3, CarefulStep
<1>5. ASSUME UNCHANGED cache PROVE InHome'
  BY <1>5 DEF InHome
<1>6. ASSUME NEW id \in Ids, GetHit(id) PROVE InHome'
  <2>1. PICK s : ListOf(cache, s)
    BY DEF LRUInv, CacheInv
  <2>2. PICK i \in 1 .. cache.current_size : s[i] = cache.hash_table[Probe(cache, id)]
    BY <1>6, <2>1, CachedAt DEF LRUInv, GetHit
  <2>3. cache'.hash_table = cache.hash_table /\ cache'.key = cache.key
    BY <1>6, <2>1, <2>2, MoveKeeps DEF LRUInv, GetHit
  <2> QED BY <2>3 DEF InHome
<1>7. ASSUME NEW msg \in Message, PutInCache(msg) PROVE InHome'
  <2>1. SlotsKept(msg)
    BY <1>1, <1>2, <1>7, PutEffect DEF LRUInv
  <2>2. ASSUME NEW h \in Slot, cache'.hash_table[h] # NULL
        PROVE  hash(cache'.key[cache'.hash_table[h]]) = h
    <3>1. \/ h = hash(msg.id) /\ cache'.key[cache'.hash_table[h]] = msg.id
          \/ /\ cache'.hash_table[h] = cache.hash_table[h]
             /\ cache'.key[cache.hash_table[h]] = cache.key[cache.hash_table[h]]
      BY <1>1, <1>2, <2>1, <2>2 DEF SlotsKept
    <3> QED BY <2>2, <3>1 DEF InHome
  <2> QED BY <2>2 DEF InHome
<1>8. ASSUME Crash PROVE InHome'
  BY <1>8 DEF Crash, InHome, init_cache
<1>9. ASSUME NEW id \in Ids, GetMiss(id) PROVE InHome'
  <2>1. [id |-> id, body |-> disk[id]] \in Message /\ PutInCache([id |-> id, body |-> disk[id]])
    BY <1>9 DEF GetMiss, Message
  <2> QED BY <1>7, <2>1
<1>10. InHome'
  <2>1. CASE UNCHANGED cacheVars
    BY <1>5, <2>1 DEF cacheVars
  <2>2. ASSUME NEW id \in Ids, GetAbsent(id) PROVE InHome'
    BY <1>5, <2>2 DEF GetAbsent
  <2>3. CASE StoreWrite
    BY <1>5, <2>3 DEF StoreWrite
  <2>4. ASSUME NEW msg \in Message, put_msg(msg) PROVE InHome'
    BY <1>7, <2>4 DEF put_msg
  <2> QED BY <1>6, <1>8, <1>9, <2>1, <2>2, <2>3, <2>4 DEF Next, get_msg_from_cache_or_disk
<1> QED BY <1>3, <1>4, <1>10

\* Ids that do not collide are used carefully whatever is done with them, so that all of
\* the above holds of the code as it is.
THEOREM CollisionFree == NoCollisions => (Spec => CarefulSpec)
<1> SUFFICES ASSUME NoCollisions PROVE Spec => CarefulSpec
  OBVIOUS
<1>1. Init => LRUInv /\ InHome
  BY InitLRUInv DEF Init, InHome, init_cache
<1>2. LRUInv /\ InHome /\ [Next]_cacheVars => LRUInv' /\ InHome' /\ [CarefulNext]_cacheVars
  BY HomeStep
<1> QED BY <1>1, <1>2, PTL DEF Spec, CarefulSpec

\* In particular get_msg_from_cache_or_disk then finds every message that is in the cache,
\* as the README of practicum1 says.
THEOREM CachedIsFound == NoCollisions => (Spec => []LookupFindsCached)
<1> SUFFICES ASSUME NoCollisions PROVE Spec => []LookupFindsCached
  OBVIOUS
<1>1. LRUInv => LookupFindsCached
  <2> SUFFICES ASSUME LRUInv, NEW n \in cache.allocated
               PROVE  cache.hash_table[Probe(cache, cache.key[n])] = n /\ n # NULL
    BY DEF LookupFindsCached
  <2>1. n # NULL
    BY CacheTypes, PointersAssumption DEF LRUInv, CacheInv
  <2> QED BY <2>1 DEF LRUInv, CacheInv, Found
<1>2. Spec => CarefulSpec
  BY CollisionFree
<1> QED BY <1>1, <1>2, LRUInvariant, PTL
=============================================================================
