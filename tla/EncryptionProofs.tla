-------------------------- MODULE EncryptionProofs --------------------------
(***************************************************************************)
(* The chunked encryption of week6 for every strings.txt, every heap, every*)
(* chunk size and every number of runs, whatever fails.                    *)
(***************************************************************************)
EXTENDS Encryption, InductionLemmas, SequenceTheorems

-----------------------------------------------------------------------------
(* Texts without their newlines.                                           *)

\* Letters reads its text from left to right.
Reads(text, kept) ==
    /\ kept \in [0 .. Len(text) -> Seq(Int)]
    /\ kept[0] = <<>>
    /\ \A k \in 1 .. Len(text) :
          kept[k] = IF text[k] = NL THEN kept[k - 1] ELSE Append(kept[k - 1], text[k])

LEMMA LettersRead ==
    ASSUME NEW text \in Seq(Int)
    PROVE  \E kept : Reads(text, kept) /\ Letters(text) = kept[Len(text)]
<1> DEFINE n == Len(text)
           D == Seq(Int)
           none == <<>>
           Then(k, t) == IF text[k] = NL THEN t ELSE Append(t, text[k])
           Rhs(f) == [k \in 0 .. n |-> IF k = 0 THEN none ELSE Then(k, f[k - 1])]
           kept == CHOOSE f : f = Rhs(f)
           step == [k \in 1 .. n |-> [t \in D |-> Then(k, t)]]
<1>1. Letters(text) = kept[n]
  BY DEF Letters
<1>2. n \in Nat /\ none \in D /\ \A k \in 1 .. n, t \in D : Then(k, t) \in D
  OBVIOUS
<1> HIDE DEF n, D, none, Then
<1>3. \A k \in 1 .. n : k \in 0 .. n /\ k # 0 /\ k - 1 \in 0 .. n
  BY <1>2
<1>4. step \in [1 .. n -> [D -> D]]
  BY <1>2
<1>5. PICK f : Iterates(f, n, D, none, step)
  <2> HIDE DEF step
  <2> QED BY <1>2, <1>4, Recursion
<1>6. f = Rhs(f)
  <2>1. f \in [0 .. n -> D] /\ f[0] = none
    BY <1>5 DEF Iterates
  <2>2. \A k \in 1 .. n : f[k] = Then(k, f[k - 1])
    BY <1>3, <1>5, <2>1 DEF Iterates
  <2> QED BY <1>2, <1>3, <2>1, <2>2
<1>7. kept = Rhs(kept)
  BY <1>6
<1> HIDE DEF kept
<1>8. kept[0] = none /\ \A k \in 1 .. n : kept[k] = Then(k, kept[k - 1])
  BY <1>2, <1>3, <1>7
<1>9. \A k \in 0 .. n : kept[k] \in D
  <2> DEFINE S == {k \in 0 .. n : kept[k] \in D}
  <2>1. 0 \in S
    BY <1>2, <1>8
  <2>2. ASSUME NEW k \in 0 .. n - 1, k \in S
        PROVE  k + 1 \in S
    <3>1. k + 1 \in 1 .. n /\ (k + 1) - 1 = k /\ kept[k] \in D
      BY <1>2, <2>2
    <3> QED BY <1>2, <1>3, <1>8, <3>1
  <2> HIDE DEF S
  <2>3. \A k \in 0 .. n : k \in S
    BY <1>2, <2>1, <2>2, Induction
  <2> QED BY <2>3 DEF S
<1>10. kept \in [0 .. n -> D]
  BY <1>7, <1>9
<1> QED BY <1>1, <1>8, <1>10 DEF Reads, n, none, D, Then

\* The text of no characters has no letters, and one more character is one more letter
\* unless it is a newline.
LEMMA LettersEmpty == Letters(<<>>) = <<>>
<1> DEFINE none == <<>>
<1>1. none \in Seq(Int) /\ Len(none) = 0
  OBVIOUS
<1> HIDE DEF none
<1>2. PICK kept : Reads(none, kept) /\ Letters(none) = kept[Len(none)]
  BY <1>1, LettersRead
<1> QED BY <1>1, <1>2 DEF Reads, none

LEMMA LettersAppend ==
    ASSUME NEW text \in Seq(Int), NEW c \in Int
    PROVE  /\ Letters(text) \in Seq(Int)
           /\ Letters(Append(text, c)) = IF c = NL THEN Letters(text) ELSE Append(Letters(text), c)
<1> DEFINE n == Len(text)
           more == Append(text, c)
           Then(t) == IF c = NL THEN t ELSE Append(t, c)
<1>1. /\ more \in Seq(Int) /\ n \in Nat /\ Len(more) = n + 1 /\ more[n + 1] = c
      /\ \A k \in 1 .. n : more[k] = text[k] /\ k \in 1 .. n + 1
  OBVIOUS
<1>2. PICK kept : Reads(text, kept) /\ Letters(text) = kept[n]
  BY LettersRead
<1> HIDE DEF more
<1>3. PICK then : Reads(more, then) /\ Letters(more) = then[n + 1]
  BY <1>1, LettersRead
<1>4. then[n] = kept[n]
  <2> DEFINE S == {k \in 0 .. n : then[k] = kept[k]}
  <2>1. 0 \in S
    BY <1>1, <1>2, <1>3 DEF Reads
  <2>2. ASSUME NEW k \in 0 .. n - 1, k \in S
        PROVE  k + 1 \in S
    <3>1. k + 1 \in 1 .. n /\ (k + 1) - 1 = k /\ then[k] = kept[k]
      BY <1>1, <2>2
    <3>2. more[k + 1] = text[k + 1] /\ k + 1 \in 1 .. Len(more) /\ k + 1 \in 0 .. n
      BY <1>1, <3>1
    <3>3. kept[k + 1] = IF text[k + 1] = NL THEN kept[k] ELSE Append(kept[k], text[k + 1])
      BY <1>2, <3>1 DEF Reads
    <3>4. then[k + 1] = IF more[k + 1] = NL THEN then[k] ELSE Append(then[k], more[k + 1])
      BY <1>3, <3>1, <3>2 DEF Reads
    <3> QED BY <3>1, <3>2, <3>3, <3>4
  <2> HIDE DEF S
  <2>3. \A k \in 0 .. n : k \in S
    BY <1>1, <2>1, <2>2, Induction
  <2> QED BY <1>1, <2>3 DEF S
<1>5. then[n + 1] = Then(then[n])
  <2>1. n + 1 \in 1 .. Len(more) /\ (n + 1) - 1 = n
    BY <1>1
  <2> QED BY <1>1, <1>3, <2>1 DEF Reads
<1>6. kept[n] \in Seq(Int)
  <2>1. n \in 0 .. n /\ kept \in [0 .. n -> Seq(Int)]
    BY <1>1, <1>2 DEF Reads
  <2> QED BY <2>1
<1> QED BY <1>2, <1>3, <1>4, <1>5, <1>6 DEF more

LEMMA AppendConcat ==
    ASSUME NEW a \in Seq(Int), NEW b \in Seq(Int), NEW c \in Int
    PROVE  a \o Append(b, c) = Append(a \o b, c)
<1>1. <<c>> \in Seq(Int) /\ a \o b \in Seq(Int)
  OBVIOUS
<1>2. Append(b, c) = b \o <<c>> /\ Append(a \o b, c) = (a \o b) \o <<c>>
  BY <1>1, AppendIsConcat
<1> QED BY <1>1, <1>2, ConcatAssociative

\* Letters goes text by text.
LEMMA LettersConcat ==
    ASSUME NEW a \in Seq(Int), NEW b \in Seq(Int)
    PROVE  Letters(a \o b) = Letters(a) \o Letters(b)
<1> DEFINE n == Len(b)
           pre(k) == SubSeq(b, 1, k)
           S == {k \in 0 .. n : Letters(a \o pre(k)) = Letters(a) \o Letters(pre(k))}
<1>1. n \in Nat /\ pre(n) = b /\ pre(0) = <<>> /\ \A k \in 0 .. n : pre(k) \in Seq(Int)
  BY SubSeqFull, SubSeqEmpty
<1>2. 0 \in S
  <2>1. a \o <<>> = a /\ Letters(a) \o <<>> = Letters(a)
    BY LettersAppend
  <2>2. Letters(a \o pre(0)) = Letters(a) \o Letters(pre(0))
    BY <1>1, <2>1, LettersEmpty
  <2> QED BY <1>1, <2>2
<1>3. ASSUME NEW k \in 0 .. n - 1, k \in S
      PROVE  k + 1 \in S
  <2> DEFINE c == b[k + 1]
             p == pre(k)
  <2>1. p \in Seq(Int) /\ c \in Int /\ a \o p \in Seq(Int) /\ pre(k + 1) = Append(p, c)
    BY <1>1
  <2>2. Letters(a \o p) = Letters(a) \o Letters(p)
    BY <1>3
  <2> HIDE DEF c, p, pre
  <2>3. a \o pre(k + 1) = Append(a \o p, c)
    <3>1. a \o Append(p, c) = Append(a \o p, c)
      BY <2>1, AppendConcat
    <3>2. pre(k + 1) = Append(p, c)
      BY <2>1
    <3> QED BY <3>1, <3>2, Zenon
  <2>4. Letters(a \o pre(k + 1)) = IF c = NL THEN Letters(a \o p) ELSE Append(Letters(a \o p), c)
    BY <2>1, <2>3, LettersAppend
  <2>5. Letters(pre(k + 1)) = IF c = NL THEN Letters(p) ELSE Append(Letters(p), c)
    BY <2>1, LettersAppend
  <2>6. Letters(a) \in Seq(Int) /\ Letters(p) \in Seq(Int)
    BY <2>1, LettersAppend
  <2>7. Append(Letters(a) \o Letters(p), c) = Letters(a) \o Append(Letters(p), c)
    BY <2>1, <2>6, AppendConcat
  <2>8. k + 1 \in 0 .. n
    BY <1>1
  <2> QED BY <2>2, <2>4, <2>5, <2>7, <2>8
<1>4. \A k \in 0 .. n : k \in S
  <2> HIDE DEF S
  <2> QED BY <1>1, <1>2, <1>3, Induction
<1>5. Letters(a \o pre(n)) = Letters(a) \o Letters(pre(n))
  <2>1. n \in S
    <3> HIDE DEF S, pre, n
    <3> QED BY <1>1, <1>4
  <2> HIDE DEF pre, n
  <2> QED BY <2>1
<1>6. pre(n) = b
  BY <1>1
<1> HIDE DEF pre
<1> QED BY <1>5, <1>6, Zenon

-----------------------------------------------------------------------------
(* Texts one after the other.                                              *)

\* What a file contributes, and n files that can be joined.
Part(text) == IF text = NoFile THEN <<>> ELSE text
Joinable(f, n) == \A k \in 0 .. n - 1 : f[k] = NoFile \/ f[k] \in Seq(Int)

\* Joined takes one file after the other.
Joins(f, n, j) ==
    /\ j \in [0 .. n -> Seq(Int)]
    /\ j[0] = <<>>
    /\ \A k \in 1 .. n : j[k] = j[k - 1] \o Part(f[k - 1])

LEMMA JoinedJoins ==
    ASSUME NEW n \in Nat, NEW f, Joinable(f, n)
    PROVE  \E j : Joins(f, n, j) /\ Joined(f, n) = j[n]
<1> DEFINE D == Seq(Int)
           none == <<>>
           Then(k, t) == t \o (IF f[k - 1] = NoFile THEN none ELSE f[k - 1])
           Rhs(g) == [k \in 0 .. n |-> IF k = 0 THEN none ELSE Then(k, g[k - 1])]
           j == CHOOSE g : g = Rhs(g)
           step == [k \in 1 .. n |-> [t \in D |-> Then(k, t)]]
<1>1. Joined(f, n) = j[n]
  BY DEF Joined
<1>2. none \in D /\ \A k \in 1 .. n, t \in D : Then(k, t) \in D
  <2>1. ASSUME NEW k \in 1 .. n, NEW t \in D
        PROVE  Then(k, t) \in D
    <3>1. k - 1 \in 0 .. n - 1
      OBVIOUS
    <3>2. f[k - 1] = NoFile \/ f[k - 1] \in D
      BY <3>1 DEF Joinable
    <3> QED BY <3>2
  <2> QED BY <2>1
<1> HIDE DEF D, none, Then
<1>3. \A k \in 1 .. n : k \in 0 .. n /\ k # 0 /\ k - 1 \in 0 .. n
  OBVIOUS
<1>4. step \in [1 .. n -> [D -> D]]
  BY <1>2
<1>5. PICK g : Iterates(g, n, D, none, step)
  <2> HIDE DEF step
  <2> QED BY <1>2, <1>4, Recursion
<1>6. g = Rhs(g)
  <2>1. g \in [0 .. n -> D] /\ g[0] = none
    BY <1>5 DEF Iterates
  <2>2. \A k \in 1 .. n : g[k] = Then(k, g[k - 1])
    BY <1>3, <1>5, <2>1 DEF Iterates
  <2> QED BY <1>3, <2>1, <2>2
<1>7. j = Rhs(j)
  BY <1>6
<1> HIDE DEF j
<1>8. j[0] = none /\ \A k \in 1 .. n : j[k] = Then(k, j[k - 1])
  BY <1>3, <1>7
<1>9. \A k \in 0 .. n : j[k] \in D
  <2> DEFINE S == {k \in 0 .. n : j[k] \in D}
  <2>1. 0 \in S
    BY <1>2, <1>8
  <2>2. ASSUME NEW k \in 0 .. n - 1, k \in S
        PROVE  k + 1 \in S
    <3>1. k + 1 \in 1 .. n /\ (k + 1) - 1 = k /\ j[k] \in D
      BY <2>2
    <3> QED BY <1>2, <1>3, <1>8, <3>1
  <2> HIDE DEF S
  <2>3. \A k \in 0 .. n : k \in S
    BY <2>1, <2>2, Induction
  <2> QED BY <2>3 DEF S
<1>10. j \in [0 .. n -> D]
  BY <1>7, <1>9
<1> QED BY <1>1, <1>8, <1>10 DEF Joins, Part, none, D, Then

\* Joined depends on the files it joins only.
LEMMA JoinedSame ==
    ASSUME NEW n \in Nat, NEW f, NEW g, Joinable(f, n), \A k \in 0 .. n - 1 : g[k] = f[k]
    PROVE  Joined(g, n) = Joined(f, n)
<1>1. Joinable(g, n)
  BY DEF Joinable
<1>2. PICK j : Joins(f, n, j) /\ Joined(f, n) = j[n]
  BY JoinedJoins
<1>3. PICK i : Joins(g, n, i) /\ Joined(g, n) = i[n]
  BY <1>1, JoinedJoins
<1> DEFINE S == {k \in 0 .. n : i[k] = j[k]}
<1>4. 0 \in S
  BY <1>2, <1>3 DEF Joins
<1>5. ASSUME NEW k \in 0 .. n - 1, k \in S
      PROVE  k + 1 \in S
  <2>1. k + 1 \in 1 .. n /\ k + 1 \in 0 .. n /\ (k + 1) - 1 = k /\ i[k] = j[k] /\ g[k] = f[k]
    BY <1>5
  <2>2. j[k + 1] = j[k] \o Part(f[k])
    BY <1>2, <2>1 DEF Joins
  <2>3. i[k + 1] = i[k] \o Part(g[k])
    BY <1>3, <2>1 DEF Joins
  <2> QED BY <2>1, <2>2, <2>3
<1> HIDE DEF S
<1>6. \A k \in 0 .. n : k \in S
  BY <1>4, <1>5, Induction
<1> QED BY <1>2, <1>3, <1>6 DEF S

\* Joined of nothing, and of one file more.
LEMMA JoinedNext ==
    ASSUME NEW n \in Nat, NEW f, Joinable(f, n + 1)
    PROVE  /\ Joined(f, 0) = <<>> /\ Joined(f, n) \in Seq(Int) /\ Part(f[n]) \in Seq(Int)
           /\ Joined(f, n + 1) = Joined(f, n) \o Part(f[n])
<1>1. Joinable(f, n) /\ Joinable(f, 0) /\ n + 1 \in Nat
  BY DEF Joinable
<1>2. PICK z : Joins(f, 0, z) /\ Joined(f, 0) = z[0]
  BY <1>1, JoinedJoins
<1>3. PICK j : Joins(f, n, j) /\ Joined(f, n) = j[n]
  BY <1>1, JoinedJoins
<1>4. PICK i : Joins(f, n + 1, i) /\ Joined(f, n + 1) = i[n + 1]
  BY <1>1, JoinedJoins
<1>5. i[n] = j[n]
  <2> DEFINE S == {k \in 0 .. n : i[k] = j[k]}
  <2>1. 0 \in S
    BY <1>3, <1>4 DEF Joins
  <2>2. ASSUME NEW k \in 0 .. n - 1, k \in S
        PROVE  k + 1 \in S
    <3>1. /\ k + 1 \in 1 .. n /\ k + 1 \in 1 .. n + 1 /\ k + 1 \in 0 .. n /\ (k + 1) - 1 = k
          /\ i[k] = j[k]
      BY <2>2
    <3>2. j[k + 1] = j[k] \o Part(f[k])
      BY <1>3, <3>1 DEF Joins
    <3>3. i[k + 1] = i[k] \o Part(f[k])
      BY <1>4, <3>1 DEF Joins
    <3> QED BY <3>1, <3>2, <3>3
  <2> HIDE DEF S
  <2>3. \A k \in 0 .. n : k \in S
    BY <2>1, <2>2, Induction
  <2> QED BY <2>3 DEF S
<1>6. i[n + 1] = i[n] \o Part(f[n])
  <2>1. n + 1 \in 1 .. n + 1 /\ (n + 1) - 1 = n
    OBVIOUS
  <2> QED BY <1>4, <2>1 DEF Joins
<1>7. Part(f[n]) \in Seq(Int)
  BY DEF Joinable, Part
<1>8. j[n] \in Seq(Int)
  BY <1>3 DEF Joins
<1>9. z[0] = <<>>
  BY <1>2 DEF Joins
<1> QED BY <1>2, <1>3, <1>4, <1>5, <1>6, <1>7, <1>8, <1>9

\* The first file can be taken off the front.
LEMMA JoinedShift ==
    ASSUME NEW n \in Nat, NEW f, NEW g, Joinable(f, n + 1), \A k \in 0 .. n - 1 : g[k] = f[k + 1]
    PROVE  Joined(f, n + 1) = Part(f[0]) \o Joined(g, n)
<1> DEFINE p == Part(f[0])
           S == {k \in 0 .. n : Joined(f, k + 1) = p \o Joined(g, k)}
<1>1. ASSUME NEW k \in 0 .. n
      PROVE  Joinable(f, k + 1) /\ Joinable(g, k) /\ k \in Nat
  BY DEF Joinable
<1>2. p \in Seq(Int)
  <2>1. 0 \in 0 .. (n + 1) - 1
    OBVIOUS
  <2> QED BY <2>1 DEF Joinable, Part
<1> HIDE DEF p
<1>3. 0 \in S
  <2>1. 0 \in 0 .. n /\ 0 + 1 = 1
    OBVIOUS
  <2>2. PICK z : Joins(g, 0, z) /\ Joined(g, 0) = z[0]
    BY <1>1, <2>1, JoinedJoins
  <2>3. Joined(g, 0) = <<>>
    BY <2>2 DEF Joins
  <2>4. /\ Joined(f, 0) = <<>>
        /\ Joined(f, 0 + 1) = Joined(f, 0) \o Part(f[0])
    BY <1>1, <2>1, JoinedNext
  <2>5. <<>> \o p = p /\ p \o <<>> = p
    BY <1>2
  <2>6. Joined(f, 0 + 1) = p \o Joined(g, 0)
    BY <2>3, <2>4, <2>5, Zenon DEF p
  <2> QED BY <2>1, <2>6
<1>4. ASSUME NEW k \in 0 .. n - 1, k \in S
      PROVE  k + 1 \in S
  <2>1. k \in Nat /\ k + 1 \in Nat /\ k + 1 \in 0 .. n /\ Joinable(f, (k + 1) + 1) /\ Joinable(g, k + 1)
    <3>1. k + 1 \in 0 .. n
      OBVIOUS
    <3> QED BY <1>1, <3>1
  <2> DEFINE m == k + 1
             x == Joined(g, k)
             y == Part(g[k])
  <2>2. Joined(f, m + 1) = Joined(f, m) \o Part(f[m])
    <3> HIDE DEF m
    <3> QED BY <2>1, JoinedNext DEF m
  <2>3. x \in Seq(Int) /\ y \in Seq(Int) /\ Joined(g, m) = x \o y
    BY <2>1, JoinedNext
  <2>4. Part(f[m]) = y /\ Joined(f, m) = p \o x
    BY <1>4
  <2> HIDE DEF m, x, y
  <2>5. (p \o x) \o y = p \o (x \o y)
    <3>1. x \in Seq(Int) /\ y \in Seq(Int)
      BY <2>3
    <3> QED BY <1>2, <3>1, ConcatAssociative, SMTT(60)
  <2>6. Joined(f, m + 1) = p \o Joined(g, m)
    BY <2>2, <2>3, <2>4, <2>5, Zenon
  <2> QED BY <2>1, <2>6 DEF m
<1>5. \A k \in 0 .. n : k \in S
  <2> HIDE DEF S
  <2> QED BY <1>3, <1>4, Induction
<1> QED BY <1>5 DEF p

-----------------------------------------------------------------------------
(* The string queue.                                                       *)

\* The nodes in s, in this order, are the list of m.
ListOf(m, s) ==
    /\ s \in Seq(Nodes) /\ Len(s) = m.size
    /\ \A i, j \in 1 .. Len(s) : s[i] = s[j] => i = j
    /\ m.allocated = {s[i] : i \in 1 .. Len(s)}
    /\ m.front = IF m.size = 0 THEN NULL ELSE s[1]
    /\ m.rear = IF m.size = 0 THEN NULL ELSE s[m.size]
    /\ \A i \in 1 .. Len(s) - 1 : m.next[s[i]] = s[i + 1]
    /\ m.size > 0 => m.next[s[m.size]] = NULL

Text == Seq(Code)

\* The field of a record after enqueue and after dequeue.
LEMMA EnqueueFields ==
    ASSUME NEW m \in Queue(Text), NEW str \in Text, m.allocated # Nodes
    PROVE  LET n == NewNode(m)
               e == enqueue(m, str)
           IN  /\ n \in Nodes /\ n \notin m.allocated
               /\ e \in Queue(Text)
               /\ e.front = (IF m.rear = NULL THEN n ELSE m.front)
               /\ e.rear = n
               /\ e.size = m.size + 1
               /\ e.data = [m.data EXCEPT ![n] = str]
               /\ e.allocated = m.allocated \cup {n}
               /\ e.next = IF m.rear = NULL THEN [m.next EXCEPT ![n] = NULL]
                           ELSE [[m.next EXCEPT ![n] = NULL] EXCEPT ![m.rear] = n]
<1> DEFINE n == NewNode(m)
           b == [m EXCEPT !.data[n] = str, !.next[n] = NULL,
                          !.allocated = @ \cup {n}, !.size = @ + 1]
<1>1. n \in Nodes /\ n \notin m.allocated
  <2>1. \E x : x \in Nodes \ m.allocated
    BY DEF Queue
  <2> QED BY <2>1 DEF NewNode
<1> HIDE DEF n
<1>2. /\ b \in Queue(Text) /\ b.front = m.front /\ b.rear = m.rear /\ b.size = m.size + 1
      /\ b.data = [m.data EXCEPT ![n] = str] /\ b.allocated = m.allocated \cup {n}
      /\ b.next = [m.next EXCEPT ![n] = NULL]
  <2>1. b = [m EXCEPT !.data = [m.data EXCEPT ![n] = str], !.next = [m.next EXCEPT ![n] = NULL],
                      !.allocated = m.allocated \cup {n}, !.size = m.size + 1]
    BY DEF Queue
  <2>2. /\ [m.data EXCEPT ![n] = str] \in [Nodes -> Text \cup {NULL}]
        /\ [m.next EXCEPT ![n] = NULL] \in [Nodes -> Nodes \cup {NULL}]
        /\ m.allocated \cup {n} \in SUBSET Nodes /\ m.size + 1 \in Nat
    BY <1>1 DEF Queue
  <2> HIDE DEF b
  <2> QED BY <2>1, <2>2 DEF Queue
<1> HIDE DEF b
<1>3. enqueue(m, str) = Link(b, n)
  BY DEF enqueue, b, n
<1>4. CASE m.rear = NULL
  <2>1. Link(b, n) = [b EXCEPT !.front = n, !.rear = n]
    BY <1>2, <1>4 DEF Link
  <2> QED BY <1>1, <1>2, <1>3, <1>4, <2>1, ZenonT(60) DEF Queue, n
<1>5. CASE m.rear # NULL
  <2>1. Link(b, n) = [b EXCEPT !.next[b.rear] = n, !.rear = n]
    BY <1>2, <1>5 DEF Link
  <2>2. m.rear \in Nodes
    BY <1>5 DEF Queue
  <2> DEFINE next == [b.next EXCEPT ![m.rear] = n]
  <2>3. next \in [Nodes -> Nodes \cup {NULL}]
    BY <1>1, <1>2, <2>2 DEF Queue
  <2>4. Link(b, n) = [b EXCEPT !.next = next, !.rear = n]
    BY <1>2, <2>1 DEF Queue
  <2>5. next = [[m.next EXCEPT ![n] = NULL] EXCEPT ![m.rear] = n]
    BY <1>2
  <2> HIDE DEF next
  <2> DEFINE e == Link(b, n)
  <2>6. /\ e \in Queue(Text) /\ e.front = b.front /\ e.rear = n /\ e.size = b.size
        /\ e.data = b.data /\ e.allocated = b.allocated /\ e.next = next
    BY <1>1, <1>2, <2>3, <2>4 DEF Queue
  <2> HIDE DEF e
  <2>7. enqueue(m, str) = e
    BY <1>3 DEF e
  <2> QED BY <1>1, <1>2, <1>5, <2>5, <2>6, <2>7 DEF n
<1> QED BY <1>4, <1>5

LEMMA DequeueFields ==
    ASSUME NEW m \in Queue(Text), m.front \in Nodes, m.size > 0
    PROVE  /\ dequeue(m) \in Queue(Text)
           /\ dequeue(m).front = m.next[m.front]
           /\ dequeue(m).rear = (IF m.next[m.front] = NULL THEN NULL ELSE m.rear)
           /\ dequeue(m).size = m.size - 1
           /\ dequeue(m).data = m.data /\ dequeue(m).next = m.next
           /\ dequeue(m).allocated = m.allocated \ {m.front}
<1>1. m.front # NULL
  BY NodesAssumption
<1>2. dequeue(m) = [m EXCEPT !.front = m.next[m.front],
                             !.rear = IF m.next[m.front] = NULL THEN NULL ELSE @,
                             !.allocated = @ \ {m.front}, !.size = @ - 1]
  BY <1>1 DEF dequeue
<1>3. m.size - 1 \in Nat
  BY DEF Queue
<1> QED BY <1>2, <1>3, ZenonT(60) DEF Queue

\* enqueue puts its string behind the others.
LEMMA EnqueueEffect ==
    ASSUME NEW m \in Queue(Text), NEW s, ListOf(m, s), NEW str \in Text, m.allocated # Nodes
    PROVE  ListOf(enqueue(m, str), Append(s, NewNode(m)))
<1> DEFINE n == NewNode(m)
           e == enqueue(m, str)
           t == Append(s, n)
<1>1. /\ n \in Nodes /\ n \notin m.allocated
      /\ e.front = (IF m.rear = NULL THEN n ELSE m.front)
      /\ e.rear = n
      /\ e.size = m.size + 1
      /\ e.allocated = m.allocated \cup {n}
      /\ e.next = IF m.rear = NULL THEN [m.next EXCEPT ![n] = NULL]
                  ELSE [[m.next EXCEPT ![n] = NULL] EXCEPT ![m.rear] = n]
  BY EnqueueFields
<1>2. m.size \in Nat /\ m.next \in [Nodes -> Nodes \cup {NULL}]
  BY DEF Queue
<1>3. /\ s \in Seq(Nodes) /\ Len(s) = m.size /\ m.allocated = {s[i] : i \in 1 .. m.size}
      /\ \A i \in 1 .. m.size : s[i] \in Nodes
  BY DEF ListOf
<1> HIDE DEF n, e
<1>4. /\ t \in Seq(Nodes) /\ Len(t) = m.size + 1 /\ t[m.size + 1] = n
      /\ \A i \in 1 .. m.size : t[i] = s[i] /\ t[i] # n
  BY <1>1, <1>2, <1>3
<1> HIDE DEF t
<1>5. \A i, j \in 1 .. m.size + 1 : t[i] = t[j] => i = j
  <2>1. \A i \in 1 .. m.size + 1 : i \in 1 .. m.size \/ i = m.size + 1
    BY <1>2
  <2>2. \A i, j \in 1 .. m.size : s[i] = s[j] => i = j
    BY <1>3 DEF ListOf
  <2> QED BY <1>4, <2>1, <2>2
<1>6. e.allocated = {t[i] : i \in 1 .. m.size + 1}
  <2>1. \A i \in 1 .. m.size : i \in 1 .. m.size + 1 /\ m.size + 1 \in 1 .. m.size + 1
    BY <1>2
  <2>2. m.size + 1 \in 1 .. m.size + 1 /\ \A i \in 1 .. m.size + 1 : i \in 1 .. m.size \/ i = m.size + 1
    BY <1>2
  <2>3. \A x : x \in m.allocated <=> \E i \in 1 .. m.size : x = s[i]
    BY <1>3
  <2>4. \A x : x \in m.allocated \cup {n} <=> \E i \in 1 .. m.size + 1 : x = t[i]
    BY <1>4, <2>1, <2>2, <2>3
  <2> QED BY <1>1, <2>4
<1>7. CASE m.size = 0
  <2>1. m.rear = NULL
    BY <1>7 DEF ListOf
  <2>2. e.front = t[1] /\ e.rear = t[1] /\ e.next[t[1]] = NULL
    BY <1>1, <1>2, <1>4, <1>7, <2>1
  <2> QED BY <1>1, <1>4, <1>5, <1>6, <1>7, <2>2 DEF ListOf, e, t, n
<1>8. CASE m.size > 0
  <2>1. /\ m.rear = s[m.size] /\ m.rear \in Nodes /\ m.rear # NULL /\ m.rear # n /\ m.front = s[1]
        /\ m.size \in 1 .. m.size /\ 1 \in 1 .. m.size
    BY <1>2, <1>3, <1>4, <1>8, NodesAssumption DEF ListOf
  <2>2. /\ e.next[n] = NULL /\ e.next[m.rear] = n
        /\ \A x \in Nodes : x # n /\ x # m.rear => e.next[x] = m.next[x]
    BY <1>1, <1>2, <2>1
  <2>3. ASSUME NEW i \in 1 .. m.size
        PROVE  e.next[t[i]] = t[i + 1]
    <3>1. CASE i = m.size
      BY <1>2, <1>4, <2>1, <2>2, <3>1
    <3>2. CASE i # m.size
      <4>1. i \in 1 .. m.size - 1 /\ i + 1 \in 1 .. m.size /\ t[i] = s[i] /\ t[i + 1] = s[i + 1] /\ s[i] \in Nodes
        BY <1>2, <1>3, <1>4, <3>2
      <4>2. t[i] # m.rear /\ t[i] # n
        BY <1>3, <1>4, <2>1, <3>2, <4>1 DEF ListOf
      <4>3. m.next[s[i]] = s[i + 1]
        BY <1>3, <4>1 DEF ListOf
      <4> QED BY <2>2, <4>1, <4>2, <4>3
    <3> QED BY <3>1, <3>2
  <2>4. e.front = t[1] /\ e.rear = t[m.size + 1] /\ e.next[t[m.size + 1]] = NULL
    BY <1>1, <1>4, <2>1, <2>2
  <2>5. (m.size + 1) - 1 = m.size /\ m.size + 1 # 0
    BY <1>2
  <2> QED BY <1>1, <1>4, <1>5, <1>6, <2>3, <2>4, <2>5 DEF ListOf, e, t, n
<1> QED BY <1>2, <1>7, <1>8

\* dequeue takes the first string.
LEMMA DequeueEffect ==
    ASSUME NEW m \in Queue(Text), NEW s, ListOf(m, s), m.size > 0
    PROVE  /\ m.front = s[1] /\ m.front \in Nodes
           /\ ListOf(dequeue(m), Tail(s))
<1> DEFINE d == dequeue(m)
           t == Tail(s)
           l == m.size
<1>1. l \in Nat /\ l > 0 /\ 1 \in 1 .. l /\ l \in 1 .. l
  BY DEF Queue
<1>2. /\ s \in Seq(Nodes) /\ Len(s) = l /\ m.allocated = {s[i] : i \in 1 .. l}
      /\ \A i, j \in 1 .. l : s[i] = s[j] => i = j
      /\ m.front = s[1] /\ m.rear = s[l] /\ m.next[s[l]] = NULL
      /\ \A i \in 1 .. l - 1 : m.next[s[i]] = s[i + 1]
      /\ \A i \in 1 .. l : s[i] \in Nodes
  BY <1>1 DEF ListOf
<1>3. s # <<>> /\ t \in Seq(Nodes) /\ Len(t) = l - 1 /\ \A i \in 1 .. l - 1 : t[i] = s[i + 1]
  BY <1>1, <1>2
<1>4. m.front \in Nodes /\ NULL \notin Nodes
  BY <1>1, <1>2, NodesAssumption
<1>5. /\ d.front = m.next[s[1]] /\ d.rear = (IF m.next[s[1]] = NULL THEN NULL ELSE m.rear)
      /\ d.size = l - 1 /\ d.next = m.next /\ d.allocated = m.allocated \ {s[1]}
  BY <1>1, <1>2, <1>4, DequeueFields, ZenonT(60)
<1> HIDE DEF d, t, l
<1>6. \A i \in 1 .. l - 1 : i \in 1 .. l /\ i + 1 \in 1 .. l /\ i + 1 # 1
  BY <1>1
<1>7. \A i, j \in 1 .. l - 1 : t[i] = t[j] => i = j
  BY <1>1, <1>2, <1>3, <1>6
<1>8. d.allocated = {t[i] : i \in 1 .. l - 1}
  <2>1. \A i \in 1 .. l : i = 1 \/ (i - 1 \in 1 .. l - 1 /\ (i - 1) + 1 = i)
    BY <1>1
  <2>2. \A x : x \in m.allocated <=> \E i \in 1 .. l : x = s[i]
    BY <1>2
  <2>3. ASSUME NEW x, x \in m.allocated \ {s[1]}
        PROVE  \E i \in 1 .. l - 1 : x = t[i]
    <3>1. PICK i \in 1 .. l : x = s[i]
      BY <2>2, <2>3
    <3>2. i - 1 \in 1 .. l - 1 /\ t[i - 1] = x
      BY <1>3, <2>1, <2>3, <3>1
    <3> QED BY <3>2
  <2>4. ASSUME NEW i \in 1 .. l - 1
        PROVE  t[i] \in m.allocated \ {s[1]}
    BY <1>1, <1>2, <1>3, <1>6, <2>2
  <2> QED BY <1>5, <2>3, <2>4
<1>9. \A i \in 1 .. (l - 1) - 1 : m.next[t[i]] = t[i + 1]
  <2>1. \A i \in 1 .. (l - 1) - 1 : i \in 1 .. l - 1 /\ i + 1 \in 1 .. l - 1
    BY <1>1
  <2> QED BY <1>2, <1>3, <2>1
<1>10. CASE l = 1
  <2>1. d.front = NULL /\ d.rear = NULL /\ d.size = 0
    BY <1>1, <1>2, <1>5, <1>10
  <2> QED BY <1>2, <1>3, <1>4, <1>5, <1>7, <1>8, <1>9, <1>10, <2>1 DEF ListOf, d, t, l
<1>11. CASE l # 1
  <2>1. 1 \in 1 .. l - 1 /\ l - 1 \in 1 .. l - 1 /\ (l - 1) + 1 = l /\ l - 1 # 0
    BY <1>1, <1>11
  <2>2. m.next[s[1]] = s[2] /\ s[2] \in Nodes /\ t[1] = s[2] /\ t[l - 1] = s[l]
    BY <1>2, <1>3, <1>6, <2>1
  <2>3. d.front = t[1] /\ d.rear = t[l - 1] /\ d.next[t[l - 1]] = NULL
    BY <1>2, <1>4, <1>5, <2>2
  <2> QED BY <1>2, <1>3, <1>4, <1>5, <1>7, <1>8, <1>9, <2>1, <2>3 DEF ListOf, d, t, l
<1> QED BY <1>10, <1>11

\* Strings follows the pointers.
LEMMA StringsIs ==
    ASSUME NEW m \in Queue(Text), NEW s, ListOf(m, s)
    PROVE  Strings(m) = [k \in 1 .. m.size |-> m.data[s[k]]]
<1> DEFINE l == m.size
           Rhs(f) == [k \in 1 .. l |-> IF k = 1 THEN m.front ELSE m.next[f[k - 1]]]
           at == CHOOSE f : f = Rhs(f)
           g == [k \in 1 .. l |-> s[k]]
<1>1. Strings(m) = [k \in 1 .. l |-> m.data[at[k]]]
  BY DEF Strings
<1>2. /\ l \in Nat
      /\ l # 0 => m.front = s[1]
      /\ \A i \in 1 .. l - 1 : m.next[s[i]] = s[i + 1]
  BY DEF Queue, ListOf
<1>3. \A k \in 1 .. l : k = 1 \/ (k - 1 \in 1 .. l - 1 /\ k - 1 \in 1 .. l /\ (k - 1) + 1 = k)
  BY <1>2
<1> HIDE DEF l
<1>4. g = Rhs(g)
  <2>1. \A k \in 1 .. l : s[k] = IF k = 1 THEN m.front ELSE m.next[g[k - 1]]
    BY <1>2, <1>3
  <2> QED BY <2>1
<1>5. at = Rhs(at)
  BY <1>4
<1> HIDE DEF at
<1> DEFINE S == {k \in 0 .. l : k = 0 \/ at[k] = s[k]}
<1>6. 0 \in S
  BY <1>2
<1>7. ASSUME NEW k \in 0 .. l - 1, k \in S
      PROVE  k + 1 \in S
  <2>1. k + 1 \in 1 .. l /\ k + 1 \in 0 .. l /\ (k + 1) - 1 = k /\ (k = 0 \/ (k \in 1 .. l - 1 /\ at[k] = s[k]))
    BY <1>2, <1>7
  <2>2. at[k + 1] = IF k + 1 = 1 THEN m.front ELSE m.next[at[(k + 1) - 1]]
    BY <1>5, <2>1
  <2>3. CASE k = 0
    BY <1>2, <2>1, <2>2, <2>3
  <2>4. CASE k # 0
    BY <1>2, <2>1, <2>2, <2>4
  <2> QED BY <2>3, <2>4
<1>8. \A k \in 0 .. l : k \in S
  <2> HIDE DEF S
  <2> QED BY <1>2, <1>6, <1>7, Induction
<1>9. \A k \in 1 .. l : at[k] = s[k]
  BY <1>2, <1>8
<1> QED BY <1>1, <1>9 DEF l

\* A string is a line without its newline.
Line == Seq(Code \ {NL})

\* The queue is a list of such strings.
QueueInv(m) ==
    /\ m \in Queue(Text)
    /\ \E s : ListOf(m, s)
    /\ \A n \in m.allocated : m.data[n] \in Line

\* Its strings one after the other, each with the same text behind it.
QueueParts(m, end) == [k \in 0 .. m.size - 1 |-> Strings(m)[k + 1] \o end]
QueueText(m, end)  == Joined(QueueParts(m, end), m.size)

LEMMA LineTexts ==
    ASSUME NEW str \in Line
    PROVE  /\ str \in Text /\ str \in Seq(Int) /\ str # NoFile /\ Len(str) \in Nat
           /\ \A i \in 1 .. Len(str) : str[i] # NL
<1>1. Code \ {NL} \subseteq Code /\ Code \subseteq Int /\ Code \ {NL} \subseteq Int
  BY DEF Code, NL
<1>2. str \in Text /\ str \in Seq(Int)
  BY <1>1, SeqMonotonic DEF Line, Text
<1>3. Len(str) \in Nat /\ \A i \in 1 .. Len(str) : str[i] \in Code \ {NL}
  BY ElementOfSeq DEF Line
<1> QED BY <1>2, <1>3, EncryptionAssumption

LEMMA TextInts == Text \subseteq Seq(Int)
<1>1. Code \subseteq Int
  BY DEF Code, NL
<1> QED BY <1>1, SeqMonotonic DEF Text

\* The k-th of these texts.
LEMMA PartsOfQueue ==
    ASSUME NEW m, QueueInv(m), NEW s, ListOf(m, s), NEW end \in Seq(Int)
    PROVE  LET f == QueueParts(m, end)
           IN  /\ m.size \in Nat
               /\ \A k \in 0 .. m.size - 1 :
                     /\ s[k + 1] \in m.allocated /\ m.data[s[k + 1]] \in Line
                     /\ f[k] = m.data[s[k + 1]] \o end /\ Part(f[k]) = f[k] /\ f[k] \in Seq(Int)
               /\ Joinable(f, m.size)
<1> DEFINE f == QueueParts(m, end)
<1>1. m \in Queue(Text) /\ m.size \in Nat
  BY DEF QueueInv, Queue
<1>2. ASSUME NEW k \in 0 .. m.size - 1
      PROVE  /\ s[k + 1] \in m.allocated /\ m.data[s[k + 1]] \in Line
             /\ f[k] = m.data[s[k + 1]] \o end /\ Part(f[k]) = f[k] /\ f[k] \in Seq(Int)
  <2>1. k + 1 \in 1 .. m.size /\ k + 1 \in 1 .. Len(s)
    BY <1>1 DEF ListOf
  <2>2. Strings(m)[k + 1] = m.data[s[k + 1]]
    BY <1>1, <2>1, StringsIs
  <2>3. s[k + 1] \in m.allocated
    BY <2>1 DEF ListOf
  <2>4. m.data[s[k + 1]] \in Line
    BY <2>3 DEF QueueInv
  <2>5. f[k] = m.data[s[k + 1]] \o end
    BY <2>2 DEF QueueParts
  <2>6. m.data[s[k + 1]] \o end \in Seq(Int)
    <3>1. m.data[s[k + 1]] \in Seq(Int)
      BY <2>4, LineTexts
    <3> QED BY <3>1, ConcatProperties
  <2> HIDE DEF f
  <2> QED BY <2>3, <2>4, <2>5, <2>6, EncryptionAssumption DEF Part
<1> HIDE DEF f
<1>3. Joinable(f, m.size)
  BY <1>2 DEF Joinable
<1> QED BY <1>1, <1>2, <1>3 DEF f

\* An empty queue has no text.
LEMMA EmptyQueueText ==
    ASSUME NEW m, QueueInv(m), NEW end \in Seq(Int)
    PROVE  QueueText(m, end) \in Seq(Int) /\ (m.size = 0 => QueueText(m, end) = <<>>)
<1> DEFINE f == QueueParts(m, end)
<1>1. PICK s : ListOf(m, s)
  BY DEF QueueInv
<1>2. m.size \in Nat /\ Joinable(f, m.size)
  BY <1>1, PartsOfQueue
<1> HIDE DEF f
<1>3. PICK j : Joins(f, m.size, j) /\ Joined(f, m.size) = j[m.size]
  BY <1>2, JoinedJoins
<1>4. Joined(f, m.size) \in Seq(Int) /\ (m.size = 0 => Joined(f, m.size) = <<>>)
  BY <1>2, <1>3 DEF Joins
<1> QED BY <1>4 DEF QueueText, f

LEMMA Enqueued ==
    ASSUME NEW m, QueueInv(m), NEW str \in Line, m.allocated # Nodes, NEW end \in Seq(Int)
    PROVE  /\ QueueInv(enqueue(m, str))
           /\ enqueue(m, str).size = m.size + 1
           /\ QueueText(enqueue(m, str), end) = QueueText(m, end) \o (str \o end)
<1> DEFINE n == NewNode(m)
           e == enqueue(m, str)
           f == QueueParts(m, end)
           g == QueueParts(e, end)
<1>1. PICK s : ListOf(m, s)
  BY DEF QueueInv
<1>2. m \in Queue(Text) /\ str \in Text
  BY LineTexts DEF QueueInv
<1>3. /\ n \in Nodes /\ n \notin m.allocated /\ e \in Queue(Text) /\ e.size = m.size + 1
      /\ e.data = [m.data EXCEPT ![n] = str] /\ e.allocated = m.allocated \cup {n}
  BY <1>2, EnqueueFields
<1>4. ListOf(e, Append(s, n))
  BY <1>1, <1>2, EnqueueEffect
<1>5. m.data \in [Nodes -> Text \cup {NULL}] /\ m.allocated \subseteq Nodes
  BY <1>2 DEF Queue
<1> HIDE DEF n, e
<1>6. e.data[n] = str /\ \A x \in m.allocated : e.data[x] = m.data[x]
  BY <1>3, <1>5
<1>7. QueueInv(e)
  BY <1>3, <1>4, <1>6 DEF QueueInv
<1>8. /\ m.size \in Nat /\ Joinable(f, m.size)
      /\ \A k \in 0 .. m.size - 1 : s[k + 1] \in m.allocated /\ f[k] = m.data[s[k + 1]] \o end
  BY <1>1, PartsOfQueue
<1>9. /\ Joinable(g, e.size)
      /\ \A k \in 0 .. e.size - 1 :
            g[k] = e.data[Append(s, n)[k + 1]] \o end /\ Part(g[k]) = g[k]
  BY <1>4, <1>7, PartsOfQueue, ZenonT(60)
<1> HIDE DEF f, g
<1>10. s \in Seq(Nodes) /\ Len(s) = m.size
  BY <1>1 DEF ListOf
<1>11. Append(s, n)[m.size + 1] = n /\ \A k \in 0 .. m.size - 1 : Append(s, n)[k + 1] = s[k + 1]
  BY <1>3, <1>8, <1>10
<1>12. \A k \in 0 .. m.size - 1 : g[k] = f[k]
  <2> TAKE k \in 0 .. m.size - 1
  <2>1. k \in 0 .. e.size - 1
    BY <1>3, <1>8
  <2>2. e.data[s[k + 1]] = m.data[s[k + 1]]
    BY <1>6, <1>8
  <2> QED BY <1>8, <1>9, <1>11, <2>1, <2>2
<1>13. Joined(g, m.size) = Joined(f, m.size)
  BY <1>8, <1>12, JoinedSame
<1>14. Part(g[m.size]) = str \o end
  <2>1. m.size \in 0 .. e.size - 1
    BY <1>3, <1>8
  <2> QED BY <1>6, <1>9, <1>11, <2>1
<1>15. Joined(g, m.size + 1) = Joined(g, m.size) \o Part(g[m.size])
  BY <1>3, <1>8, <1>9, JoinedNext
<1>16. QueueText(e, end) = Joined(g, m.size + 1) /\ QueueText(m, end) = Joined(f, m.size)
  BY <1>3 DEF QueueText, f, g
<1>17. QueueText(e, end) = QueueText(m, end) \o (str \o end)
  BY <1>13, <1>14, <1>15, <1>16, Zenon
<1> QED BY <1>3, <1>7, <1>17 DEF e

LEMMA Dequeued ==
    ASSUME NEW m, QueueInv(m), m.size > 0, NEW end \in Seq(Int)
    PROVE  /\ QueueInv(dequeue(m))
           /\ dequeue(m).size = m.size - 1
           /\ DequeuedString(m) \in Line
           /\ QueueText(m, end) = (DequeuedString(m) \o end) \o QueueText(dequeue(m), end)
<1> DEFINE d == dequeue(m)
           f == QueueParts(m, end)
           g == QueueParts(d, end)
<1>1. PICK s : ListOf(m, s)
  BY DEF QueueInv
<1>2. m \in Queue(Text)
  BY DEF QueueInv
<1> DEFINE t == Tail(s)
<1>3. m.front = s[1] /\ m.front \in Nodes /\ ListOf(d, t)
  BY <1>1, <1>2, DequeueEffect
<1>4. d \in Queue(Text) /\ d.size = m.size - 1 /\ d.data = m.data /\ d.allocated \subseteq m.allocated
  BY <1>2, <1>3, DequeueFields
<1> HIDE DEF d, t
<1>5. QueueInv(d)
  BY <1>3, <1>4 DEF QueueInv
<1>6. /\ m.size \in Nat /\ Joinable(f, m.size)
      /\ \A k \in 0 .. m.size - 1 :
            /\ s[k + 1] \in m.allocated /\ m.data[s[k + 1]] \in Line
            /\ f[k] = m.data[s[k + 1]] \o end /\ Part(f[k]) = f[k]
  BY <1>1, PartsOfQueue
<1>7. \A k \in 0 .. d.size - 1 : g[k] = d.data[t[k + 1]] \o end
  BY <1>3, <1>5, PartsOfQueue
<1> HIDE DEF f, g
<1>8. s \in Seq(Nodes) /\ Len(s) = m.size
  BY <1>1 DEF ListOf
<1> DEFINE l == d.size
<1>9. l \in Nat /\ l + 1 = m.size
  BY <1>4, <1>6
<1>10. \A k \in 0 .. l - 1 : t[k + 1] = s[(k + 1) + 1]
  BY <1>8, <1>9 DEF t
<1>11. \A k \in 0 .. l - 1 : g[k] = f[k + 1]
  <2> TAKE k \in 0 .. l - 1
  <2>1. k + 1 \in 0 .. m.size - 1
    BY <1>9
  <2>2. f[k + 1] = m.data[s[(k + 1) + 1]] \o end
    BY <1>6, <2>1
  <2> QED BY <1>4, <1>7, <1>10, <2>2
<1>12. Joined(f, l + 1) = Part(f[0]) \o Joined(g, l)
  <2>1. Joinable(f, l + 1)
    BY <1>6, <1>9
  <2> HIDE DEF l
  <2> QED BY <1>9, <1>11, <2>1, JoinedShift
<1>13. DequeuedString(m) \in Line /\ Part(f[0]) = DequeuedString(m) \o end
  <2>1. 0 \in 0 .. m.size - 1 /\ 0 + 1 = 1
    BY <1>6
  <2> QED BY <1>3, <1>6, <2>1 DEF DequeuedString
<1>14. QueueText(m, end) = Joined(f, l + 1) /\ QueueText(d, end) = Joined(g, l)
  BY <1>9 DEF QueueText, f, g
<1>15. QueueText(m, end) = (DequeuedString(m) \o end) \o QueueText(d, end)
  BY <1>12, <1>13, <1>14, Zenon
<1> QED BY <1>4, <1>5, <1>13, <1>15 DEF d

\* There are no more strings than nodes.
LEMMA QueueFits ==
    ASSUME NEW m, QueueInv(m)
    PROVE  /\ m.size \in 0 .. Cardinality(Nodes)
           /\ m.size > 0 => m.front \in Nodes
<1>1. PICK s : ListOf(m, s)
  BY DEF QueueInv
<1>2. m \in Queue(Text) /\ m.size \in Nat /\ m.allocated \in SUBSET Nodes
  BY DEF QueueInv, Queue
<1>3. s \in Seq(Nodes) /\ Len(s) = m.size
  BY <1>1 DEF ListOf
<1>4. s \in Bijection(1 .. m.size, m.allocated)
  <2>1. s \in [1 .. m.size -> m.allocated]
    BY <1>1, <1>3 DEF ListOf
  <2>2. IsInjective(s)
    BY <1>1, <1>3, <2>1 DEF ListOf, IsInjective
  <2>3. \A x \in m.allocated : \E i \in 1 .. m.size : s[i] = x
    BY <1>1, <1>3 DEF ListOf
  <2> QED BY <2>1, <2>2, <2>3 DEF Bijection, Injection, Surjection
<1>5. Cardinality(m.allocated) = m.size
  BY <1>2, <1>4, FS_CountingElements DEF ExistsBijection
<1>6. Cardinality(m.allocated) <= Cardinality(Nodes) /\ Cardinality(Nodes) \in Nat
  BY <1>2, FS_Subset, FS_CardinalityType, NodesAssumption
<1>7. m.size > 0 => m.front \in Nodes
  BY <1>1, <1>2, DequeueEffect
<1> QED BY <1>2, <1>5, <1>6, <1>7

-----------------------------------------------------------------------------
(* Reading, and generating, lines.                                         *)

\* fgets stops at the first newline, at the end of its buffer or of the text.
LEMMA PieceEnds ==
    ASSUME NEW text \in Text, text # <<>>
    PROVE  LET k == PieceLength(text, LINE_MAX)
           IN  /\ k \in 1 .. Len(text)
               /\ text[k] = NL \/ k = LINE_MAX \/ k = Len(text)
               /\ \A j \in 1 .. k - 1 : text[j] # NL /\ j # LINE_MAX
<1> DEFINE n == Len(text)
           Stop(k) == text[k] = NL \/ k = LINE_MAX \/ k = n
           T == {k \in 1 .. n : Stop(k)}
<1>1. n \in Nat /\ n # 0
  BY EmptySeq DEF Text
<1> HIDE DEF n
<1>2. n \in T /\ T \in SUBSET Nat
  BY <1>1
<1>3. PICK k \in T : \A i \in T : k <= i
  <2> HIDE DEF T
  <2> QED BY <1>2, Least
<1>4. k \in 1 .. n /\ Stop(k)
  BY <1>3
<1>5. \A j \in 1 .. k - 1 : text[j] # NL /\ j # LINE_MAX
  <2> TAKE j \in 1 .. k - 1
  <2>1. j \in 1 .. n /\ ~ (k <= j)
    BY <1>1, <1>4
  <2> QED BY <1>3, <2>1
<1> DEFINE P(i) == /\ text[i] = NL \/ i = LINE_MAX \/ i = n
                   /\ \A j \in 1 .. i - 1 : text[j] # NL /\ j # LINE_MAX
<1>6. \E i \in 1 .. n : P(i)
  BY <1>4, <1>5
<1>7. PieceLength(text, LINE_MAX) = CHOOSE i \in 1 .. n : P(i)
  BY DEF PieceLength, n
<1> HIDE DEF P
<1>8. PieceLength(text, LINE_MAX) \in 1 .. n /\ P(PieceLength(text, LINE_MAX))
  BY <1>6, <1>7
<1> QED BY <1>8 DEF P, n

\* What is taken and what is left make the text, and what is enqueued is a line.
LEMMA LineTaken ==
    ASSUME NEW text \in Text, text # <<>>
    PROVE  LET taken == fgets(text, LINE_MAX)
               str   == Stripped(taken)
           IN  /\ taken \in Text /\ Rest(text, LINE_MAX) \in Text
               /\ taken \o Rest(text, LINE_MAX) = text
               /\ str \in Line
               /\ taken = str \/ taken = str \o <<NL>>
               /\ text[PieceLength(text, LINE_MAX)] = NL => taken = str \o <<NL>>
<1> DEFINE k == PieceLength(text, LINE_MAX)
           n == Len(text)
           taken == fgets(text, LINE_MAX)
           rest_ == Rest(text, LINE_MAX)
           str == Stripped(taken)
<1>1. n \in Nat /\ k \in 1 .. n /\ \A j \in 1 .. k - 1 : text[j] # NL
  BY PieceEnds, LenProperties DEF Text
<1>2. taken = SubSeq(text, 1, k) /\ rest_ = SubSeq(text, k + 1, n)
  BY DEF fgets, Rest
<1> HIDE DEF k
<1>3. \A i \in 1 .. n : text[i] \in Code
  BY ElementOfSeq DEF Text
<1>4. taken \in Text /\ Len(taken) = k /\ \A i \in 1 .. k : taken[i] = text[i]
  <2>1. \A i \in 1 .. k : text[i] \in Code /\ i \in 1 .. k - 1 + 1 /\ 1 + i - 1 = i
    BY <1>1, <1>3
  <2>2. 1 \in Int /\ k \in Int /\ 1 <= k /\ k - 1 + 1 = k
    BY <1>1
  <2> QED BY <1>2, <2>1, <2>2, SubSeqProperties DEF Text
<1>5. rest_ \in Text
  <2>1. \A i \in k + 1 .. n : text[i] \in Code
    BY <1>1, <1>3
  <2> QED BY <1>1, <1>2, <2>1, SubSeqProperties DEF Text
<1>6. taken \o rest_ = text
  <2>1. text \in Seq(Int)
    BY TextInts
  <2> QED BY <1>1, <1>2, <2>1, ConcatAdjacentSubSeq, SubSeqFull
<1> HIDE DEF taken, rest_, n
<1>7. CASE text[k] = NL
  <2>1. str = SubSeq(taken, 1, k - 1)
    BY <1>1, <1>4, <1>7 DEF Stripped
  <2>2. \A i \in 1 .. k - 1 : taken[i] \in Code \ {NL} /\ i \in 1 .. (k - 1) - 1 + 1 /\ 1 + i - 1 = i
    BY <1>1, <1>3, <1>4
  <2>3. 1 \in Int /\ k - 1 \in Int /\ (IF 1 <= k - 1 THEN (k - 1) - 1 + 1 ELSE 0) = k - 1
    BY <1>1
  <2>4. str \in Line /\ Len(str) = k - 1 /\ \A i \in 1 .. k - 1 : str[i] = taken[i]
    BY <2>1, <2>2, <2>3, SubSeqProperties DEF Line
  <2>5. taken = str \o <<NL>>
    <3> DEFINE t == str \o <<NL>>
    <3>1. str \in Seq(Int) /\ <<NL>> \in Seq(Int) /\ taken \in Seq(Int) /\ Len(<<NL>>) = 1
      BY <1>4, <2>4, LineTexts, TextInts DEF NL
    <3>2. /\ t \in Seq(Int) /\ Len(t) = (k - 1) + 1
          /\ \A i \in 1 .. (k - 1) + 1 : t[i] = IF i <= k - 1 THEN str[i] ELSE <<NL>>[i - (k - 1)]
      BY <2>4, <3>1, ConcatProperties
    <3> HIDE DEF t
    <3>3. \A i \in 1 .. k : t[i] = taken[i]
      <4> TAKE i \in 1 .. k
      <4>1. CASE i = k
        BY <1>1, <1>4, <1>7, <3>2, <4>1
      <4>2. CASE i # k
        BY <1>1, <2>4, <3>2, <4>2
      <4> QED BY <4>1, <4>2
    <3>4. Len(t) = Len(taken)
      BY <1>1, <1>4, <3>2
    <3>5. t = taken
      BY <1>4, <3>1, <3>2, <3>3, <3>4, SeqEqual
    <3> QED BY <3>5 DEF t
  <2> QED BY <1>4, <1>5, <1>6, <2>4, <2>5 DEF taken, rest_
<1>8. CASE text[k] # NL
  <2>1. str = taken
    BY <1>1, <1>4, <1>8 DEF Stripped
  <2>2. \A i \in 1 .. k : taken[i] \in Code \ {NL}
    <3> TAKE i \in 1 .. k
    <3>1. i = k \/ i \in 1 .. k - 1
      BY <1>1
    <3>2. i \in 1 .. n
      BY <1>1
    <3> QED BY <1>1, <1>3, <1>4, <1>8, <3>1, <3>2
  <2>3. taken \in [1 .. k -> Code \ {NL}]
    BY <1>4, <2>2, LenProperties DEF Text
  <2>4. taken \in Line
    BY <1>1, <2>3, SeqDef DEF Line
  <2> QED BY <1>4, <1>5, <1>6, <1>8, <2>1, <2>4 DEF taken, rest_, k
<1> QED BY <1>7, <1>8

Limbs == Nat \X Nat \X Nat

\* The generator stays within its digits and within the range asked for.
LEMMA RandDigits ==
    ASSUME NEW x \in Limbs
    PROVE  lcg_rand(x) \in Limbs
<1>1. \A i, j \in Nat : i * j \in Nat /\ i + j \in Nat
  OBVIOUS
<1>2. \A i \in Nat, j \in Nat \ {0} : i % j \in Nat /\ i \div j \in Nat
  OBVIOUS
<1>3. B \in Nat \ {0} /\ B * B \in Nat \ {0}
  BY DEF B
<1>4. ASSUME NEW n \in Nat
      PROVE  Digits(n) \in Limbs
  <2>1. n % B \in Nat /\ n \div B \in Nat /\ n \div (B * B) \in Nat
    BY <1>2, <1>3
  <2>2. (n \div B) % B \in Nat
    BY <1>2, <1>3, <2>1
  <2> QED BY <2>1, <2>2 DEF Digits, Limbs
<1>5. ASSUME NEW a \in Limbs, NEW c \in Limbs
      PROVE  MulAdd(a, x, c, 512) \in Limbs
  <2>1. /\ a[1] \in Nat /\ a[2] \in Nat /\ a[3] \in Nat
        /\ x[1] \in Nat /\ x[2] \in Nat /\ x[3] \in Nat
        /\ c[1] \in Nat /\ c[2] \in Nat /\ c[3] \in Nat
    BY DEF Limbs
  <2> DEFINE s1 == a[1] * x[1] + c[1]
             s2 == a[1] * x[2] + a[2] * x[1] + c[2] + s1 \div B
             s3 == a[1] * x[3] + a[2] * x[2] + a[3] * x[1] + c[3] + s2 \div B
  <2>2. /\ a[1] * x[1] \in Nat /\ a[1] * x[2] \in Nat /\ a[2] * x[1] \in Nat
        /\ a[1] * x[3] \in Nat /\ a[2] * x[2] \in Nat /\ a[3] * x[1] \in Nat
    BY <1>1, <2>1
  <2>3. s1 \in Nat
    BY <2>1, <2>2
  <2> HIDE DEF s1
  <2>4. s1 \div B \in Nat
    BY <1>2, <1>3, <2>3
  <2>5. s2 \in Nat
    BY <2>1, <2>2, <2>4
  <2> HIDE DEF s2
  <2>6. s2 \div B \in Nat
    BY <1>2, <1>3, <2>5
  <2>7. s3 \in Nat
    BY <2>1, <2>2, <2>6
  <2> HIDE DEF s3
  <2>8. s1 % B \in Nat /\ s2 % B \in Nat /\ s3 % 512 \in Nat
    BY <1>2, <1>3, <2>3, <2>5, <2>7
  <2> QED BY <2>8 DEF MulAdd, Limbs, s1, s2, s3
<1>6. Digits(1103515245) \in Limbs /\ Digits(12345) \in Limbs
  BY <1>4
<1> QED BY <1>5, <1>6 DEF lcg_rand

LEMMA RangeRespected ==
    ASSUME NEW x \in Limbs, NEW lo \in Nat, NEW hi \in Nat, lo <= hi
    PROVE  lcg_rand_range(x, lo, hi) \in lo .. hi
<1> DEFINE m == hi - lo + 1
           top == (x[3] * B + x[2]) % m
           y == top * B + x[1]
<1>1. m \in Nat \ {0} /\ B \in Nat
  BY DEF B
<1>2. x[1] \in Nat /\ x[2] \in Nat /\ x[3] \in Nat
  BY DEF Limbs
<1>3. x[3] * B + x[2] \in Nat
  BY <1>1, <1>2 DEF B
<1> HIDE DEF m
<1>4. top \in Nat
  BY <1>1, <1>3
<1> HIDE DEF top
<1>5. y \in Nat
  BY <1>2, <1>4 DEF B
<1> HIDE DEF y
<1>6. y % m \in 0 .. m - 1
  BY <1>1, <1>5
<1>7. lcg_rand_range(x, lo, hi) = (y % m) + lo
  BY DEF lcg_rand_range, Mod, y, top, m
<1> QED BY <1>6, <1>7 DEF m

LEMMA AfterDigits ==
    ASSUME NEW x \in Limbs, NEW n \in Nat
    PROVE  After(lcg_rand, x, n) \in Limbs
<1> DEFINE Rhs(f) == [k \in 0 .. n |-> IF k = 0 THEN x ELSE lcg_rand(f[k - 1])]
           at == CHOOSE f : f = Rhs(f)
           step == [k \in 1 .. n |-> [t \in Limbs |-> lcg_rand(t)]]
<1>1. After(lcg_rand, x, n) = at[n]
  BY DEF After
<1>2. \A k \in 1 .. n : k \in 0 .. n /\ k # 0 /\ k - 1 \in 0 .. n
  OBVIOUS
<1>3. step \in [1 .. n -> [Limbs -> Limbs]]
  BY RandDigits
<1>4. PICK f : Iterates(f, n, Limbs, x, step)
  <2> HIDE DEF step
  <2> QED BY <1>3, Recursion
<1>5. f = Rhs(f)
  <2>1. f \in [0 .. n -> Limbs] /\ f[0] = x
    BY <1>4 DEF Iterates
  <2>2. \A k \in 1 .. n : f[k] = lcg_rand(f[k - 1])
    BY <1>2, <1>4, <2>1 DEF Iterates
  <2> QED BY <1>2, <2>1, <2>2
<1>6. at = Rhs(at)
  BY <1>5
<1> HIDE DEF at
<1>7. at[0] = x /\ \A k \in 1 .. n : at[k] = lcg_rand(at[k - 1])
  BY <1>2, <1>6
<1> DEFINE S == {k \in 0 .. n : at[k] \in Limbs}
<1>8. 0 \in S
  BY <1>7
<1>9. ASSUME NEW k \in 0 .. n - 1, k \in S
      PROVE  k + 1 \in S
  <2>1. k + 1 \in 1 .. n /\ (k + 1) - 1 = k /\ at[k] \in Limbs
    BY <1>9
  <2> QED BY <1>2, <1>7, <2>1, RandDigits
<1> HIDE DEF S
<1>10. \A k \in 0 .. n : k \in S
  BY <1>8, <1>9, Induction
<1> QED BY <1>1, <1>10 DEF S

\* A generated string is a line of the length asked for.
LEMMA GeneratedString ==
    ASSUME NEW x \in Limbs
    PROVE  RandomLength(x) \in Nat /\ generateRandomString(x) \in Text
<1> DEFINE n == RandomLength(x)
           c(i) == lcg_rand_range(After(lcg_rand, x, i + 1), 97, 122)
<1>1. n \in Nat
  <2>1. MIN_LEN \in Nat /\ MAX_LEN \in Nat /\ MIN_LEN <= MAX_LEN
    BY EncryptionAssumption
  <2>2. n \in MIN_LEN .. MAX_LEN
    BY <2>1, RandDigits, RangeRespected DEF RandomLength
  <2> QED BY <2>1, <2>2
<1> HIDE DEF n
<1>2. ASSUME NEW i \in 1 .. n
      PROVE  c(i) \in Code
  <2>1. After(lcg_rand, x, i + 1) \in Limbs
    BY <1>1, AfterDigits
  <2>2. c(i) \in 97 .. 122
    <3>1. \A r \in Limbs : lcg_rand_range(r, 97, 122) \in 97 .. 122
      <4>1. 97 \in Nat /\ 122 \in Nat /\ 97 <= 122
        OBVIOUS
      <4> TAKE r \in Limbs
      <4> QED BY <4>1, RangeRespected
    <3> QED BY <2>1, <3>1
  <2> QED BY <2>2 DEF Code
<1> HIDE DEF c
<1>3. [i \in 1 .. n |-> c(i)] \in [1 .. n -> Code]
  BY <1>2
<1>4. generateRandomString(x) \in [1 .. n -> Code]
  BY <1>3 DEF generateRandomString, n, c
<1>5. [1 .. n -> Code] \subseteq Text
  BY <1>1, SeqDef DEF Text
<1> QED BY <1>1, <1>4, <1>5 DEF n

-----------------------------------------------------------------------------
(* The cipher.                                                             *)

\* One character, shifted and shifted back.
Unshift(d) ==
    LET base == IF islower(d) THEN 97 ELSE 65
    IN  IF isalpha(d) THEN base + ((d - base + 23) % 26) ELSE d

LEMMA ShiftBack ==
    ASSUME NEW c \in Code
    PROVE  Shift(c) \in Code /\ Unshift(Shift(c)) = c
<1>1. \A i \in 0 .. 22 : (i + 3) % 26 = i + 3
  OBVIOUS
<1>2. \A i \in 23 .. 25 : (i + 3) % 26 = i - 23
  OBVIOUS
<1>3. \A i \in 3 .. 25 : (i + 23) % 26 = i - 3
  OBVIOUS
<1>4. \A i \in 0 .. 2 : (i + 23) % 26 = i + 23
  OBVIOUS
<1>5. CASE islower(c)
  <2> DEFINE i == c - 97
             s == (i + 3) % 26
  <2>1. c = 97 + i /\ i \in 0 .. 25 /\ isalpha(c)
    BY <1>5 DEF islower, isalpha
  <2>2. Shift(c) = 97 + s
    BY <1>5, <2>1 DEF Shift
  <2>3. s \in 0 .. 25 /\ (s + 23) % 26 = i
    <3>1. CASE i <= 22
      <4>1. s = i + 3
        BY <1>1, <2>1, <3>1
      <4> QED BY <1>3, <2>1, <3>1, <4>1
    <3>2. CASE i > 22
      <4>1. s = i - 23
        BY <1>2, <2>1, <3>2
      <4> QED BY <1>4, <2>1, <3>2, <4>1
    <3> QED BY <2>1, <3>1, <3>2
  <2> HIDE DEF i, s
  <2>4. islower(97 + s) /\ isalpha(97 + s) /\ 97 + s - 97 = s /\ 97 + s \in Code
    BY <2>3 DEF islower, isalpha, Code
  <2>5. Unshift(97 + s) = 97 + ((97 + s - 97 + 23) % 26)
    BY <2>3, <2>4 DEF Unshift
  <2> QED BY <2>1, <2>2, <2>3, <2>4, <2>5
<1>6. CASE isupper(c)
  <2> DEFINE i == c - 65
             s == (i + 3) % 26
  <2>1. c = 65 + i /\ i \in 0 .. 25 /\ isalpha(c) /\ ~ islower(c)
    BY <1>6 DEF islower, isupper, isalpha
  <2>2. Shift(c) = 65 + s
    BY <2>1 DEF Shift
  <2>3. s \in 0 .. 25 /\ (s + 23) % 26 = i
    <3>1. CASE i <= 22
      <4>1. s = i + 3
        BY <1>1, <2>1, <3>1
      <4> QED BY <1>3, <2>1, <3>1, <4>1
    <3>2. CASE i > 22
      <4>1. s = i - 23
        BY <1>2, <2>1, <3>2
      <4> QED BY <1>4, <2>1, <3>2, <4>1
    <3> QED BY <2>1, <3>1, <3>2
  <2> HIDE DEF i, s
  <2>4. ~ islower(65 + s) /\ isalpha(65 + s) /\ 65 + s - 65 = s /\ 65 + s \in Code
    BY <2>3 DEF islower, isupper, isalpha, Code
  <2>5. Unshift(65 + s) = 65 + ((65 + s - 65 + 23) % 26)
    BY <2>3, <2>4 DEF Unshift
  <2> QED BY <2>1, <2>2, <2>3, <2>4, <2>5
<1>7. CASE ~ isalpha(c)
  BY <1>7 DEF Shift, Unshift
<1> QED BY <1>5, <1>6, <1>7 DEF isalpha

\* A text, enciphered and deciphered.
LEMMA CipherInverts ==
    ASSUME NEW t \in Text
    PROVE  cipher(t) \in Text /\ Len(cipher(t)) = Len(t) /\ Decipher(cipher(t)) = t
<1> DEFINE n == Len(t)
           u == cipher(t)
<1>1. n \in Nat /\ t \in [1 .. n -> Code] /\ \A i \in 1 .. n : t[i] \in Code
  BY LenProperties DEF Text
<1>2. u = [i \in 1 .. n |-> Shift(t[i])]
  BY DEF cipher
<1> HIDE DEF n
<1>3. u \in [1 .. n -> Code]
  BY <1>1, <1>2, ShiftBack
<1>4. u \in Text /\ Len(u) = n
  <2>1. u \in Seq(Code)
    BY <1>1, <1>3, SeqDef
  <2>2. DOMAIN u = 1 .. n /\ DOMAIN u = 1 .. Len(u) /\ Len(u) \in Nat
    BY <1>3, <2>1, LenProperties
  <2> QED BY <1>1, <2>1, <2>2 DEF Text
<1>5. Decipher(u) = [i \in 1 .. n |-> Unshift(u[i])]
  BY <1>4 DEF Decipher, Unshift
<1>6. \A i \in 1 .. n : Unshift(u[i]) = t[i]
  BY <1>1, <1>2, ShiftBack
<1> HIDE DEF u
<1>7. Decipher(u) = t
  BY <1>1, <1>5, <1>6
<1> QED BY <1>4, <1>7 DEF u, n

-----------------------------------------------------------------------------
(* Types and stages.                                                       *)

FilesTyped ==
    /\ strings \in Text \cup {NoFile} /\ chunk \in [Chunks -> Text \cup {NoFile}]
    /\ out \in [Chunks -> Text \cup {NoFile}]

TerminalTyped == tty \in BOOLEAN /\ log \in Seq(Messages) /\ pending \in Seq(Messages)

PlaceTyped ==
    /\ pc \in Parents /\ unread \in Text
    /\ chunkIndex \in Chunks /\ written \in 0 .. CHUNK_SIZE + TOTAL_STRINGS
    /\ child \in [at: {"none", "reopen", "exec", "cipher", "dead"}, pending: Seq(Messages)]
    /\ (child.at = "none") = (pc # "wait")
    /\ lcg_state \in Limbs
    /\ spoiled \subseteq {"chunk", "out"} \X Chunks
    /\ status \in {"none", "success", "failure"} /\ runs \in 0 .. MaxRuns

\* What is where in the stages of a run: strings are read before the first chunk file is
\* begun, and are all read when it is; the chunk files begun are there.
Stages ==
    /\ pc \in {"shell", "generate", "strings", "load"} => q.size = 0
    /\ pc # "lines" => unread = <<>>
    /\ pc \in {"generate", "strings", "load", "lines"} => chunkIndex = 0 /\ spoiled = {}
    /\ pc \notin {"shell", "generate", "load", "end"} => strings \in Text
    /\ \A i \in 0 .. Begun - 1 : chunk[i] \in Text
    /\ pc = "write" /\ written = 0 => q.size > 0

\* Every chunk takes at least one string.
Room ==
    pc \in {"lines", "loop", "write", "fork", "wait"} =>
        chunkIndex + q.size + (IF pc \in {"fork", "wait"} \/ (pc = "write" /\ written > 0) THEN 1 ELSE 0)
            <= Cardinality(Nodes)

\* Once its stdout is redirected the child has nothing left to flush, and its output file
\* is empty until cipher writes to it.
ChildQuiet ==
    /\ child.at # "reopen" => child.pending = <<>>
    /\ child.at \in {"exec", "cipher"} => out[chunkIndex] = <<>>

EncInv ==
    FilesTyped /\ TerminalTyped /\ PlaceTyped /\ QueueInv(q) /\ Stages /\ Room /\ ChildQuiet

LEMMA NodesCounted == Cardinality(Nodes) \in Nat
BY FS_CardinalityType, NodesAssumption

LEMMA EmptyQueue == QueueInv(initQueue) /\ initQueue.size = 0
<1>1. initQueue \in Queue(Text) /\ initQueue.size = 0 /\ initQueue.allocated = {}
  BY DEF initQueue, Queue
<1>2. ListOf(initQueue, <<>>)
  BY <1>1 DEF ListOf, initQueue
<1> QED BY <1>1, <1>2 DEF QueueInv

\* The invariant says the types, and that output files hold no log.
LEMMA EncTypes == EncInv => TypeOK /\ NoLogInOutputs
<1> SUFFICES ASSUME EncInv PROVE TypeOK /\ NoLogInOutputs
  OBVIOUS
<1>1. Text \subseteq Seq(Code \cup Messages)
  BY SeqMonotonic DEF Text
<1>2. out \in [Chunks -> Seq(Code \cup Messages) \cup {NoFile}]
  BY <1>1 DEF EncInv, FilesTyped
<1>3. q \in Queue(Text) /\ q.size <= Cardinality(Nodes)
  BY QueueFits, NodesCounted DEF QueueInv, EncInv
<1>4. TypeOK
  BY <1>2, <1>3 DEF EncInv, TypeOK, FilesTyped, TerminalTyped, PlaceTyped, Text, Limbs
<1>5. NoLogInOutputs
  BY ElementOfSeq DEF NoLogInOutputs, EncInv, FilesTyped, Text
<1> QED BY <1>4, <1>5

\* Numbers the proofs need.
LEMMA EncNumbers ==
    ASSUME EncInv
    PROVE  /\ q.size \in Nat /\ chunkIndex \in Nat /\ chunkIndex <= Cardinality(Nodes)
           /\ Cardinality(Nodes) \in Nat /\ written \in Nat /\ runs \in Nat
           /\ CHUNK_SIZE \in Nat \ {0} /\ TOTAL_STRINGS \in Nat /\ MaxRuns \in Nat
<1>1. CHUNK_SIZE \in Nat \ {0} /\ TOTAL_STRINGS \in Nat /\ MaxRuns \in Nat
  BY EncryptionAssumption
<1> QED BY <1>1, NodesCounted DEF EncInv, PlaceTyped, Chunks, QueueInv, Queue

\* The end of a run.
LEMMA ExitKeeps ==
    ASSUME EncInv, pc # "wait", NEW st \in {"success", "failure"}, Exit(st)
    PROVE  EncInv'
<1> USE DEF Exit, files
<1>1. FilesTyped'
  BY DEF EncInv, FilesTyped
<1>2. TerminalTyped'
  BY DEF EncInv, TerminalTyped
<1>3. child.at = "none"
  BY DEF EncInv, PlaceTyped
<1>4. PlaceTyped'
  <2>1. 0 \in 0 .. CHUNK_SIZE + TOTAL_STRINGS
    BY EncNumbers
  <2> QED BY <1>3, <2>1 DEF EncInv, PlaceTyped, Parents, Text
<1>5. QueueInv(q)' /\ q'.size = 0
  BY EmptyQueue
<1>6. Stages'
  <2>1. \A i \in 0 .. chunkIndex - 1 : chunk[i] \in Text
    BY EncNumbers DEF EncInv, Stages, Begun
  <2>2. \A i \in 0 .. Begun' - 1 : chunk'[i] \in Text
    BY <2>1, EncNumbers DEF Begun
  <2> QED BY <1>5, <2>2 DEF Stages
<1>7. Room'
  BY DEF Room
<1>8. ChildQuiet'
  BY <1>3 DEF EncInv, ChildQuiet
<1> QED BY <1>1, <1>2, <1>4, <1>5, <1>6, <1>7, <1>8 DEF EncInv

LEMMA PrintfKeeps ==
    ASSUME EncInv, NEW line \in Messages, printf(line)
    PROVE  TerminalTyped'
<1>1. tty' = tty /\ tty \in BOOLEAN
  BY DEF EncInv, TerminalTyped, printf
<1>2. \/ log' = Append(log, line) /\ pending' = pending
      \/ pending' = Append(pending, line) /\ log' = log
  BY Zenon DEF printf
<1>3. log' \in Seq(Messages) /\ pending' \in Seq(Messages)
  <2>1. log \in Seq(Messages) /\ pending \in Seq(Messages)
    BY DEF EncInv, TerminalTyped
  <2>2. Append(log, line) \in Seq(Messages) /\ Append(pending, line) \in Seq(Messages)
    BY <2>1, AppendProperties
  <2> QED BY <1>2, <2>1, <2>2, Zenon
<1> QED BY <1>1, <1>3, Zenon DEF TerminalTyped

\* A file that is written may keep any part of what was written.
LEMMA StoredTexts ==
    ASSUME NEW text \in Text, NEW t \in Stored(text)
    PROVE  t \in Text
<1>1. CASE t = text
  BY <1>1
<1>2. CASE t # text
  <2>1. PICK k \in 0 .. Len(text) : t = SubSeq(text, 1, k)
    BY <1>2 DEF Stored
  <2>2. Len(text) \in Nat /\ \A i \in 1 .. Len(text) : text[i] \in Code
    BY ElementOfSeq, LenProperties DEF Text
  <2>3. k \in Int /\ \A i \in 1 .. k : text[i] \in Code
    BY <2>2
  <2> QED BY <2>1, <2>3, SubSeqProperties DEF Text
<1> QED BY <1>1, <1>2

LEMMA MainKeeps ==
    ASSUME EncInv, main
    PROVE  EncInv'
<1> USE DEF main, files
<1>1. pc = "shell" /\ q.size = 0 /\ unread = <<>>
  BY DEF EncInv, Stages
<1>2. FilesTyped' /\ TerminalTyped' /\ QueueInv(q)'
  BY DEF EncInv, FilesTyped, TerminalTyped
<1>3. PlaceTyped'
  <2>1. runs + 1 \in 0 .. MaxRuns /\ 0 \in Chunks
    BY EncNumbers DEF EncInv, PlaceTyped, Chunks
  <2>2. Seeds \subseteq Limbs
    BY EncryptionAssumption DEF Limbs
  <2> QED BY <1>1, <2>1, <2>2 DEF EncInv, PlaceTyped, Parents
<1>4. Stages'
  <2>1. Begun' = 0 /\ 0 .. 0 - 1 = {}
    BY DEF Begun
  <2> QED BY <1>1, <2>1 DEF Stages
<1>5. Room' /\ ChildQuiet'
  BY <1>1 DEF EncInv, Room, ChildQuiet, PlaceTyped
<1> QED BY <1>2, <1>3, <1>4, <1>5 DEF EncInv

LEMMA GenerateKeeps ==
    ASSUME EncInv, generateStringsFile
    PROVE  EncInv'
<1> USE DEF terminal, loop, rest
<1>1. CASE GenerateOpen
  <2>1. CASE Exit("failure")
    BY <1>1, <2>1, ExitKeeps DEF GenerateOpen
  <2>2. CASE ~ Exit("failure")
    <3>1. /\ pc = "generate" /\ strings' = <<>> /\ pc' = "strings"
          /\ UNCHANGED <<chunk, out, terminal, loop, rest>>
      BY <1>1, <2>2 DEF GenerateOpen
    <3>2. <<>> \in Text
      BY DEF Text
    <3>3. FilesTyped' /\ TerminalTyped' /\ QueueInv(q)' /\ PlaceTyped' /\ Room' /\ ChildQuiet'
      BY <3>1, <3>2 DEF EncInv, FilesTyped, TerminalTyped, PlaceTyped, Room, ChildQuiet, Parents
    <3>4. Begun' = Begun
      BY <3>1 DEF Begun
    <3>5. Stages'
      BY <3>1, <3>2, <3>4 DEF EncInv, Stages
    <3> QED BY <3>3, <3>5 DEF EncInv
  <2> QED BY <2>1, <2>2
<1>2. CASE GenerateString
  <2>1. /\ pc = "strings" /\ written < TOTAL_STRINGS /\ strings \in Text /\ lcg_state \in Limbs
    BY <1>2 DEF GenerateString, EncInv, Stages, PlaceTyped
  <2>2. generateRandomString(lcg_state) \in Text /\ RandomLength(lcg_state) + 1 \in Nat
    BY <2>1, GeneratedString
  <2>3. strings' \in Text
    <3>1. <<NL>> \in Text
      BY DEF Text, Code
    <3> QED BY <1>2, <2>1, <2>2, <3>1, ConcatProperties DEF GenerateString, Text
  <2>4. lcg_state' \in Limbs
    BY <1>2, <2>1, <2>2, AfterDigits DEF GenerateString
  <2>5. written + 1 \in 0 .. CHUNK_SIZE + TOTAL_STRINGS
    BY <2>1, EncNumbers
  <2>6. FilesTyped' /\ TerminalTyped' /\ QueueInv(q)' /\ PlaceTyped' /\ Room' /\ ChildQuiet'
    BY <1>2, <2>3, <2>4, <2>5
       DEF GenerateString, EncInv, FilesTyped, TerminalTyped, PlaceTyped, Room, ChildQuiet, Parents
  <2>7. Begun' = Begun
    BY <1>2 DEF GenerateString, Begun
  <2>8. Stages'
    BY <1>2, <2>3, <2>7 DEF GenerateString, EncInv, Stages
  <2> QED BY <2>6, <2>8 DEF EncInv
<1>3. CASE GenerateEnd
  <2>1. strings \in Text
    BY <1>3 DEF GenerateEnd, EncInv, Stages
  <2>2. strings' \in Text
    BY <1>3, <2>1, StoredTexts DEF GenerateEnd
  <2>3. TerminalTyped'
    BY <1>3, PrintfKeeps DEF GenerateEnd, Messages
  <2>4. FilesTyped' /\ QueueInv(q)' /\ PlaceTyped' /\ Room' /\ ChildQuiet'
    BY <1>3, <2>2 DEF GenerateEnd, EncInv, FilesTyped, PlaceTyped, Room, ChildQuiet, Parents
  <2>5. Begun' = Begun
    BY <1>3 DEF GenerateEnd, Begun
  <2>6. Stages'
    BY <1>3, <2>2, <2>5 DEF GenerateEnd, EncInv, Stages
  <2> QED BY <2>3, <2>4, <2>6 DEF EncInv
<1> QED BY <1>1, <1>2, <1>3 DEF generateStringsFile

LEMMA LoadKeeps ==
    ASSUME EncInv, loadStringsIntoQueue
    PROVE  EncInv'
<1> USE DEF files, terminal, loop, rest
<1>1. CASE LoadOpen
  <2>1. CASE Exit("failure")
    BY <1>1, <2>1, ExitKeeps DEF LoadOpen
  <2>2. CASE ~ Exit("failure")
    <3>1. /\ pc = "load" /\ strings # NoFile /\ unread' = strings /\ pc' = "lines"
          /\ UNCHANGED <<files, terminal, q, chunkIndex, written, rest>>
      BY <1>1, <2>2 DEF LoadOpen
    <3>2. strings \in Text
      BY <3>1 DEF EncInv, FilesTyped
    <3>3. FilesTyped' /\ TerminalTyped' /\ QueueInv(q)' /\ PlaceTyped' /\ ChildQuiet'
      BY <3>1, <3>2 DEF EncInv, FilesTyped, TerminalTyped, PlaceTyped, ChildQuiet, Parents
    <3>4. Begun' = Begun
      BY <3>1 DEF Begun
    <3>5. Stages' /\ Room'
      BY <3>1, <3>2, <3>4, EncNumbers DEF EncInv, Stages, Room
    <3> QED BY <3>3, <3>5 DEF EncInv
  <2> QED BY <2>1, <2>2
<1>2. CASE LoadLine
  <2>1. CASE Exit("failure")
    BY <1>2, <2>1, ExitKeeps DEF LoadLine
  <2>2. CASE ~ Exit("failure")
    <3> DEFINE str == Stripped(fgets(unread, LINE_MAX))
    <3>1. /\ pc = "lines" /\ unread # <<>> /\ q.allocated # Nodes /\ q' = enqueue(q, str)
          /\ unread' = Rest(unread, LINE_MAX)
          /\ UNCHANGED <<files, terminal, pc, chunkIndex, written, rest>>
      BY <1>2, <2>2 DEF LoadLine
    <3>2. unread \in Text /\ QueueInv(q) /\ chunkIndex = 0
      BY <3>1 DEF EncInv, PlaceTyped, Stages
    <3>3. str \in Line /\ unread' \in Text
      BY <3>1, <3>2, LineTaken
    <3> HIDE DEF str
    <3>4. QueueInv(q')
      <4>1. <<>> \in Seq(Int)
        OBVIOUS
      <4> QED BY <3>1, <3>2, <3>3, <4>1, Enqueued
    <3>5. q'.size \in 0 .. Cardinality(Nodes)
      BY <3>4, QueueFits
    <3>6. FilesTyped' /\ TerminalTyped' /\ PlaceTyped' /\ ChildQuiet'
      BY <3>1, <3>3 DEF EncInv, FilesTyped, TerminalTyped, PlaceTyped, ChildQuiet
    <3>7. Begun' = Begun
      BY <3>1 DEF Begun
    <3>8. Stages'
      BY <3>1, <3>7 DEF EncInv, Stages
    <3>9. Room'
      BY <3>1, <3>2, <3>5, EncNumbers DEF Room
    <3> QED BY <3>4, <3>6, <3>8, <3>9 DEF EncInv
  <2> QED BY <2>1, <2>2
<1>3. CASE LoadEnd
  <2>1. TerminalTyped'
    BY <1>3, PrintfKeeps DEF LoadEnd, Messages
  <2>2. FilesTyped' /\ QueueInv(q)' /\ PlaceTyped' /\ Room' /\ ChildQuiet'
    BY <1>3 DEF LoadEnd, EncInv, FilesTyped, PlaceTyped, Room, ChildQuiet, Parents
  <2>3. Begun' = Begun
    BY <1>3 DEF LoadEnd, Begun
  <2>4. Stages'
    BY <1>3, <2>3 DEF LoadEnd, EncInv, Stages
  <2> QED BY <2>1, <2>2, <2>4 DEF EncInv
<1> QED BY <1>1, <1>2, <1>3 DEF loadStringsIntoQueue

LEMMA ChunksKeep ==
    ASSUME EncInv, processInChunks
    PROVE  EncInv'
<1> USE DEF files, terminal, loop, rest
<1>1. CASE NextChunk
  <2>1. pc = "loop"
    BY <1>1 DEF NextChunk
  <2>2. CASE pc' = "free"
    <3>1. /\ printf(PROCESSED) /\ spoiled' \in {spoiled, spoiled \cup {<<"chunk", chunkIndex>>}}
          /\ UNCHANGED <<files, loop, child, lcg_state, status, runs>>
      BY <1>1, <2>2 DEF NextChunk, EndLoop, ChunkOpenFails
    <3>2. TerminalTyped'
      BY <3>1, PrintfKeeps DEF Messages
    <3>3. FilesTyped' /\ QueueInv(q)' /\ PlaceTyped' /\ Room' /\ ChildQuiet'
      BY <2>1, <2>2, <3>1 DEF EncInv, FilesTyped, PlaceTyped, Room, ChildQuiet, Parents
    <3>4. Begun' = Begun
      BY <2>1, <2>2, <3>1 DEF Begun
    <3>5. Stages'
      BY <2>1, <2>2, <3>1, <3>4 DEF EncInv, Stages
    <3> QED BY <3>2, <3>3, <3>5 DEF EncInv
  <2>3. CASE pc' # "free"
    <3>1. /\ ~ isEmptyQueue(q) /\ chunk' = [chunk EXCEPT ![chunkIndex] = <<>>] /\ written' = 0
          /\ pc' = "write" /\ UNCHANGED <<strings, out, terminal, unread, q, chunkIndex, rest>>
      BY <1>1, <2>3 DEF NextChunk, EndLoop, ChunkOpenFails
    <3>2. <<>> \in Text /\ q.size > 0
      BY <3>1, EncNumbers DEF Text, isEmptyQueue
    <3>3. 0 \in 0 .. CHUNK_SIZE + TOTAL_STRINGS
      BY EncNumbers
    <3>4. FilesTyped' /\ TerminalTyped' /\ QueueInv(q)' /\ PlaceTyped' /\ Room' /\ ChildQuiet'
      BY <2>1, <3>1, <3>2, <3>3 DEF EncInv, FilesTyped, TerminalTyped, PlaceTyped, Room, ChildQuiet, Parents
    <3>5. Stages'
      <4>1. chunk \in [Chunks -> Text \cup {NoFile}] /\ chunkIndex \in Chunks
        BY DEF EncInv, FilesTyped, PlaceTyped
      <4>2. \A i \in 0 .. chunkIndex - 1 : chunk[i] \in Text /\ i \in Chunks /\ i # chunkIndex
        BY <2>1, EncNumbers DEF EncInv, Stages, Begun, Chunks
      <4>3. chunk'[chunkIndex] \in Text /\ \A i \in 0 .. chunkIndex - 1 : chunk'[i] \in Text
        BY <3>1, <3>2, <4>1, <4>2
      <4>4. \A i \in 0 .. Begun' - 1 : chunk'[i] \in Text
        BY <3>1, <4>3, EncNumbers DEF Begun
      <4> QED BY <2>1, <3>1, <3>2, <4>4 DEF EncInv, Stages
    <3> QED BY <3>4, <3>5 DEF EncInv
  <2> QED BY <2>2, <2>3
<1>2. CASE WriteString
  <2>1. /\ pc = "write" /\ q.size > 0 /\ ~ (written >= CHUNK_SIZE)
        /\ chunk' = [chunk EXCEPT ![chunkIndex] = chunk[chunkIndex] \o DequeuedString(q) \o <<NL>>]
        /\ q' = dequeue(q) /\ written' = written + 1
        /\ UNCHANGED <<strings, out, terminal, pc, unread, chunkIndex, rest>>
    BY <1>2, EncNumbers DEF WriteString, isEmptyQueue, ChunkFull
  <2>2. QueueInv(q') /\ q'.size = q.size - 1 /\ DequeuedString(q) \in Text
    <3>1. <<>> \in Seq(Int)
      OBVIOUS
    <3>2. QueueInv(q)
      BY DEF EncInv
    <3> QED BY <2>1, <3>1, <3>2, Dequeued, LineTexts
  <2>3. chunk[chunkIndex] \in Text
    BY <2>1, EncNumbers DEF EncInv, Stages, Begun
  <2>4. chunk[chunkIndex] \o DequeuedString(q) \o <<NL>> \in Text
    <3>1. <<NL>> \in Text
      BY DEF Text, Code
    <3> QED BY <2>2, <2>3, <3>1, ConcatProperties DEF Text
  <2>5. written + 1 \in 0 .. CHUNK_SIZE + TOTAL_STRINGS /\ written + 1 > 0
    BY <2>1, EncNumbers
  <2>6. FilesTyped' /\ TerminalTyped' /\ PlaceTyped' /\ ChildQuiet'
    BY <2>1, <2>4, <2>5 DEF EncInv, FilesTyped, TerminalTyped, PlaceTyped, ChildQuiet, Parents
  <2>7. Room'
    BY <2>1, <2>2, EncNumbers DEF EncInv, Room
  <2>8. Stages'
    <3>1. chunk \in [Chunks -> Text \cup {NoFile}] /\ chunkIndex \in Chunks
      BY DEF EncInv, FilesTyped, PlaceTyped
    <3>2. \A i \in 0 .. Begun - 1 : chunk[i] \in Text /\ i \in Chunks
      BY <2>1, EncNumbers DEF EncInv, Stages, Begun, Chunks
    <3>3. \A i \in 0 .. Begun - 1 : chunk'[i] \in Text
      BY <2>1, <2>4, <3>1, <3>2
    <3>4. Begun' = Begun
      BY <2>1 DEF Begun
    <3> QED BY <2>1, <2>5, <3>3, <3>4 DEF EncInv, Stages
  <2> QED BY <2>2, <2>6, <2>7, <2>8 DEF EncInv
<1>3. CASE WriteClose
  <2>1. PICK text \in Stored(chunk[chunkIndex]) :
          /\ chunk' = [chunk EXCEPT ![chunkIndex] = text]
          /\ spoiled' = IF text = chunk[chunkIndex] THEN spoiled
                        ELSE spoiled \cup {<<"chunk", chunkIndex>>}
    BY <1>3 DEF WriteClose
  <2>2. /\ pc = "write" /\ pc' = "fork" /\ (q.size = 0 \/ written >= CHUNK_SIZE)
        /\ UNCHANGED <<strings, out, terminal, loop, child, lcg_state, status, runs>>
    BY <1>3 DEF WriteClose, isEmptyQueue, ChunkFull
  <2>3. written > 0
    BY <2>2, EncNumbers DEF EncInv, Stages
  <2>4. chunk[chunkIndex] \in Text
    BY <2>2, EncNumbers DEF EncInv, Stages, Begun
  <2>5. text \in Text
    BY <2>1, <2>4, StoredTexts
  <2>6. FilesTyped' /\ TerminalTyped' /\ QueueInv(q)' /\ PlaceTyped' /\ Room' /\ ChildQuiet'
    BY <2>1, <2>2, <2>3, <2>5 DEF EncInv, FilesTyped, TerminalTyped, PlaceTyped, Room, ChildQuiet, Parents
  <2>7. Stages'
    <3>1. chunk \in [Chunks -> Text \cup {NoFile}] /\ chunkIndex \in Chunks
      BY DEF EncInv, FilesTyped, PlaceTyped
    <3>2. \A i \in 0 .. Begun - 1 : chunk[i] \in Text /\ i \in Chunks
      BY <2>2, EncNumbers DEF EncInv, Stages, Begun, Chunks
    <3>3. \A i \in 0 .. Begun - 1 : chunk'[i] \in Text
      BY <2>1, <2>5, <3>1, <3>2
    <3>4. Begun' = Begun
      BY <2>2 DEF Begun
    <3> QED BY <2>2, <3>3, <3>4 DEF EncInv, Stages
  <2> QED BY <2>6, <2>7 DEF EncInv
<1>4. CASE fork
  <2>1. CASE Exit("failure")
    BY <1>4, <2>1, ExitKeeps DEF fork
  <2>2. CASE ~ Exit("failure")
    <3>1. /\ pc = "fork" /\ child' = [at |-> "reopen", pending |-> pending] /\ pc' = "wait"
          /\ UNCHANGED <<files, terminal, loop, lcg_state, spoiled, status, runs>>
      BY <1>4, <2>2 DEF fork
    <3>2. FilesTyped' /\ TerminalTyped' /\ QueueInv(q)' /\ PlaceTyped' /\ Room' /\ ChildQuiet'
      BY <3>1 DEF EncInv, FilesTyped, TerminalTyped, PlaceTyped, Room, ChildQuiet, Parents
    <3>3. Begun' = Begun
      BY <3>1 DEF Begun
    <3>4. Stages'
      BY <3>1, <3>3 DEF EncInv, Stages
    <3> QED BY <3>2, <3>4 DEF EncInv
  <2> QED BY <2>1, <2>2
<1>5. CASE wait
  <2>1. /\ pc = "wait" /\ child.at = "dead" /\ child' = [child EXCEPT !.at = "none"]
        /\ chunkIndex' = chunkIndex + 1 /\ pc' = "loop"
        /\ UNCHANGED <<files, terminal, unread, q, written, lcg_state, spoiled, status, runs>>
    BY <1>5 DEF wait
  <2>2. chunkIndex + 1 + q.size <= Cardinality(Nodes) /\ chunkIndex + 1 \in Chunks
    BY <2>1, EncNumbers DEF EncInv, Room, Chunks
  <2>3. FilesTyped' /\ TerminalTyped' /\ QueueInv(q)' /\ PlaceTyped' /\ ChildQuiet'
    BY <2>1, <2>2 DEF EncInv, FilesTyped, TerminalTyped, PlaceTyped, ChildQuiet, Parents
  <2>4. Room'
    BY <2>1, <2>2, EncNumbers DEF Room
  <2>5. Begun' = Begun
    BY <2>1, EncNumbers DEF Begun
  <2>6. Stages'
    BY <2>1, <2>5 DEF EncInv, Stages
  <2> QED BY <2>3, <2>4, <2>6 DEF EncInv
<1> QED BY <1>1, <1>2, <1>3, <1>4, <1>5 DEF processInChunks

LEMMA FreeKeeps ==
    ASSUME EncInv, freeQueue
    PROVE  EncInv'
<1> USE DEF files, terminal, rest
<1>1. /\ pc = "free" /\ pc' \in {"free", "end"} /\ QueueInv(q')
      /\ UNCHANGED <<files, terminal, unread, chunkIndex, written, rest>>
  <2>1. <<>> \in Seq(Int) /\ QueueInv(q)
    BY DEF EncInv
  <2>2. ASSUME ~ isEmptyQueue(q)
        PROVE  QueueInv(dequeue(q))
    <3>1. q.size > 0
      BY <2>2, EncNumbers DEF isEmptyQueue
    <3> QED BY <2>1, <3>1, Dequeued
  <2> QED BY <2>1, <2>2 DEF freeQueue
<1>2. FilesTyped' /\ TerminalTyped' /\ PlaceTyped' /\ Room' /\ ChildQuiet'
  BY <1>1 DEF EncInv, FilesTyped, TerminalTyped, PlaceTyped, Room, ChildQuiet, Parents
<1>3. Begun' = Begun
  BY <1>1 DEF Begun
<1>4. Stages'
  BY <1>1, <1>3 DEF EncInv, Stages
<1> QED BY <1>1, <1>2, <1>4 DEF EncInv

\* The child writes to its output file and to the log, and changes nothing else.
ChildStep ==
    /\ pc = "wait" /\ child.at \notin {"none", "dead"}
    /\ \E at \in {"exec", "cipher", "dead"} :
          /\ child' = [at |-> at, pending |-> <<>>]
          /\ at # "dead" => out'[chunkIndex] = <<>>
    /\ log' \in {log, log \o child.pending}
    /\ \E text \in Text \cup {NoFile} : out' = [out EXCEPT ![chunkIndex] = text]
    /\ spoiled' \in {spoiled, spoiled \cup {<<"out", chunkIndex>>}}
    /\ child'.at = "dead" /\ <<"out", chunkIndex>> \notin spoiled' =>
          chunk[chunkIndex] \in Text /\ out'[chunkIndex] = cipher(chunk[chunkIndex])
    /\ UNCHANGED <<strings, chunk, tty, pending, pc, loop, lcg_state, status, runs>>

LEMMA ChildSteps ==
    ASSUME EncInv, Child \/ ChildKilled
    PROVE  ChildStep
<1>1. /\ out \in [Chunks -> Text \cup {NoFile}] /\ chunkIndex \in Chunks
      /\ child.at = "none" \/ pc = "wait"
      /\ <<>> \in Text
  BY DEF EncInv, FilesTyped, PlaceTyped, Text
<1>2. out = [out EXCEPT ![chunkIndex] = out[chunkIndex]] /\ out[chunkIndex] \in Text \cup {NoFile}
  BY <1>1
<1>3. UNCHANGED <<strings, chunk, tty, pending, pc, loop, lcg_state, status, runs>>
  BY DEF Child, ChildKilled
<1>4. CASE freopen
  <2>1. pc = "wait" /\ child.at = "reopen" /\ log' = log \o child.pending
    BY <1>1, <1>4 DEF freopen
  <2>2. CASE /\ child' = [at |-> "exec", pending |-> <<>>]
             /\ out' = [out EXCEPT ![chunkIndex] = <<>>]
             /\ UNCHANGED spoiled
    <3>1. out'[chunkIndex] = <<>>
      BY <1>1, <2>2
    <3> QED BY <1>1, <1>3, <2>1, <2>2, <3>1 DEF ChildStep
  <2>3. CASE /\ child' = [at |-> "dead", pending |-> <<>>]
             /\ spoiled' = spoiled \cup {<<"out", chunkIndex>>}
             /\ UNCHANGED out
    BY <1>2, <1>3, <2>1, <2>3 DEF ChildStep
  <2> QED BY <1>4, <2>2, <2>3 DEF freopen
<1>5. ASSUME NEW text \in Text \cup {NoFile}, NEW ok \in BOOLEAN, child.at \notin {"none", "dead"},
             ok => chunk[chunkIndex] \in Text /\ text = cipher(chunk[chunkIndex]), ChildExits(text, ok)
      PROVE  ChildStep
  <2>1. out'[chunkIndex] = text
    BY <1>1, <1>5 DEF ChildExits
  <2> QED BY <1>1, <1>3, <1>5, <2>1 DEF ChildExits, ChildStep
<1>6. CASE execlp
  <2>1. child.at = "exec" /\ child.pending = <<>> /\ out[chunkIndex] = <<>>
    BY <1>6 DEF execlp, EncInv, ChildQuiet
  <2>2. CASE child' = [at |-> "cipher", pending |-> <<>>] /\ UNCHANGED <<out, log, spoiled>>
    BY <1>1, <1>2, <1>3, <2>1, <2>2 DEF ChildStep
  <2>3. CASE ChildExits(out[chunkIndex] \o child.pending, FALSE)
    <3>1. out[chunkIndex] \o child.pending \in Text
      BY <1>1, <2>1 DEF Text
    <3> QED BY <1>5, <2>1, <2>3, <3>1
  <2> QED BY <1>6, <2>2, <2>3 DEF execlp
<1>7. CASE RunCipher
  <2>1. child.at = "cipher" /\ out[chunkIndex] = <<>>
    BY <1>7 DEF RunCipher, EncInv, ChildQuiet
  <2>2. chunk[chunkIndex] \in Text
    BY <1>1, <2>1, EncNumbers DEF EncInv, Stages, Begun
  <2>3. \A text \in Stored(cipher(chunk[chunkIndex])) : text \in Text
    BY <2>2, CipherInverts, StoredTexts
  <2>4. CASE ChildExits(out[chunkIndex], FALSE)
    BY <1>1, <1>5, <2>1, <2>4
  <2>5. CASE \E text \in Stored(cipher(chunk[chunkIndex])) :
                ChildExits(out[chunkIndex] \o text, text = cipher(chunk[chunkIndex]))
    <3>1. PICK text \in Stored(cipher(chunk[chunkIndex])) :
                 ChildExits(out[chunkIndex] \o text, text = cipher(chunk[chunkIndex]))
      BY <2>5
    <3>2. text \in Text /\ out[chunkIndex] \o text = text
      BY <2>1, <2>3, ConcatEmptySeq DEF Text
    <3>3. CASE text = cipher(chunk[chunkIndex])
      <4>1. ChildExits(text, TRUE)
        BY <3>1, <3>2, <3>3 DEF ChildExits
      <4> QED BY <1>5, <2>1, <2>2, <3>2, <3>3, <4>1
    <3>4. CASE text # cipher(chunk[chunkIndex])
      <4>1. ChildExits(text, FALSE)
        BY <3>1, <3>2, <3>4 DEF ChildExits
      <4> QED BY <1>5, <2>1, <3>2, <4>1
    <3> QED BY <3>3, <3>4
  <2> QED BY <1>7, <2>4, <2>5 DEF RunCipher
<1>8. CASE Killed
  <2>1. CASE ChildExits(out[chunkIndex], FALSE)
    BY <1>2, <1>5, <1>8, <2>1 DEF Killed
  <2>2. ASSUME NEW k \in 1 .. Len(chunk[chunkIndex]), child.at = "cipher",
               ChildExits(out[chunkIndex] \o SubSeq(cipher(chunk[chunkIndex]), 1, k), FALSE)
        PROVE  ChildStep
    <3>1. out[chunkIndex] = <<>>
      BY <2>2 DEF EncInv, ChildQuiet
    <3>2. chunk[chunkIndex] \in Text
      BY <1>1, <2>2, EncNumbers DEF EncInv, Stages, Begun
    <3>3. cipher(chunk[chunkIndex]) \in Text /\ k \in 1 .. Len(cipher(chunk[chunkIndex]))
      BY <2>2, <3>2, CipherInverts
    <3> DEFINE t == SubSeq(cipher(chunk[chunkIndex]), 1, k)
    <3>4. t \in Text
      BY <3>3, SubSeqProperties DEF Text
    <3>5. out[chunkIndex] \o t = t
      BY <3>1, <3>4, ConcatEmptySeq DEF Text
    <3>6. ChildExits(t, FALSE)
      BY <2>2, <3>5
    <3> HIDE DEF t
    <3> QED BY <1>5, <2>2, <3>4, <3>6
  <2> QED BY <1>8, <2>1, <2>2 DEF Killed
<1> QED BY <1>4, <1>6, <1>7, <1>8 DEF Child, ChildKilled

LEMMA ChildKeeps ==
    ASSUME EncInv, ChildStep
    PROVE  EncInv'
<1> USE DEF loop
<1>1. log \o child.pending \in Seq(Messages)
  BY DEF EncInv, TerminalTyped, PlaceTyped
<1>2. FilesTyped' /\ TerminalTyped' /\ QueueInv(q)' /\ Room'
  BY <1>1 DEF ChildStep, EncInv, FilesTyped, TerminalTyped, Room
<1>3. PlaceTyped'
  <2>1. <<"out", chunkIndex>> \in {"chunk", "out"} \X Chunks
    BY DEF EncInv, PlaceTyped
  <2>2. PICK at \in {"exec", "cipher", "dead"} : child' = [at |-> at, pending |-> <<>>]
    BY DEF ChildStep
  <2> QED BY <2>1, <2>2 DEF ChildStep, EncInv, PlaceTyped
<1>4. ChildQuiet'
  BY DEF ChildStep, ChildQuiet
<1>5. Begun' = Begun
  BY DEF ChildStep, Begun
<1>6. Stages'
  BY <1>5 DEF ChildStep, EncInv, Stages
<1> QED BY <1>2, <1>3, <1>4, <1>6 DEF EncInv

\* The invariant holds at the start and is kept by every step.
LEMMA EncInit == Init => EncInv
<1> SUFFICES ASSUME Init PROVE EncInv
  OBVIOUS
<1> USE DEF Init
<1>1. <<>> \in Text /\ <<>> \in Seq(Messages)
  BY DEF Text
<1>2. FilesTyped
  BY EncryptionAssumption DEF FilesTyped, Text
<1>3. TerminalTyped
  <2>1. tty \in BOOLEAN
    BY Zenon
  <2>2. log \in Seq(Messages) /\ pending \in Seq(Messages)
    BY <1>1
  <2> QED BY <2>1, <2>2, Zenon DEF TerminalTyped
<1>4. PlaceTyped
  <2>1. 0 \in Chunks /\ 0 \in 0 .. CHUNK_SIZE + TOTAL_STRINGS /\ 0 \in 0 .. MaxRuns
    BY NodesCounted, EncryptionAssumption DEF Chunks
  <2>2. Digits(1) \in Limbs
    BY DEF Digits, Limbs, B
  <2> QED BY <1>1, <2>1, <2>2 DEF PlaceTyped, Parents
<1>5. QueueInv(q) /\ q.size = 0
  BY EmptyQueue
<1>6. Stages
  <2>1. Begun = 0 /\ 0 .. 0 - 1 = {}
    BY DEF Begun
  <2> QED BY <1>5, <2>1 DEF Stages
<1>7. Room /\ ChildQuiet
  BY DEF Room, ChildQuiet
<1> QED BY <1>2, <1>3, <1>4, <1>5, <1>6, <1>7 DEF EncInv

LEMMA EncStep == EncInv /\ [Next]_encVars => EncInv'
<1> SUFFICES ASSUME EncInv, [Next]_encVars PROVE EncInv'
  OBVIOUS
<1>1. CASE main
  BY <1>1, MainKeeps
<1>2. CASE generateStringsFile
  BY <1>2, GenerateKeeps
<1>3. CASE loadStringsIntoQueue
  BY <1>3, LoadKeeps
<1>4. CASE processInChunks
  BY <1>4, ChunksKeep
<1>5. CASE freeQueue
  BY <1>5, FreeKeeps
<1>6. CASE Return
  BY <1>6, ExitKeeps DEF Return
<1>7. CASE Child \/ ChildKilled
  BY <1>7, ChildSteps, ChildKeeps
<1>8. CASE UNCHANGED encVars
  <2>1. UNCHANGED <<files, terminal, pc, loop, rest>>
    BY <1>8 DEF encVars
  <2>2. Begun' = Begun
    BY <2>1 DEF Begun, loop
  <2> QED BY <2>1, <2>2 DEF files, terminal, loop, rest, EncInv, FilesTyped, TerminalTyped, PlaceTyped,
                            Stages, Room, ChildQuiet
<1> QED BY <1>1, <1>2, <1>3, <1>4, <1>5, <1>6, <1>7, <1>8 DEF Next, Parent

\* The inductive invariant: types, what the queue of strings holds, what is where in
\* each stage of a run, room for every chunk number, and a child with an empty buffer.
THEOREM EncInvariant == Spec => []EncInv
<1> QED BY EncInit, EncStep, PTL DEF Spec

\* Every variable has its type: in particular the chunk number never exceeds the
\* number of nodes on the heap, and a child is there exactly while the parent waits for it.
THEOREM EncTypeCorrect == Spec => []TypeOK
<1> QED BY EncInvariant, EncTypes, PTL

\* What the parent has printed but not yet written when it forks never gets into an
\* output file, whatever fails in the child and whenever it is killed.
THEOREM OutputsHoldNoLog == Spec => []NoLogInOutputs
<1> QED BY EncInvariant, EncTypes, PTL

-----------------------------------------------------------------------------
(* The output files.                                                       *)

\* Whether the output file of chunk i is the chunk enciphered.
Enciphered(i) == <<"out", i>> \notin spoiled => Decipher(out[i]) = chunk[i]

OutInv ==
    /\ \A i \in 0 .. chunkIndex - 1 : Enciphered(i)
    /\ child.at = "dead" => Enciphered(chunkIndex)

\* What a step of the parent leaves alone: the files of the chunks before this one.
Behind ==
    /\ out' = out /\ chunkIndex' = chunkIndex /\ spoiled \subseteq spoiled'
    /\ child'.at # "dead"
    /\ \A i \in 0 .. chunkIndex - 1 : chunk'[i] = chunk[i]

LEMMA ParentBehind ==
    ASSUME EncInv, Parent
    PROVE  Behind \/ wait
<1> USE DEF files, terminal, loop, rest
<1>1. /\ chunk \in [Chunks -> Text \cup {NoFile}]
      /\ \A i \in 0 .. chunkIndex - 1 : i \in Chunks /\ i # chunkIndex
      /\ child.at = "none" \/ pc = "wait"
  BY EncNumbers DEF EncInv, FilesTyped, PlaceTyped, Chunks
<1>2. ASSUME pc # "wait", UNCHANGED <<chunk, out, chunkIndex, spoiled, child>>
      PROVE  Behind
  BY <1>1, <1>2 DEF Behind
<1>3. ASSUME pc # "wait", NEW st, Exit(st)
      PROVE  Behind
  BY <1>2, <1>3 DEF Exit
<1>4. CASE generateStringsFile
  BY <1>2, <1>3, <1>4 DEF generateStringsFile, GenerateOpen, GenerateString, GenerateEnd
<1>5. CASE loadStringsIntoQueue
  BY <1>2, <1>3, <1>5 DEF loadStringsIntoQueue, LoadOpen, LoadLine, LoadEnd
<1>6. CASE freeQueue
  BY <1>2, <1>6 DEF freeQueue
<1>7. CASE Return
  BY <1>3, <1>7 DEF Return
<1>8. ASSUME pc # "wait", UNCHANGED <<out, chunkIndex, child>>, spoiled \subseteq spoiled',
             NEW t, chunk' = [chunk EXCEPT ![chunkIndex] = t]
      PROVE  Behind
  BY <1>1, <1>8 DEF Behind
<1>9. CASE NextChunk
  <2>1. CASE ChunkOpenFails
    BY <1>1, <1>9, <2>1 DEF Behind, ChunkOpenFails, NextChunk
  <2>2. CASE ~ ChunkOpenFails
    BY <1>2, <1>8, <1>9, <2>2 DEF NextChunk
  <2> QED BY <2>1, <2>2
<1>10. CASE WriteString
  BY <1>8, <1>10 DEF WriteString
<1>11. CASE WriteClose
  <2>1. PICK text : /\ chunk' = [chunk EXCEPT ![chunkIndex] = text]
                    /\ spoiled' = IF text = chunk[chunkIndex] THEN spoiled
                                  ELSE spoiled \cup {<<"chunk", chunkIndex>>}
    BY <1>11 DEF WriteClose
  <2> QED BY <1>8, <1>11, <2>1 DEF WriteClose
<1>12. CASE fork
  <2>1. CASE child' = [at |-> "reopen", pending |-> pending]
    BY <1>1, <1>12, <2>1 DEF Behind, fork, Exit
  <2>2. CASE child' # [at |-> "reopen", pending |-> pending]
    BY <1>3, <1>12, <2>2 DEF fork
  <2> QED BY <2>1, <2>2
<1> QED BY <1>4, <1>5, <1>6, <1>7, <1>9, <1>10, <1>11, <1>12 DEF Parent, processInChunks

LEMMA OutStep == EncInv /\ OutInv /\ [Next]_encVars => OutInv'
<1> SUFFICES ASSUME EncInv, OutInv, [Next]_encVars PROVE OutInv'
  OBVIOUS
<1>1. CASE Behind
  BY <1>1, EncNumbers DEF OutInv, Behind, Enciphered
<1>2. CASE main
  <2>1. chunkIndex' = 0 /\ child' = child /\ child.at = "none"
    BY <1>2 DEF main, EncInv, PlaceTyped
  <2> QED BY <2>1 DEF OutInv
<1>3. CASE wait
  <2>1. /\ chunkIndex' = chunkIndex + 1 /\ child.at = "dead" /\ child'.at = "none"
        /\ UNCHANGED <<files, spoiled>>
    BY <1>3 DEF wait, EncInv, PlaceTyped
  <2>2. \A i \in 0 .. chunkIndex : Enciphered(i)
    BY <2>1, EncNumbers DEF OutInv
  <2> QED BY <2>1, <2>2, EncNumbers DEF OutInv, Enciphered, files
<1>4. CASE ChildStep
  <2>1. /\ out \in [Chunks -> Text \cup {NoFile}] /\ chunkIndex \in Chunks
        /\ \A i \in 0 .. chunkIndex - 1 : i \in Chunks /\ i # chunkIndex
    BY EncNumbers DEF EncInv, FilesTyped, PlaceTyped, Chunks
  <2>2. /\ chunk' = chunk /\ chunkIndex' = chunkIndex /\ spoiled \subseteq spoiled'
        /\ \A i \in 0 .. chunkIndex - 1 : out'[i] = out[i]
    BY <1>4, <2>1 DEF ChildStep, loop
  <2>3. ASSUME child'.at = "dead", <<"out", chunkIndex>> \notin spoiled'
        PROVE  Decipher(out'[chunkIndex]) = chunk[chunkIndex]
    BY <1>4, <2>3, CipherInverts DEF ChildStep
  <2>4. \A i \in 0 .. chunkIndex - 1 : Enciphered(i)'
    BY <2>2 DEF OutInv, Enciphered
  <2> QED BY <2>2, <2>3, <2>4 DEF OutInv, Enciphered
<1>5. CASE UNCHANGED encVars
  BY <1>5 DEF encVars, files, loop, rest, OutInv, Enciphered
<1> QED BY <1>1, <1>2, <1>3, <1>4, <1>5, ParentBehind, ChildSteps DEF Next

\* The output file of every chunk whose child did not fail deciphers to the chunk file,
\* whatever an earlier run or a failed child has left in the directory.
THEOREM OutputsAreEnciphered == Spec => []OutputsDecipher
<1>1. Init => OutInv
  BY DEF Init, OutInv
<1>2. OutInv => OutputsDecipher
  BY DEF OutInv, OutputsDecipher, Enciphered
<1> QED BY <1>1, <1>2, EncInvariant, OutStep, PTL DEF Spec

-----------------------------------------------------------------------------
(* The chunk files are filled up.                                          *)

\* One string more is one line more.
LEMMA LinesCounted ==
    ASSUME NEW t \in Text, NEW str \in Line
    PROVE  /\ LineCount(t) \in Nat /\ LineCount(<<>>) = 0
           /\ LineCount(t \o str \o <<NL>>) = LineCount(t) + 1
<1> DEFINE u == t \o str \o <<NL>>
           S == {k \in 1 .. Len(t) : t[k] = NL}
           n == Len(t) + Len(str) + 1
<1>1. /\ Len(t) \in Nat /\ Len(str) \in Nat
      /\ \A i \in 1 .. Len(str) : str[i] # NL
      /\ t \in Seq(Int) /\ str \in Seq(Int)
  BY LineTexts, TextInts, LenProperties
<1>2. Len(u) = n /\ u[n] = NL
  BY <1>1 DEF NL
<1>3. \A k \in 1 .. Len(t) : u[k] = t[k]
  BY <1>1 DEF NL
<1>4. \A k \in Len(t) + 1 .. Len(t) + Len(str) : u[k] # NL
  <2> TAKE k \in Len(t) + 1 .. Len(t) + Len(str)
  <2>1. k - Len(t) \in 1 .. Len(str)
    BY <1>1
  <2>2. u[k] = str[k - Len(t)]
    BY <1>1, <2>1 DEF NL
  <2> QED BY <1>1, <2>1, <2>2
<1> HIDE DEF u
<1>5. {k \in 1 .. Len(u) : u[k] = NL} = S \cup {n}
  <2>1. ASSUME NEW k \in 1 .. n
        PROVE  u[k] = NL <=> k \in S \/ k = n
    <3>1. CASE k \in 1 .. Len(t)
      BY <1>1, <1>3, <3>1
    <3>2. CASE k \in Len(t) + 1 .. Len(t) + Len(str)
      BY <1>1, <1>4, <3>2
    <3>3. CASE k = n
      BY <1>2, <3>3
    <3> QED BY <1>1, <3>1, <3>2, <3>3, SMTT(60)
  <2>2. \A k \in S \cup {n} : k \in 1 .. n
    BY <1>1
  <2> QED BY <1>2, <2>1, <2>2
<1>6. IsFiniteSet(S) /\ n \notin S
  <2>1. IsFiniteSet(1 .. Len(t)) /\ S \subseteq 1 .. Len(t)
    BY <1>1, FS_Interval
  <2> QED BY <1>1, <2>1, FS_Subset
<1>7. Cardinality(S) \in Nat /\ Cardinality(S \cup {n}) = Cardinality(S) + 1
  BY <1>6, FS_AddElement, FS_CardinalityType
<1>8. LineCount(<<>>) = 0
  <2> DEFINE none == <<>>
  <2>1. Len(none) = 0
    OBVIOUS
  <2> HIDE DEF none
  <2>2. {k \in 1 .. Len(none) : none[k] = NL} = {}
    BY <2>1
  <2>3. LineCount(none) = 0
    BY <2>2, FS_EmptySet DEF LineCount
  <2> QED BY <2>3 DEF none
<1>9. LineCount(t) = Cardinality(S) /\ LineCount(u) = Cardinality(S \cup {n})
  BY <1>5 DEF LineCount
<1> QED BY <1>7, <1>8, <1>9 DEF u

\* Chunk i was closed as the program wrote it.
Whole(i) == <<"chunk", i>> \notin spoiled

\* The chunk under way counts its lines in written.  It is closed with at least one line,
\* and with CHUNK_SIZE lines if there is anything left for another one.
Counted ==
    /\ pc = "write" => LineCount(chunk[chunkIndex]) = written /\ written <= CHUNK_SIZE
    /\ pc \in {"fork", "wait"} /\ Whole(chunkIndex) =>
          /\ LineCount(chunk[chunkIndex]) \in 1 .. CHUNK_SIZE
          /\ q.size > 0 => LineCount(chunk[chunkIndex]) = CHUNK_SIZE

\* The chunk before this one is full when there is something to write into this one.
PreviousFull ==
    /\ chunkIndex > 0 /\ Whole(chunkIndex - 1)
    /\ pc \in {"write", "fork", "wait"} \/ (pc = "loop" /\ q.size > 0)
    => LineCount(chunk[chunkIndex - 1]) = CHUNK_SIZE

FullInv == ChunksAreFull /\ Counted /\ PreviousFull

\* The chunk files before this one.
LEMMA ChunkFiles ==
    ASSUME EncInv
    PROVE  /\ chunk \in [Chunks -> Text \cup {NoFile}] /\ chunkIndex \in Chunks
           /\ \A i \in 0 .. chunkIndex - 1 : chunk[i] \in Text /\ i \in Chunks /\ i # chunkIndex
<1>1. \A i \in 0 .. chunkIndex - 1 : chunk[i] \in Text
  BY EncNumbers DEF EncInv, Stages, Begun
<1> QED BY <1>1, EncNumbers DEF EncInv, FilesTyped, PlaceTyped, Chunks

LEMMA FullStep == EncInv /\ FullInv /\ [Next]_encVars => FullInv'
<1> SUFFICES ASSUME EncInv, FullInv, [Next]_encVars PROVE FullInv'
  OBVIOUS
<1> USE DEF files, terminal, loop, rest
<1> DEFINE Ahead == pc \in {"write", "fork", "wait"} \/ (pc = "loop" /\ q.size > 0)
<1>1. ASSUME Behind PROVE ChunksAreFull'
  BY <1>1 DEF Behind, FullInv, ChunksAreFull
<1>2. ASSUME Behind, Ahead' /\ chunkIndex > 0 => Ahead PROVE PreviousFull'
  <2>1. chunkIndex > 0 => chunkIndex - 1 \in 0 .. chunkIndex - 1
    BY EncNumbers
  <2> QED BY <1>2, <2>1 DEF Behind, FullInv, PreviousFull, Whole
<1>3. ASSUME Behind, pc' \notin {"write", "fork", "wait"}, pc' = "loop" => chunkIndex = 0
      PROVE  FullInv'
  <2>1. Counted'
    BY <1>3 DEF Counted
  <2>2. PreviousFull'
    <3>1. Ahead' => chunkIndex = 0
      BY <1>3
    <3> QED BY <1>2, <1>3, <3>1, EncNumbers
  <2> QED BY <1>1, <1>3, <2>1, <2>2 DEF FullInv
<1>4. ASSUME Parent, pc # "wait" PROVE Behind
  BY <1>4, ParentBehind DEF wait
<1>5. CASE main
  <2>1. chunkIndex' = 0 /\ pc' \in {"generate", "load", "shell"}
    BY <1>5 DEF main
  <2> QED BY <2>1 DEF FullInv, ChunksAreFull, Counted, PreviousFull
<1>6. CASE generateStringsFile \/ loadStringsIntoQueue \/ freeQueue \/ Return
  <2>1. /\ pc \notin {"wait", "loop"} /\ pc' \notin {"write", "fork", "wait"}
        /\ pc' = "loop" => pc = "lines"
    BY <1>6 DEF generateStringsFile, GenerateOpen, GenerateString, GenerateEnd, loadStringsIntoQueue,
                LoadOpen, LoadLine, LoadEnd, freeQueue, Return, Exit
  <2>2. pc' = "loop" => chunkIndex = 0
    BY <2>1 DEF EncInv, Stages
  <2>3. Behind
    BY <1>4, <1>6, <2>1 DEF Parent
  <2> QED BY <1>3, <2>1, <2>2, <2>3
<1>7. CASE NextChunk
  <2>1. pc = "loop" /\ Behind
    BY <1>4, <1>7 DEF NextChunk, Parent, processInChunks
  <2>2. CASE pc' = "free"
    BY <1>3, <2>1, <2>2
  <2>3. CASE pc' # "free"
    <3>1. /\ ~ isEmptyQueue(q) /\ chunk' = [chunk EXCEPT ![chunkIndex] = <<>>] /\ written' = 0
          /\ pc' = "write" /\ UNCHANGED <<strings, out, terminal, unread, q, chunkIndex, rest>>
      BY <1>7, <2>3 DEF NextChunk, EndLoop, ChunkOpenFails
    <3>2. Ahead /\ chunk'[chunkIndex] = <<>>
      BY <2>1, <3>1, EncNumbers, ChunkFiles DEF isEmptyQueue
    <3>3. LineCount(<<>>) = 0
      <4>1. <<>> \in Text /\ <<>> \in Line
        BY DEF Text, Line
      <4> QED BY <4>1, LinesCounted
    <3>4. Counted'
      BY <3>1, <3>2, <3>3, EncNumbers DEF Counted
    <3> QED BY <1>1, <1>2, <2>1, <3>2, <3>4 DEF FullInv
  <2> QED BY <2>2, <2>3
<1>8. CASE WriteString
  <2>1. /\ pc = "write" /\ pc' = "write" /\ q.size > 0 /\ ~ (written >= CHUNK_SIZE)
        /\ chunk' = [chunk EXCEPT ![chunkIndex] = chunk[chunkIndex] \o DequeuedString(q) \o <<NL>>]
        /\ written' = written + 1 /\ chunkIndex' = chunkIndex
    BY <1>8, EncNumbers DEF WriteString, isEmptyQueue, ChunkFull
  <2>2. chunk[chunkIndex] \in Text /\ DequeuedString(q) \in Line
    <3>1. <<>> \in Seq(Int) /\ QueueInv(q)
      BY DEF EncInv
    <3>2. chunk[chunkIndex] \in Text
      BY <2>1, EncNumbers DEF EncInv, Stages, Begun
    <3> QED BY <2>1, <3>1, <3>2, Dequeued
  <2>3. LineCount(chunk'[chunkIndex]) = written + 1
    BY <2>1, <2>2, LinesCounted, ChunkFiles DEF FullInv, Counted
  <2>4. Counted'
    BY <2>1, <2>3, EncNumbers DEF Counted
  <2>5. Behind
    BY <1>4, <1>8, <2>1 DEF Parent, processInChunks
  <2> QED BY <1>1, <1>2, <2>1, <2>4, <2>5 DEF FullInv
<1>9. CASE WriteClose
  <2>1. PICK text \in Stored(chunk[chunkIndex]) :
          /\ chunk' = [chunk EXCEPT ![chunkIndex] = text]
          /\ spoiled' = IF text = chunk[chunkIndex] THEN spoiled
                        ELSE spoiled \cup {<<"chunk", chunkIndex>>}
    BY <1>9 DEF WriteClose
  <2>2. /\ pc = "write" /\ pc' = "fork" /\ (q.size = 0 \/ written >= CHUNK_SIZE)
        /\ UNCHANGED <<q, chunkIndex>>
    BY <1>9 DEF WriteClose, isEmptyQueue, ChunkFull
  <2>3. written > 0 /\ written <= CHUNK_SIZE /\ LineCount(chunk[chunkIndex]) = written
    BY <2>2, EncNumbers DEF EncInv, Stages, FullInv, Counted
  <2>4. <<"chunk", chunkIndex>> \notin spoiled' => chunk'[chunkIndex] = chunk[chunkIndex]
    BY <2>1, ChunkFiles
  <2>5. Counted'
    BY <2>2, <2>3, <2>4, EncNumbers DEF Counted, Whole
  <2>6. Behind
    BY <1>4, <1>9, <2>2 DEF Parent, processInChunks
  <2> QED BY <1>1, <1>2, <2>2, <2>5, <2>6 DEF FullInv
<1>10. CASE fork
  <2>1. pc = "fork" /\ Behind
    BY <1>4, <1>10 DEF fork, Parent, processInChunks
  <2>2. CASE pc' = "shell"
    BY <1>3, <2>1, <2>2
  <2>3. CASE pc' # "shell"
    <3>1. pc' = "wait" /\ UNCHANGED <<files, loop, spoiled>>
      BY <1>10, <2>3 DEF fork, Exit
    <3>2. Counted'
      BY <2>1, <3>1 DEF FullInv, Counted, Whole
    <3>3. PreviousFull'
      BY <1>2, <2>1
    <3> QED BY <1>1, <2>1, <3>2, <3>3 DEF FullInv
  <2> QED BY <2>2, <2>3
<1>11. CASE wait
  <2>1. /\ pc = "wait" /\ pc' = "loop" /\ chunkIndex' = chunkIndex + 1
        /\ UNCHANGED <<chunk, q, spoiled>>
    BY <1>11 DEF wait
  <2>2. Counted'
    BY <2>1 DEF Counted
  <2>3. PreviousFull'
    <3>1. (chunkIndex + 1) - 1 = chunkIndex
      BY EncNumbers
    <3> QED BY <2>1, <3>1 DEF FullInv, Counted, PreviousFull, Whole
  <2>4. ChunksAreFull'
    <3> SUFFICES ASSUME NEW i \in 0 .. chunkIndex, <<"chunk", i>> \notin spoiled
                 PROVE  /\ LineCount(chunk[i]) \in 1 .. CHUNK_SIZE
                        /\ i < chunkIndex => LineCount(chunk[i]) = CHUNK_SIZE
      BY <2>1, EncNumbers DEF ChunksAreFull
    <3>1. CASE i = chunkIndex
      BY <2>1, <3>1, EncNumbers DEF FullInv, Counted, Whole
    <3>2. CASE i = chunkIndex - 1
      <4>1. chunkIndex > 0 /\ Whole(chunkIndex - 1)
        BY <3>2, EncNumbers DEF Whole
      <4>2. LineCount(chunk[chunkIndex - 1]) = CHUNK_SIZE
        BY <2>1, <4>1 DEF FullInv, PreviousFull
      <4> QED BY <3>2, <4>2, EncNumbers
    <3>3. CASE i \in 0 .. chunkIndex - 2
      BY <3>3, EncNumbers DEF FullInv, ChunksAreFull
    <3> QED BY <3>1, <3>2, <3>3, EncNumbers
  <2> QED BY <2>2, <2>3, <2>4 DEF FullInv
<1>12. CASE ChildStep \/ UNCHANGED encVars
  <2>1. /\ UNCHANGED <<chunk, pc, loop>>
        /\ \A i : <<"chunk", i>> \in spoiled <=> <<"chunk", i>> \in spoiled'
    BY <1>12 DEF ChildStep, encVars
  <2> QED BY <2>1 DEF FullInv, ChunksAreFull, Counted, PreviousFull, Whole
<1> QED BY <1>5, <1>6, <1>7, <1>8, <1>9, <1>10, <1>11, <1>12, ChildSteps DEF Next, Parent, processInChunks

\* Every chunk file that was written without a fault has CHUNK_SIZE lines, except that
\* the last one may have fewer and has at least one.
THEOREM ChunksFilled == Spec => []ChunksAreFull
<1>1. Init => FullInv
  BY DEF Init, FullInv, ChunksAreFull, Counted, PreviousFull
<1>2. FullInv => ChunksAreFull
  BY DEF FullInv
<1> QED BY <1>1, <1>2, EncInvariant, FullStep, PTL DEF Spec

-----------------------------------------------------------------------------
(* Where the text of strings.txt is.                                       *)

\* a and then b; a name of its own keeps the provers from looking into it.
Cat(a, b) == a \o b

LEMMA CatRules ==
    /\ \A a, b \in Seq(Int) : Cat(a, b) \in Seq(Int)
    /\ \A a, b, c \in Seq(Int) : Cat(Cat(a, b), c) = Cat(a, Cat(b, c))
    /\ \A a \in Seq(Int) : Cat(<<>>, a) = a /\ Cat(a, <<>>) = a
<1>1. ASSUME NEW a \in Seq(Int), NEW b \in Seq(Int) PROVE Cat(a, b) \in Seq(Int)
  BY DEF Cat
<1>2. ASSUME NEW a \in Seq(Int), NEW b \in Seq(Int), NEW c \in Seq(Int)
      PROVE  Cat(Cat(a, b), c) = Cat(a, Cat(b, c))
  BY ConcatAssociative DEF Cat
<1>3. ASSUME NEW a \in Seq(Int) PROVE Cat(<<>>, a) = a /\ Cat(a, <<>>) = a
  BY DEF Cat
<1> QED BY <1>1, <1>2, <1>3

\* What may stand behind a string of the queue.
Ends == {<<>>, <<NL>>}

\* The chunk files begun, the queue with the same text behind each of its strings, and
\* what is not read yet.
Content(end) == Cat(Joined(chunk, Begun), Cat(QueueText(q, end), unread))

Working == {"lines", "loop", "write", "fork", "wait"}

AllWhole == \A i \in Chunks : Whole(i)

\* What the pieces are.
LEMMA ContentTyped ==
    ASSUME EncInv, NEW end \in Ends
    PROVE  /\ end \in Seq(Int) /\ Begun \in Nat /\ Joinable(chunk, Begun)
           /\ Joined(chunk, Begun) \in Seq(Int) /\ QueueText(q, end) \in Seq(Int) /\ unread \in Seq(Int)
           /\ Content(end) \in Seq(Int)
<1>1. end \in Seq(Int)
  <2>1. <<>> \in Seq(Int) /\ <<10>> \in Seq(Int)
    OBVIOUS
  <2> QED BY <2>1, Zenon DEF Ends, NL
<1>2. Begun \in Nat
  BY EncNumbers DEF Begun
<1>3. Joinable(chunk, Begun)
  BY TextInts DEF EncInv, Stages, Joinable
<1>4. Joined(chunk, Begun) \in Seq(Int)
  <2>1. PICK j : Joins(chunk, Begun, j) /\ Joined(chunk, Begun) = j[Begun]
    BY <1>2, <1>3, JoinedJoins
  <2> QED BY <1>2, <2>1 DEF Joins
<1>5. QueueText(q, end) \in Seq(Int)
  BY <1>1, EmptyQueueText DEF EncInv
<1>6. unread \in Seq(Int)
  BY TextInts DEF EncInv, PlaceTyped
<1> QED BY <1>1, <1>2, <1>3, <1>4, <1>5, <1>6, CatRules DEF Content

\* A step that leaves the chunk files begun, the queue and the reading alone.
LEMMA ContentStays ==
    ASSUME EncInv, NEW end \in Ends, q' = q, unread' = unread, Begun' = Begun,
           \A i \in 0 .. Begun - 1 : chunk'[i] = chunk[i]
    PROVE  Content(end)' = Content(end)
<1>1. Joined(chunk', Begun) = Joined(chunk, Begun)
  BY ContentTyped, JoinedSame
<1> QED BY <1>1 DEF Content

\* A chunk file is begun: it is empty.
LEMMA ContentBegun ==
    ASSUME EncInv, NEW end \in Ends, q' = q, unread' = unread, Begun = chunkIndex,
           Begun' = chunkIndex + 1, chunk' = [chunk EXCEPT ![chunkIndex] = <<>>]
    PROVE  Content(end)' = Content(end)
<1>1. /\ chunkIndex \in Nat /\ chunk'[chunkIndex] = <<>>
      /\ \A i \in 0 .. chunkIndex - 1 : chunk'[i] = chunk[i] /\ chunk[i] \in Seq(Int)
  BY ChunkFiles, EncNumbers, TextInts
<1>2. Joined(chunk', chunkIndex) = Joined(chunk, chunkIndex) /\ Joined(chunk, chunkIndex) \in Seq(Int)
  BY <1>1, ContentTyped, JoinedSame
<1>3. Joinable(chunk', chunkIndex + 1) /\ Part(chunk'[chunkIndex]) = <<>>
  <2>1. <<>> \in Seq(Int)
    OBVIOUS
  <2>2. \A i \in 0 .. (chunkIndex + 1) - 1 : chunk'[i] \in Seq(Int)
    <3> TAKE i \in 0 .. (chunkIndex + 1) - 1
    <3>1. i \in 0 .. chunkIndex - 1 \/ i = chunkIndex
      BY <1>1
    <3> QED BY <1>1, <2>1, <3>1
  <2> QED BY <1>1, <2>2 DEF Joinable, Part
<1>4. Joined(chunk', chunkIndex + 1) = Joined(chunk', chunkIndex) \o <<>>
  BY <1>1, <1>3, JoinedNext
<1>5. Joined(chunk', chunkIndex + 1) = Joined(chunk, chunkIndex)
  BY <1>2, <1>4
<1> QED BY <1>5 DEF Content

\* strings.txt is opened: all of it is to be read.
LEMMA ContentOpened ==
    ASSUME EncInv, NEW end \in Ends, strings \in Text, q' = q, q.size = 0, unread' = strings,
           Begun' = 0
    PROVE  Content(end)' = strings
<1>1. QueueText(q, end) = <<>>
  BY ContentTyped, EmptyQueueText DEF EncInv
<1>2. Joined(chunk', 0) = <<>>
  <2>1. PICK j : Joins(chunk', 0, j) /\ Joined(chunk', 0) = j[0]
    BY JoinedJoins DEF Joinable
  <2> QED BY <2>1 DEF Joins
<1>3. Cat(<<>>, Cat(<<>>, strings)) = strings
  BY TextInts, CatRules
<1> QED BY <1>1, <1>2, <1>3 DEF Content

\* A line is read.
LEMMA ContentRead ==
    ASSUME EncInv, NEW end \in Ends, LoadLine, pc' = "lines"
    PROVE  \E front, back \in Seq(Int) :
              /\ Content(end) = Cat(front, Cat(fgets(unread, LINE_MAX), back))
              /\ Content(end)' = Cat(front, Cat(Cat(Stripped(fgets(unread, LINE_MAX)), end), back))
<1> DEFINE taken == fgets(unread, LINE_MAX)
           str   == Stripped(taken)
           text  == QueueText(q, end)
           begun == Joined(chunk, Begun)
           back  == Rest(unread, LINE_MAX)
           front == Cat(begun, text)
<1>1. /\ unread # <<>> /\ q.allocated # Nodes /\ q' = enqueue(q, str) /\ unread' = back
      /\ UNCHANGED <<chunk, Begun>>
  BY DEF LoadLine, Exit, Begun, files
<1>2. taken \in Text /\ back \in Text /\ Cat(taken, back) = unread /\ str \in Line
  BY <1>1, LineTaken DEF EncInv, PlaceTyped, Cat
<1>3. taken \in Seq(Int) /\ back \in Seq(Int) /\ str \in Seq(Int)
  BY <1>2, TextInts, LineTexts
<1>4. begun \in Seq(Int) /\ text \in Seq(Int) /\ end \in Seq(Int)
  BY ContentTyped
<1>5. QueueText(q', end) = Cat(text, Cat(str, end))
  BY <1>1, <1>2, <1>4, Enqueued DEF EncInv, Cat
<1>6. Content(end) = Cat(begun, Cat(text, Cat(taken, back)))
  BY <1>2 DEF Content
<1>7. Content(end)' = Cat(begun, Cat(Cat(text, Cat(str, end)), back))
  BY <1>1, <1>5 DEF Content
<1> HIDE DEF taken, str, text, begun, back
<1>8. front \in Seq(Int) /\ Content(end) = Cat(front, Cat(taken, back))
  BY <1>3, <1>4, <1>6, CatRules
<1>9. Content(end)' = Cat(front, Cat(Cat(str, end), back))
  BY <1>3, <1>4, <1>7, CatRules
<1> QED BY <1>3, <1>8, <1>9 DEF taken, str

\* A string goes from the queue into the chunk file under way.
LEMMA ContentWritten ==
    ASSUME EncInv, NEW end \in Ends, WriteString
    PROVE  \E front, back \in Seq(Int), str \in Line :
              /\ Content(end) = Cat(front, Cat(Cat(str, end), back))
              /\ Content(end)' = Cat(front, Cat(Cat(str, <<NL>>), back))
<1> DEFINE str   == DequeuedString(q)
           nl    == <<NL>>
           this  == chunk[chunkIndex]
           more  == Cat(Cat(this, str), nl)
           begun == Joined(chunk, chunkIndex)
           text  == QueueText(dequeue(q), end)
           front == Cat(begun, this)
           back  == Cat(text, unread)
<1>1. /\ q.size > 0 /\ Begun = chunkIndex + 1 /\ Begun' = Begun /\ this \in Text
      /\ q' = dequeue(q) /\ unread' = unread /\ chunk' = [chunk EXCEPT ![chunkIndex] = more]
  BY EncNumbers DEF WriteString, isEmptyQueue, Begun, EncInv, Stages, Cat
<1>2. end \in Seq(Int) /\ unread \in Seq(Int)
  BY ContentTyped
<1>3. QueueInv(dequeue(q)) /\ str \in Line /\ QueueText(q, end) = Cat(Cat(str, end), text)
  BY <1>1, <1>2, Dequeued DEF EncInv, Cat
<1>4. str \in Seq(Int) /\ this \in Seq(Int) /\ nl \in Seq(Int) /\ text \in Seq(Int)
  <2>1. str \in Seq(Int) /\ this \in Seq(Int)
    BY <1>1, <1>3, TextInts, LineTexts
  <2>2. text \in Seq(Int)
    BY <1>2, <1>3, EmptyQueueText
  <2>3. nl \in Seq(Int)
    BY DEF NL
  <2> QED BY <2>1, <2>2, <2>3
<1>5. /\ chunkIndex \in Nat
      /\ \A i \in 0 .. chunkIndex - 1 : chunk[i] \in Seq(Int) /\ i \in Chunks /\ i # chunkIndex
      /\ chunk \in [Chunks -> Text \cup {NoFile}] /\ chunkIndex \in Chunks
  BY ChunkFiles, EncNumbers, TextInts
<1>6. chunk[chunkIndex] = this /\ NoFile \notin Seq(Int)
  BY EncryptionAssumption
<1> HIDE DEF str, nl, this, text
<1>7. more \in Seq(Int) /\ front \in Seq(Int) /\ back \in Seq(Int) /\ begun \in Seq(Int)
  <2>1. Joinable(chunk, chunkIndex)
    BY <1>5 DEF Joinable
  <2>2. begun \in Seq(Int)
    <3>1. PICK j : Joins(chunk, chunkIndex, j) /\ Joined(chunk, chunkIndex) = j[chunkIndex]
      BY <1>5, <2>1, JoinedJoins
    <3> QED BY <1>5, <3>1 DEF Joins
  <2> HIDE DEF begun
  <2> QED BY <1>2, <1>4, <2>2, CatRules
<1> HIDE DEF more
<1>8. /\ chunk'[chunkIndex] = more
      /\ \A i \in 0 .. chunkIndex - 1 : chunk'[i] = chunk[i] /\ chunk[i] \in Seq(Int)
  BY <1>1, <1>5
<1>9. Joined(chunk, chunkIndex + 1) = Cat(begun, this)
  <2>1. \A i \in 0 .. (chunkIndex + 1) - 1 : i \in 0 .. chunkIndex - 1 \/ i = chunkIndex
    BY <1>5
  <2>2. Joinable(chunk, chunkIndex + 1)
    BY <1>4, <1>5, <1>6, <2>1 DEF Joinable
  <2> QED BY <1>4, <1>5, <1>6, <2>2, JoinedNext DEF Part, Cat
<1>10. Joined(chunk', chunkIndex + 1) = Cat(begun, more)
  <2>1. \A i \in 0 .. (chunkIndex + 1) - 1 : i \in 0 .. chunkIndex - 1 \/ i = chunkIndex
    BY <1>5
  <2>2. Joinable(chunk', chunkIndex + 1)
    BY <1>7, <1>8, <2>1 DEF Joinable
  <2>3. Joinable(chunk, chunkIndex)
    BY <1>5 DEF Joinable
  <2>4. Joined(chunk', chunkIndex) = begun
    BY <1>5, <1>8, <2>3, JoinedSame
  <2>5. Part(chunk'[chunkIndex]) = more
    BY <1>6, <1>7, <1>8 DEF Part
  <2> QED BY <1>5, <2>2, <2>4, <2>5, JoinedNext DEF Cat
<1>11. Content(end) = Cat(front, Cat(Cat(Cat(str, end), text), unread))
  BY <1>1, <1>3, <1>9 DEF Content
<1>12. Content(end)' = Cat(Cat(begun, more), back)
  BY <1>1, <1>10 DEF Content, text
<1> HIDE DEF begun
<1>13. Content(end) = Cat(front, Cat(Cat(str, end), back))
  <2>1. Cat(str, end) \in Seq(Int)
    BY <1>2, <1>4, CatRules
  <2>2. Cat(Cat(Cat(str, end), text), unread) = Cat(Cat(str, end), back)
    BY <1>2, <1>4, <2>1, CatRules
  <2> QED BY <1>11, <2>2
<1>14. Content(end)' = Cat(front, Cat(Cat(str, nl), back))
  <2>1. more = Cat(this, Cat(str, nl))
    BY <1>4, CatRules DEF more
  <2>2. Cat(str, nl) \in Seq(Int)
    BY <1>4, CatRules
  <2> HIDE DEF back
  <2> QED BY <1>4, <1>7, <1>12, <2>1, <2>2, CatRules
<1> QED BY <1>3, <1>7, <1>13, <1>14 DEF nl

\* The loop of processInChunks ends early only with a chunk file that was not opened.
FreeEmpty == pc = "free" /\ AllWhole => q.size = 0

Texting == Working \cup {"free"}

\* What a step of "encrypt" does to the text: it opens strings.txt, leaves everything
\* where it is, reads a line or writes a string.
LEMMA TextStep ==
    ASSUME EncInv, FreeEmpty, [Next]_encVars, pc' \in Texting, AllWhole'
    PROVE  /\ strings' = strings /\ AllWhole
           /\ \/ /\ strings \in Text /\ unread' = strings
                 /\ \A end \in Ends : Content(end)' = strings
              \/ pc \in Texting /\ unread' = unread /\ \A end \in Ends : Content(end)' = Content(end)
              \/ pc \in Texting /\ LoadLine /\ pc' = "lines"
              \/ pc \in Texting /\ WriteString
<1> USE DEF files, terminal, loop, rest
<1>1. ASSUME spoiled \subseteq spoiled' PROVE AllWhole
  BY <1>1 DEF AllWhole, Whole
<1>2. ASSUME UNCHANGED <<strings, q, unread>>, spoiled \subseteq spoiled', pc \in Texting, Begun' = Begun,
             \A i \in 0 .. Begun - 1 : chunk'[i] = chunk[i]
      PROVE  /\ strings' = strings /\ AllWhole
             /\ pc \in Texting /\ unread' = unread /\ \A end \in Ends : Content(end)' = Content(end)
  BY <1>1, <1>2, ContentStays
<1>3. pc' # "shell" /\ pc' \notin {"generate", "load", "strings", "end"}
  BY DEF Texting, Working
<1>4. CASE main \/ generateStringsFile \/ Return
  BY <1>3, <1>4 DEF main, generateStringsFile, GenerateOpen, GenerateString, GenerateEnd, Return, Exit
<1>5. CASE LoadOpen
  <2>1. /\ pc = "load" /\ strings # NoFile /\ unread' = strings /\ pc' = "lines"
        /\ UNCHANGED <<files, terminal, q, chunkIndex, written, rest>>
    BY <1>3, <1>5 DEF LoadOpen, Exit
  <2>2. strings \in Text /\ q.size = 0 /\ chunkIndex = 0
    BY <2>1 DEF EncInv, FilesTyped, Stages
  <2>3. Begun' = 0
    BY <2>1, <2>2 DEF Begun
  <2>4. \A end \in Ends : Content(end)' = strings
    BY <2>1, <2>2, <2>3, ContentOpened
  <2> QED BY <1>1, <2>1, <2>2, <2>4
<1>6. CASE LoadLine
  <2>1. pc = "lines" /\ pc' = "lines" /\ UNCHANGED <<strings, spoiled>>
    BY <1>3, <1>6 DEF LoadLine, Exit
  <2> QED BY <1>1, <1>6, <2>1 DEF Texting, Working
<1>7. CASE LoadEnd
  <2>1. pc = "lines" /\ pc' = "loop" /\ UNCHANGED <<files, loop, rest>>
    BY <1>7 DEF LoadEnd
  <2>2. Begun' = Begun
    BY <2>1 DEF Begun
  <2> QED BY <1>2, <2>1, <2>2 DEF Texting, Working
<1>8. CASE NextChunk
  <2>1. pc = "loop" /\ pc \in Texting
    BY <1>8 DEF NextChunk, Texting, Working
  <2>2. CASE pc' = "free"
    <3>1. UNCHANGED <<files, loop>> /\ spoiled \subseteq spoiled'
      BY <1>8, <2>2 DEF NextChunk, EndLoop, ChunkOpenFails
    <3>2. Begun' = Begun
      BY <2>1, <2>2, <3>1 DEF Begun
    <3> QED BY <1>2, <2>1, <3>1, <3>2
  <2>3. CASE pc' # "free"
    <3>1. /\ chunk' = [chunk EXCEPT ![chunkIndex] = <<>>] /\ pc' = "write"
          /\ UNCHANGED <<strings, unread, q, chunkIndex, spoiled>>
      BY <1>8, <2>3 DEF NextChunk, EndLoop, ChunkOpenFails
    <3>2. Begun = chunkIndex /\ Begun' = chunkIndex + 1
      BY <2>1, <3>1, EncNumbers DEF Begun
    <3>3. \A end \in Ends : Content(end)' = Content(end)
      BY <3>1, <3>2, ContentBegun
    <3> QED BY <1>1, <2>1, <3>1, <3>3
  <2> QED BY <2>2, <2>3
<1>9. CASE WriteString
  <2>1. pc = "write" /\ UNCHANGED <<strings, spoiled>>
    BY <1>9 DEF WriteString
  <2> QED BY <1>1, <1>9, <2>1 DEF Texting, Working
<1>10. CASE WriteClose
  <2>1. PICK text \in Stored(chunk[chunkIndex]) :
          /\ chunk' = [chunk EXCEPT ![chunkIndex] = text]
          /\ spoiled' = IF text = chunk[chunkIndex] THEN spoiled
                        ELSE spoiled \cup {<<"chunk", chunkIndex>>}
    BY <1>10 DEF WriteClose
  <2>2. pc = "write" /\ pc' = "fork" /\ UNCHANGED <<strings, loop>>
    BY <1>10 DEF WriteClose
  <2>3. text = chunk[chunkIndex]
    BY <2>1, ChunkFiles DEF AllWhole, Whole
  <2>4. chunk' = chunk /\ spoiled' = spoiled
    BY <2>1, <2>3, ChunkFiles
  <2>5. Begun' = Begun
    BY <2>2 DEF Begun
  <2> QED BY <1>2, <2>2, <2>4, <2>5 DEF Texting, Working
<1>11. CASE fork
  <2>1. pc = "fork" /\ pc' = "wait" /\ UNCHANGED <<files, loop, spoiled>>
    BY <1>3, <1>11 DEF fork, Exit
  <2>2. Begun' = Begun
    BY <2>1 DEF Begun
  <2> QED BY <1>2, <2>1, <2>2 DEF Texting, Working
<1>12. CASE wait
  <2>1. /\ pc = "wait" /\ pc' = "loop" /\ chunkIndex' = chunkIndex + 1
        /\ UNCHANGED <<files, unread, q, spoiled>>
    BY <1>12 DEF wait
  <2>2. Begun' = Begun
    BY <2>1, EncNumbers DEF Begun
  <2> QED BY <1>2, <2>1, <2>2 DEF Texting, Working
<1>13. CASE freeQueue
  <2>1. pc = "free" /\ pc' = "free" /\ ~ isEmptyQueue(q) /\ UNCHANGED spoiled
    BY <1>3, <1>13 DEF freeQueue
  <2>2. q.size = 0
    BY <1>1, <2>1 DEF FreeEmpty
  <2> QED BY <2>1, <2>2 DEF isEmptyQueue
<1>14. CASE ChildStep \/ UNCHANGED encVars
  <2>1. UNCHANGED <<strings, chunk, pc, loop>> /\ spoiled \subseteq spoiled'
    BY <1>14 DEF ChildStep, encVars
  <2>2. Begun' = Begun
    BY <2>1 DEF Begun
  <2> QED BY <1>2, <2>1, <2>2
<1> QED BY <1>4, <1>5, <1>6, <1>7, <1>8, <1>9, <1>10, <1>11, <1>12, <1>13, <1>14, ChildSteps
        DEF Next, Parent, loadStringsIntoQueue, processInChunks

LEMMA FreeStep == EncInv /\ FreeEmpty /\ [Next]_encVars => FreeEmpty'
<1> SUFFICES ASSUME EncInv, FreeEmpty, [Next]_encVars, pc' = "free", AllWhole' PROVE q'.size = 0
  BY DEF FreeEmpty
<1> USE DEF files, terminal, loop, rest
<1>1. CASE NextChunk
  <2>1. CASE ChunkOpenFails
    <3>1. <<"chunk", chunkIndex>> \in spoiled' /\ chunkIndex \in Chunks
      BY <2>1, ChunkFiles DEF ChunkOpenFails
    <3> QED BY <3>1 DEF AllWhole, Whole
  <2>2. CASE ~ ChunkOpenFails
    BY <1>1, <2>2 DEF NextChunk, isEmptyQueue
  <2> QED BY <2>1, <2>2
<1>2. CASE ~ NextChunk
  <2>1. pc = "free" /\ spoiled' = spoiled /\ (q' = q \/ ~ isEmptyQueue(q))
    <3>1. CASE UNCHANGED encVars
      BY <3>1 DEF encVars
    <3>2. CASE main \/ generateStringsFile \/ loadStringsIntoQueue \/ Return
      BY <3>2 DEF main, generateStringsFile, GenerateOpen, GenerateString, GenerateEnd, Return, Exit,
                  loadStringsIntoQueue, LoadOpen, LoadLine, LoadEnd
    <3>3. CASE WriteString \/ WriteClose \/ fork \/ wait
      BY <3>3 DEF WriteString, WriteClose, fork, wait, Exit
    <3>4. CASE freeQueue
      BY <3>4 DEF freeQueue
    <3>5. CASE ChildStep
      BY <3>5 DEF ChildStep
    <3> QED BY <1>2, <3>1, <3>2, <3>3, <3>4, <3>5, ChildSteps DEF Next, Parent, processInChunks
  <2>2. AllWhole
    BY <2>1 DEF AllWhole, Whole
  <2> QED BY <2>1, <2>2 DEF FreeEmpty, isEmptyQueue
<1> QED BY <1>1, <1>2

-----------------------------------------------------------------------------
(* No character is lost.                                                   *)

LEMMA LettersCat ==
    /\ \A a, b \in Seq(Int) : Letters(Cat(a, b)) = Cat(Letters(a), Letters(b))
    /\ \A a \in Seq(Int) : Letters(a) \in Seq(Int) /\ Letters(Cat(a, <<NL>>)) = Letters(a)
<1>1. ASSUME NEW a \in Seq(Int), NEW b \in Seq(Int) PROVE Letters(Cat(a, b)) = Cat(Letters(a), Letters(b))
  BY LettersConcat DEF Cat
<1>2. ASSUME NEW a \in Seq(Int) PROVE Letters(a) \in Seq(Int) /\ Letters(Cat(a, <<NL>>)) = Letters(a)
  <2>1. NL \in Int
    BY DEF NL
  <2>2. Append(a, NL) = Cat(a, <<NL>>)
    BY <2>1, AppendIsConcat DEF Cat
  <2> QED BY <2>1, <2>2, LettersAppend
<1> QED BY <1>1, <1>2

LettersInv == pc \in Texting /\ AllWhole => Letters(Content(<<>>)) = Letters(strings)

\* Texts that differ in newlines between the same texts have the same letters.
LEMMA SameLetters ==
    ASSUME NEW a \in Seq(Int), NEW b \in Seq(Int), NEW s \in Seq(Int), NEW t \in Seq(Int),
           Letters(s) = Letters(t)
    PROVE  Letters(Cat(a, Cat(s, b))) = Letters(Cat(a, Cat(t, b)))
<1>1. Cat(s, b) \in Seq(Int) /\ Cat(t, b) \in Seq(Int)
  BY CatRules
<1> QED BY <1>1, LettersCat

LEMMA LettersStep == EncInv /\ FreeEmpty /\ LettersInv /\ [Next]_encVars => LettersInv'
<1> SUFFICES ASSUME EncInv, FreeEmpty, LettersInv, [Next]_encVars, pc' \in Texting, AllWhole'
             PROVE  Letters(Content(<<>>)') = Letters(strings')
  BY DEF LettersInv
<1> DEFINE none == <<>>
<1>1. none \in Ends /\ none \in Seq(Int)
  BY DEF Ends
<1>2. strings' = strings /\ AllWhole
  BY TextStep
<1>3. CASE Content(none)' = strings
  BY <1>2, <1>3
<1>4. CASE pc \in Texting /\ Content(none)' = Content(none)
  BY <1>2, <1>4 DEF LettersInv
<1>5. CASE pc \in Texting /\ LoadLine /\ pc' = "lines"
  <2> DEFINE taken == fgets(unread, LINE_MAX)
             str   == Stripped(taken)
  <2>1. PICK front, back \in Seq(Int) :
            /\ Content(none) = Cat(front, Cat(taken, back))
            /\ Content(none)' = Cat(front, Cat(Cat(str, none), back))
    <3> HIDE DEF none
    <3> QED BY <1>1, <1>5, ContentRead
  <2>2. str \in Line /\ taken \in Text /\ (taken = str \/ taken = Cat(str, <<NL>>))
    BY <1>5, LineTaken DEF LoadLine, EncInv, PlaceTyped, Cat
  <2>3. str \in Seq(Int) /\ taken \in Seq(Int)
    BY <2>2, LineTexts, TextInts
  <2> HIDE DEF taken, str
  <2>4. Letters(taken) = Letters(str) /\ Cat(str, none) = str
    BY <2>2, <2>3, LettersCat, CatRules
  <2>5. Letters(Cat(front, Cat(taken, back))) = Letters(Cat(front, Cat(str, back)))
    BY <2>3, <2>4, SameLetters
  <2> QED BY <1>2, <1>5, <2>1, <2>4, <2>5 DEF LettersInv
<1>6. CASE pc \in Texting /\ WriteString
  <2>1. PICK front, back \in Seq(Int), str \in Line :
            /\ Content(none) = Cat(front, Cat(Cat(str, none), back))
            /\ Content(none)' = Cat(front, Cat(Cat(str, <<NL>>), back))
    <3> HIDE DEF none
    <3> QED BY <1>1, <1>6, ContentWritten
  <2>2. str \in Seq(Int) /\ <<NL>> \in Seq(Int)
    BY LineTexts DEF NL
  <2>3. Letters(Cat(str, <<NL>>)) = Letters(Cat(str, none)) /\ Cat(str, none) \in Seq(Int)
    BY <2>2, LettersCat, CatRules
  <2>4. Cat(str, <<NL>>) \in Seq(Int)
    BY <2>2, CatRules
  <2> DEFINE s == Cat(str, none)
             t == Cat(str, <<NL>>)
  <2> HIDE DEF s, t
  <2>5. Letters(Cat(front, Cat(s, back))) = Letters(Cat(front, Cat(t, back)))
    BY <2>3, <2>4, SameLetters DEF s, t
  <2> QED BY <1>2, <1>6, <2>1, <2>5 DEF LettersInv, s, t
<1> QED BY <1>1, <1>3, <1>4, <1>5, <1>6, TextStep

\* The queue as NothingLost reads it.
LEMMA LettersLost == EncInv /\ LettersInv => NothingLost
<1> SUFFICES ASSUME EncInv, LettersInv, pc \in Working, \A i \in Chunks : <<"chunk", i>> \notin spoiled
             PROVE  Letters(Joined(chunk, Begun) \o Joined([k \in 0 .. q.size - 1 |-> Strings(q)[k + 1]], q.size)
                                \o unread) = Letters(strings)
  BY DEF NothingLost, Working
<1> DEFINE none == <<>>
           f == QueueParts(q, none)
           g == [k \in 0 .. q.size - 1 |-> Strings(q)[k + 1]]
<1>1. none \in Ends /\ none \in Seq(Int) /\ QueueInv(q)
  BY DEF Ends, EncInv
<1>2. PICK s : ListOf(q, s)
  BY <1>1 DEF QueueInv
<1>3. Strings(q) = [k \in 1 .. q.size |-> q.data[s[k]]]
  BY <1>1, <1>2, StringsIs DEF QueueInv
<1>4. /\ q.size \in Nat /\ Joinable(f, q.size)
      /\ \A k \in 0 .. q.size - 1 : q.data[s[k + 1]] \in Line /\ f[k] = q.data[s[k + 1]] \o none
  <2> HIDE DEF none
  <2> QED BY <1>1, <1>2, PartsOfQueue
<1>5. \A k \in 0 .. q.size - 1 : g[k] = f[k]
  <2> TAKE k \in 0 .. q.size - 1
  <2>1. k + 1 \in 1 .. q.size
    BY <1>4
  <2>2. g[k] = q.data[s[k + 1]]
    BY <1>3, <2>1
  <2>3. q.data[s[k + 1]] \in Seq(Int)
    BY <1>4, LineTexts
  <2>4. Cat(q.data[s[k + 1]], none) = q.data[s[k + 1]]
    BY <2>3, CatRules
  <2> QED BY <1>4, <2>2, <2>4 DEF Cat
<1> HIDE DEF f, g
<1>6. Joined(g, q.size) = QueueText(q, none)
  BY <1>4, <1>5, JoinedSame DEF QueueText, f
<1>7. Joined(chunk, Begun) \in Seq(Int) /\ QueueText(q, none) \in Seq(Int) /\ unread \in Seq(Int)
  <2> HIDE DEF none
  <2> QED BY <1>1, ContentTyped
<1>8. Cat(Cat(Joined(chunk, Begun), Joined(g, q.size)), unread) = Content(none)
  <2> HIDE DEF none
  <2> QED BY <1>6, <1>7, CatRules DEF Content
<1>9. Letters(Content(none)) = Letters(strings)
  BY DEF LettersInv, Texting, AllWhole, Whole
<1> QED BY <1>8, <1>9 DEF Cat, g

\* While "encrypt" works, every character of strings.txt that is not a newline is in
\* exactly one place and in its order: in a chunk file, in the queue or still unread,
\* whatever has failed apart from the writing of a chunk file.
THEOREM NoLetterLost == Spec => []NothingLost
<1>1. Init => FreeEmpty /\ LettersInv
  BY DEF Init, FreeEmpty, LettersInv, Texting, Working
<1> QED BY <1>1, EncInvariant, FreeStep, LettersStep, LettersLost, PTL DEF Spec

-----------------------------------------------------------------------------
(* Lines that fit stay whole.                                              *)

\* Every line ends with a newline and fits the buffer.
Neat(text) == ShortLines(text) /\ (text # <<>> => text[Len(text)] = NL)

NeatInv ==
    pc \in Texting /\ AllWhole /\ Neat(strings) => Content(<<NL>>) = strings /\ Neat(unread)

\* Of such a text fgets takes a line with its newline, and what is left is such a text.
LEMMA NeatRead ==
    ASSUME NEW text \in Text, text # <<>>, Neat(text)
    PROVE  /\ fgets(text, LINE_MAX) = Cat(Stripped(fgets(text, LINE_MAX)), <<NL>>)
           /\ Neat(Rest(text, LINE_MAX))
<1> DEFINE k == PieceLength(text, LINE_MAX)
           n == Len(text)
           left == Rest(text, LINE_MAX)
<1>1. /\ k \in 1 .. n /\ (text[k] = NL \/ k = LINE_MAX \/ k = n)
      /\ \A j \in 1 .. k - 1 : text[j] # NL
  BY PieceEnds
<1>2. n \in Nat /\ LINE_MAX \in Nat \ {0}
  BY EncryptionAssumption DEF Text
<1>3. /\ left \in Text /\ Len(left) = n - k
      /\ \A i \in 1 .. n - k : left[i] = text[k + i]
  <2>1. \A i \in k + 1 .. n : text[i] \in Code
    BY <1>1, <1>2, ElementOfSeq DEF Text
  <2>2. k + 1 \in Int /\ n \in Int /\ left = SubSeq(text, k + 1, n)
    BY <1>1, <1>2 DEF Rest
  <2> HIDE DEF k, n, left
  <2>3. /\ SubSeq(text, k + 1, n) \in Seq(Code)
        /\ Len(SubSeq(text, k + 1, n)) = IF k + 1 <= n THEN n - (k + 1) + 1 ELSE 0
        /\ \A i \in 1 .. n - (k + 1) + 1 : SubSeq(text, k + 1, n)[i] = text[(k + 1) + i - 1]
    BY <2>1, <2>2, SubSeqProperties
  <2>4. \A i \in 1 .. n - k : i \in 1 .. n - (k + 1) + 1 /\ (k + 1) + i - 1 = k + i
    BY <1>1, <1>2
  <2> QED BY <1>1, <1>2, <2>2, <2>3, <2>4 DEF Text
<1> HIDE DEF k, left
<1>4. text[k] = NL
  <2>1. CASE k = n
    BY <2>1 DEF Neat
  <2>2. CASE k = LINE_MAX
    <3>1. 1 \in 1 .. n - LINE_MAX + 1 /\ 1 + LINE_MAX - 1 = k
      BY <1>1, <1>2, <2>2
    <3>2. PICK j \in 1 .. k : text[j] = NL
      BY <3>1 DEF Neat, ShortLines
    <3> QED BY <1>1, <1>2, <3>2
  <2> QED BY <1>1, <2>1, <2>2
<1>5. fgets(text, LINE_MAX) = Cat(Stripped(fgets(text, LINE_MAX)), <<NL>>)
  BY <1>4, LineTaken DEF k, Cat
<1>6. ShortLines(left)
  <2> SUFFICES ASSUME NEW i \in 1 .. (n - k) - LINE_MAX + 1
               PROVE  \E j \in i .. i + LINE_MAX - 1 : left[j] = NL
    BY <1>3 DEF ShortLines
  <2>1. k + i \in 1 .. n - LINE_MAX + 1
    BY <1>1, <1>2
  <2>2. PICK j \in k + i .. (k + i) + LINE_MAX - 1 : text[j] = NL
    BY <2>1 DEF Neat, ShortLines
  <2>3. j - k \in i .. i + LINE_MAX - 1 /\ j - k \in 1 .. n - k /\ k + (j - k) = j
    BY <1>1, <1>2, <2>2
  <2> QED BY <1>3, <2>2, <2>3
<1>7. left # <<>> => left[Len(left)] = NL
  <2> SUFFICES ASSUME left # <<>> PROVE left[Len(left)] = NL
    OBVIOUS
  <2>1. Len(left) # 0
    BY <1>3, EmptySeq DEF Text
  <2>2. n - k \in 1 .. n - k /\ k + (n - k) = n
    BY <1>1, <1>2, <1>3, <2>1
  <2>3. text[n] = NL
    BY DEF Neat
  <2> QED BY <1>3, <2>2, <2>3
<1> QED BY <1>5, <1>6, <1>7 DEF Neat, left

LEMMA NeatStep == EncInv /\ FreeEmpty /\ NeatInv /\ [Next]_encVars => NeatInv'
<1> SUFFICES ASSUME EncInv, FreeEmpty, NeatInv, [Next]_encVars, pc' \in Texting, AllWhole', Neat(strings')
             PROVE  Content(<<NL>>)' = strings' /\ Neat(unread')
  BY DEF NeatInv
<1> DEFINE nl == <<NL>>
<1>1. nl \in Ends
  BY DEF Ends
<1>2. strings' = strings /\ AllWhole
  BY TextStep
<1> HIDE DEF nl
<1>3. pc \in Texting => Content(nl) = strings /\ Neat(unread)
  BY <1>2 DEF NeatInv, nl
<1>4. CASE Content(nl)' = strings /\ unread' = strings
  BY <1>2, <1>4 DEF nl
<1>5. CASE pc \in Texting /\ unread' = unread /\ Content(nl)' = Content(nl)
  BY <1>2, <1>3, <1>5 DEF nl
<1>6. CASE pc \in Texting /\ LoadLine /\ pc' = "lines"
  <2> DEFINE taken == fgets(unread, LINE_MAX)
             str   == Stripped(taken)
  <2>1. PICK front, back \in Seq(Int) :
            /\ Content(nl) = Cat(front, Cat(taken, back))
            /\ Content(nl)' = Cat(front, Cat(Cat(str, nl), back))
    BY <1>1, <1>6, ContentRead
  <2>2. unread \in Text /\ unread # <<>> /\ unread' = Rest(unread, LINE_MAX)
    BY <1>6 DEF LoadLine, Exit, EncInv, PlaceTyped
  <2>3. taken = Cat(str, nl) /\ Neat(unread')
    BY <1>3, <1>6, <2>2, NeatRead DEF nl
  <2> HIDE DEF taken, str
  <2>4. Content(nl)' = strings
    BY <1>3, <1>6, <2>1, <2>3
  <2> QED BY <1>2, <2>3, <2>4 DEF nl
<1>7. CASE pc \in Texting /\ WriteString
  <2>1. PICK front, back \in Seq(Int), str \in Line :
            /\ Content(nl) = Cat(front, Cat(Cat(str, nl), back))
            /\ Content(nl)' = Cat(front, Cat(Cat(str, <<NL>>), back))
    BY <1>1, <1>7, ContentWritten
  <2>2. unread' = unread
    BY <1>7 DEF WriteString
  <2>3. Content(nl)' = Content(nl)
    BY <2>1 DEF nl
  <2> QED BY <1>2, <1>3, <1>7, <2>2, <2>3 DEF nl
<1> QED BY <1>1, <1>4, <1>5, <1>6, <1>7, TextStep

LEMMA NeatWhole == EncInv /\ FreeEmpty /\ NeatInv => LinesStayWhole
<1> SUFFICES ASSUME EncInv, FreeEmpty, NeatInv, pc = "free", spoiled = {}, Neat(strings)
             PROVE  Joined(chunk, chunkIndex) = strings
  BY DEF LinesStayWhole, Neat
<1> DEFINE nl == <<NL>>
<1>1. nl \in Ends
  BY DEF Ends
<1>2. AllWhole /\ pc \in Texting
  BY DEF AllWhole, Whole, Texting
<1>3. Content(nl) = strings /\ q.size = 0 /\ unread = <<>>
  BY <1>2 DEF NeatInv, FreeEmpty, EncInv, Stages
<1> HIDE DEF nl
<1>4. Joined(chunk, Begun) \in Seq(Int) /\ QueueText(q, nl) = <<>>
  BY <1>1, <1>3, ContentTyped, EmptyQueueText DEF EncInv
<1>5. Begun = chunkIndex
  BY EncNumbers DEF Begun
<1>6. Content(nl) = Cat(Joined(chunk, Begun), Cat(<<>>, <<>>))
  BY <1>3, <1>4 DEF Content
<1>7. Cat(<<>>, <<>>) = <<>>
  <2>1. <<>> \in Seq(Int)
    OBVIOUS
  <2> QED BY <2>1, CatRules
<1>8. Content(nl) = Joined(chunk, Begun)
  BY <1>4, <1>6, <1>7, CatRules
<1> QED BY <1>3, <1>5, <1>8

\* When every line of strings.txt ends with a newline and fits the buffer and nothing
\* failed, the chunk files one after the other are strings.txt, empty lines included.
THEOREM NoLineTorn == Spec => []LinesStayWhole
<1>1. Init => FreeEmpty /\ NeatInv
  BY DEF Init, FreeEmpty, NeatInv, Texting, Working
<1> QED BY <1>1, EncInvariant, FreeStep, NeatStep, NeatWhole, PTL DEF Spec
=============================================================================
