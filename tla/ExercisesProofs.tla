--------------------------- MODULE ExercisesProofs ---------------------------
(***************************************************************************)
(* The small programs for every input, every size of the shared array and  *)
(* every number of rounds.                                                 *)
(***************************************************************************)
EXTENDS Exercises, InductionLemmas, SequenceTheorems

-----------------------------------------------------------------------------
(* thread_shared.c                                                         *)

\* The writer has gone through the slots before w.i in its round, and through the others
\* in the round before.  What the reader has seen is no newer than that, and no older
\* than the array at the beginning of its round; a slot it reads now was written in
\* this round of the writer or in the one before.
SharedInv ==
    /\ shared_array \in [Slots -> Nat] /\ atStart \in [Slots -> Nat]
    /\ w \in [round: Nat \ {0}, i: Slots] /\ r \in [round: Nat \ {0}, i: Slots]
    /\ seen \in Seq(Nat) /\ Len(seen) <= ARR_SIZE /\ (r.i > 1 => Len(seen) = r.i - 1)
    /\ \A i \in Slots : shared_array[i] = IF i < w.i THEN w.round ELSE w.round - 1
    /\ \A i \in Slots : atStart[i] <= shared_array[i]
    /\ \A i \in 1 .. Len(seen) : seen[i] <= w.round

\* Writer and reader go on to a slot.
LEMMA StepTyped ==
    ASSUME NEW p \in [round: Nat \ {0}, i: Slots]
    PROVE  /\ Step(p) \in [round: Nat \ {0}, i: Slots]
           /\ p.i < ARR_SIZE => Step(p).round = p.round /\ Step(p).i = p.i + 1
           /\ p.i >= ARR_SIZE => p.i = ARR_SIZE /\ Step(p).round = p.round + 1 /\ Step(p).i = 1
<1>1. ARR_SIZE \in Nat \ {0} /\ p.i \in 1 .. ARR_SIZE /\ p.round \in Nat \ {0}
  BY DemosAssumption DEF Slots
<1> QED BY <1>1 DEF Step, Slots

\* One more element of a sequence of numbers.
LEMMA AppendNumber ==
    ASSUME NEW s \in Seq(Nat), NEW v \in Nat
    PROVE  /\ Append(s, v) \in Seq(Nat) /\ Len(Append(s, v)) = Len(s) + 1
           /\ Append(s, v)[Len(s) + 1] = v
           /\ \A k \in 1 .. Len(s) : Append(s, v)[k] = s[k]
  OBVIOUS

LEMMA WriterStep ==
    ASSUME SharedInv, TearingBounded, writer_thread
    PROVE  SharedInv' /\ TearingBounded'
<1>1. /\ ARR_SIZE \in Nat \ {0} /\ w.i \in 1 .. ARR_SIZE /\ w.round \in Nat \ {0}
      /\ w' \in [round: Nat \ {0}, i: Slots] /\ w'.i \in 1 .. ARR_SIZE
      /\ w.i < ARR_SIZE => w'.round = w.round /\ w'.i = w.i + 1
      /\ w.i >= ARR_SIZE => w.i = ARR_SIZE /\ w'.round = w.round + 1 /\ w'.i = 1
  BY DemosAssumption, StepTyped DEF SharedInv, writer_thread, Slots
<1>2. /\ shared_array' \in [Slots -> Nat]
      /\ \A i \in Slots : shared_array'[i] = IF i = w.i THEN w.round ELSE shared_array[i]
  BY <1>1 DEF SharedInv, writer_thread
<1>3. \A i \in Slots : shared_array'[i] = IF i < w'.i THEN w'.round ELSE w'.round - 1
  <2> SUFFICES ASSUME NEW i \in Slots
               PROVE  shared_array'[i] = IF i < w'.i THEN w'.round ELSE w'.round - 1
    OBVIOUS
  <2>1. i \in 1 .. ARR_SIZE /\ shared_array[i] = IF i < w.i THEN w.round ELSE w.round - 1
    BY DEF SharedInv, Slots
  <2>2. shared_array'[i] = IF i = w.i THEN w.round ELSE shared_array[i]
    BY <1>2
  <2> QED BY <1>1, <2>1, <2>2
<1>4. \A i \in Slots : atStart'[i] <= shared_array'[i]
  <2> SUFFICES ASSUME NEW i \in Slots PROVE atStart[i] <= shared_array'[i]
    BY DEF writer_thread
  <2>1. /\ shared_array[i] = IF i < w.i THEN w.round ELSE w.round - 1
        /\ atStart[i] <= shared_array[i] /\ atStart[i] \in Nat /\ shared_array[i] \in Nat
    BY DEF SharedInv
  <2> QED BY <1>1, <1>2, <2>1
<1>5. \A i \in 1 .. Len(seen) : seen[i] <= w'.round
  <2>1. \A i \in 1 .. Len(seen) : seen[i] <= w.round /\ seen[i] \in Nat
    BY DEF SharedInv
  <2> QED BY <1>1, <2>1
<1> QED BY <1>1, <1>2, <1>3, <1>4, <1>5 DEF SharedInv, TearingBounded, writer_thread

LEMMA ReaderStep ==
    ASSUME SharedInv, TearingBounded, reader_thread
    PROVE  SharedInv' /\ TearingBounded'
<1> DEFINE v == shared_array[r.i]
<1>1. /\ ARR_SIZE \in Nat \ {0} /\ r.i \in 1 .. ARR_SIZE /\ r.i \in Slots /\ w.round \in Nat \ {0}
      /\ r' \in [round: Nat \ {0}, i: Slots] /\ r'.i \in 1 .. ARR_SIZE
      /\ r.i < ARR_SIZE => r'.i = r.i + 1
      /\ r.i >= ARR_SIZE => r.i = ARR_SIZE /\ r'.i = 1
  BY DemosAssumption, StepTyped DEF SharedInv, reader_thread, Slots
<1>2. v \in Nat /\ w.round - 1 <= v /\ v <= w.round
  <2>1. v = IF r.i < w.i THEN w.round ELSE w.round - 1
    BY <1>1 DEF SharedInv
  <2>2. v \in Nat
    BY <1>1 DEF SharedInv
  <2> HIDE DEF v
  <2> QED BY <1>1, <2>1, <2>2
<1>3. /\ atStart' \in [Slots -> Nat] /\ \A i \in Slots : atStart'[i] <= shared_array[i]
      /\ r.i # 1 => atStart' = atStart
  <2>1. \A i \in Slots : shared_array[i] \in Nat /\ shared_array[i] <= shared_array[i]
    BY DEF SharedInv
  <2> QED BY <2>1 DEF SharedInv, reader_thread
<1>4. /\ seen' \in Seq(Nat) /\ Len(seen') = r.i /\ seen'[r.i] = v
      /\ \A k \in 1 .. r.i - 1 : k \in 1 .. Len(seen) /\ seen'[k] = seen[k]
  <2>1. CASE r.i = 1
    BY <1>2, <2>1 DEF reader_thread, Load
  <2>2. CASE r.i # 1
    <3>1. r.i > 1 /\ seen \in Seq(Nat) /\ Len(seen) = r.i - 1 /\ seen' = Append(seen, v)
      BY <1>1, <2>2 DEF SharedInv, reader_thread, Load
    <3> HIDE DEF v
    <3> QED BY <1>1, <1>2, <3>1, AppendNumber
  <2> QED BY <2>1, <2>2
<1> HIDE DEF v
<1>5. \A k \in 1 .. r.i - 1 : seen'[k] \in Nat /\ seen'[k] <= w.round
  <2>1. \A k \in 1 .. Len(seen) : seen[k] \in Nat /\ seen[k] <= w.round
    BY DEF SharedInv
  <2> QED BY <1>4, <2>1
<1>6. SharedInv'
  <2>1. \A k \in 1 .. Len(seen') : seen'[k] <= w.round
    BY <1>1, <1>2, <1>4, <1>5
  <2>2. Len(seen') <= ARR_SIZE /\ (r'.i > 1 => Len(seen') = r'.i - 1)
    BY <1>1, <1>4
  <2> QED BY <1>1, <1>3, <1>4, <2>1, <2>2 DEF SharedInv, reader_thread
<1>7. ASSUME NEW j \in 1 .. Len(seen'), NEW i \in 1 .. j - 1
      PROVE  seen'[j] >= seen'[i] - 1
  <2>1. j \in 1 .. r.i /\ i \in 1 .. r.i - 1
    BY <1>1, <1>4
  <2>2. CASE j = r.i
    <3>1. seen'[j] = v /\ seen'[i] \in Nat /\ seen'[i] <= w.round
      BY <1>4, <1>5, <2>1, <2>2
    <3> QED BY <1>1, <1>2, <3>1
  <2>3. CASE j # r.i
    <3>1. j \in 1 .. r.i - 1
      BY <1>1, <2>1, <2>3
    <3>2. j \in 1 .. Len(seen) /\ seen'[j] = seen[j] /\ seen'[i] = seen[i]
      BY <1>4, <2>1, <3>1
    <3> QED BY <3>2 DEF TearingBounded
  <2> QED BY <2>2, <2>3
<1>8. ASSUME NEW j \in 1 .. Len(seen')
      PROVE  seen'[j] >= atStart'[j]
  <2>1. j \in 1 .. r.i
    BY <1>4
  <2>2. CASE j = r.i
    <3>1. seen'[j] = v /\ atStart'[j] \in Nat /\ atStart'[j] <= v
      BY <1>1, <1>3, <1>4, <2>2 DEF v
    <3> QED BY <1>2, <3>1
  <2>3. CASE j # r.i
    <3>1. j \in 1 .. r.i - 1 /\ r.i # 1
      BY <1>1, <2>1, <2>3
    <3>2. j \in 1 .. Len(seen) /\ seen'[j] = seen[j] /\ atStart' = atStart
      BY <1>3, <1>4, <3>1
    <3> QED BY <3>2 DEF TearingBounded
  <2> QED BY <2>2, <2>3
<1> QED BY <1>6, <1>7, <1>8 DEF TearingBounded

LEMMA SharedInit == Init => SharedInv /\ TearingBounded
<1> SUFFICES ASSUME Init PROVE SharedInv /\ TearingBounded
  OBVIOUS
<1>1. ARR_SIZE \in Nat \ {0} /\ 1 \in Slots
  BY DemosAssumption DEF Slots
<1>2. /\ shared_array = [i \in Slots |-> 0] /\ atStart = [i \in Slots |-> 0] /\ seen = <<>>
      /\ w = [round |-> 1, i |-> 1] /\ r = [round |-> 1, i |-> 1]
  BY DEF Init, DemosInit
<1>3. seen \in Seq(Nat) /\ Len(seen) = 0
  BY <1>2
<1>4. \A i \in Slots : i \in Nat \ {0}
  BY <1>1 DEF Slots
<1> QED BY <1>1, <1>2, <1>3, <1>4 DEF SharedInv, TearingBounded

LEMMA SharedStep == SharedInv /\ TearingBounded /\ [Next]_exVars => SharedInv' /\ TearingBounded'
<1> SUFFICES ASSUME SharedInv, TearingBounded, [Next]_exVars PROVE SharedInv' /\ TearingBounded'
  OBVIOUS
<1>1. CASE UNCHANGED sharedVars
  BY <1>1 DEF sharedVars, SharedInv, TearingBounded
<1>2. writer_thread \/ reader_thread \/ UNCHANGED sharedVars
  BY Zenon DEF Next, exVars, ThreadStep, SharedNext, CancelNext, MultithreadNext
<1> QED BY <1>1, <1>2, WriterStep, ReaderStep

\* For every size of the array and every number of rounds: what a round of the reader sees
\* is torn by at most one round of the writer, and no slot is staler than at its beginning.
THEOREM TearingIsBounded == Spec => []TearingBounded
<1>1. Init => SharedInv /\ TearingBounded
  BY SharedInit
<1>2. SharedInv /\ TearingBounded /\ [Next]_exVars => SharedInv' /\ TearingBounded'
  BY SharedStep
<1> QED BY <1>1, <1>2, PTL DEF Spec
-----------------------------------------------------------------------------
(* thread_cancel.c                                                         *)

\* When main of thread_cancel returns, both threads are over, and X, for which nobody
\* called pthread_cancel, has done all its work.
BothJoined ==
    program = "thread_cancel" /\ main = "done" =>
        count["X"] = WORK_ROUNDS /\ ended["X"] = "normally" /\ ended["Y"] # "no"

\* Only Y is ever cancelled, a thread that ended by itself has done its rounds, and main is
\* past a join only after the end of its thread.
CancelInv ==
    /\ count \in [Threads -> Nat] /\ ended \in [Threads -> {"no", "normally", "cancelled"}]
    /\ cancelled \subseteq {"Y"} /\ ended["X"] # "cancelled"
    /\ \A t \in Threads : ended[t] = "normally" => count[t] = WORK_ROUNDS
    /\ program = "thread_cancel" /\ main \in {"join Y", "done"} => ended["X"] # "no"
    /\ program = "thread_cancel" /\ main = "done" => ended["Y"] # "no"

LEMMA CancelInit == Init => CancelInv
BY DEF Init, DemosInit, CancelInv, Threads

\* A round of a thread, or its end.
LEMMA WorkKeeps ==
    ASSUME CancelInv, NEW t \in Threads, Work(t), UNCHANGED program
    PROVE  CancelInv'
<1>1. /\ count' \in [Threads -> Nat] /\ ended' \in [Threads -> {"no", "normally", "cancelled"}]
      /\ \A s \in Threads : s # t => count'[s] = count[s] /\ ended'[s] = ended[s]
      /\ ended[t] = "no" /\ ended'[t] \in {"no", "normally"}
      /\ ended'[t] = "normally" => count'[t] = WORK_ROUNDS
      /\ UNCHANGED <<cancelled, main, program>>
  <2>0. /\ count \in [Threads -> Nat] /\ ended \in [Threads -> {"no", "normally", "cancelled"}]
        /\ ended[t] = "no" /\ UNCHANGED <<cancelled, main, program>>
    BY DEF CancelInv, Work, Running
  <2>1. CASE count[t] < WORK_ROUNDS /\ count' = [count EXCEPT ![t] = @ + 1] /\ UNCHANGED ended
    <3>1. count[t] \in Nat /\ count[t] + 1 \in Nat
      BY <2>0
    <3> QED BY <2>0, <2>1, <3>1
  <2>2. CASE count[t] = WORK_ROUNDS /\ ended' = [ended EXCEPT ![t] = "normally"] /\ UNCHANGED count
    BY <2>0, <2>2
  <2> QED BY <2>1, <2>2 DEF Work
<1>2. "X" \in Threads /\ "Y" \in Threads
  BY DEF Threads
<1>3. /\ ended[t] = "no" /\ main' = main /\ program' = program /\ cancelled' = cancelled
      /\ ended'["X"] # "cancelled"
      /\ ended["X"] # "no" => ended'["X"] # "no"
      /\ ended["Y"] # "no" => ended'["Y"] # "no"
  BY <1>1, <1>2 DEF CancelInv
<1> QED BY <1>1, <1>3 DEF CancelInv

LEMMA CancelPointKeeps ==
    ASSUME CancelInv, NEW t \in Threads, CancellationPoint(t), UNCHANGED program
    PROVE  CancelInv'
<1>1. t = "Y" /\ t # "X" /\ "X" \in Threads
  BY DEF CancelInv, CancellationPoint, Threads
<1>2. /\ ended' \in [Threads -> {"no", "normally", "cancelled"}]
      /\ \A s \in Threads : ended'[s] = IF s = t THEN "cancelled" ELSE ended[s]
      /\ UNCHANGED <<count, cancelled, main, program>>
  BY DEF CancelInv, CancellationPoint
<1> QED BY <1>1, <1>2 DEF CancelInv

LEMMA CancelStep == CancelInv /\ [Next]_exVars => CancelInv'
<1> SUFFICES ASSUME CancelInv, [Next]_exVars PROVE CancelInv'
  OBVIOUS
<1>1. CASE UNCHANGED <<program, workVars>>
  BY <1>1 DEF workVars, CancelInv
<1>2. CASE program = "thread_cancel" /\ CancelNext /\ UNCHANGED program
  <2>1. ASSUME NEW t \in Threads, do_work(t) PROVE CancelInv'
    BY <1>2, <2>1, WorkKeeps, CancelPointKeeps DEF do_work
  <2>2. CASE MainCancel
    BY <1>2, <2>2 DEF MainCancel, CancelInv
  <2>3. CASE Join("X", "join X", "join Y")
    BY <1>2, <2>3 DEF Join, CancelInv
  <2>4. CASE Join("Y", "join Y", "done")
    BY <1>2, <2>4 DEF Join, CancelInv
  <2> QED BY <1>2, <2>1, <2>2, <2>3, <2>4 DEF CancelNext, CancelMain
<1>3. CASE program = "multithread" /\ MultithreadNext /\ UNCHANGED program
  <2>1. ASSUME NEW t \in Threads, worker(t) PROVE CancelInv'
    BY <1>3, <2>1, WorkKeeps DEF worker
  <2>2. CASE MultithreadMain
    BY <1>3, <2>2 DEF MultithreadMain, CancelInv
  <2> QED BY <1>3, <2>1, <2>2 DEF MultithreadNext
<1> QED BY <1>1, <1>2, <1>3, Zenon DEF Next, exVars, ThreadStep, SharedNext

\* For every number of rounds and however the request meets Y: CancelMainReturns is about
\* whether main returns, this about what holds when it does.
THEOREM CancelJoins == Spec => []BothJoined
<1>1. CancelInv => BothJoined
  <2>1. "X" \in Threads
    BY DEF Threads
  <2> QED BY <2>1 DEF CancelInv, BothJoined
<1> QED BY <1>1, CancelInit, CancelStep, PTL DEF Spec

-----------------------------------------------------------------------------
(* The generators.                                                         *)

\* The number that three digits stand for.
Value(x) == x[1] + 2048 * x[2] + 4194304 * x[3]

\* Quotient and remainder.
LEMMA DivMod ==
    ASSUME NEW y \in Nat, NEW m \in Nat \ {0}
    PROVE  y \div m \in Nat /\ y % m \in 0 .. m - 1 /\ y = m * (y \div m) + (y % m)
  OBVIOUS

\* A remainder is known by its size.
LEMMA Remainder ==
    ASSUME NEW m \in Nat \ {0}, NEW k \in Nat, NEW u \in Nat, u < m
    PROVE  (m * k + u) % m = u
<1> DEFINE y == m * k + u
           j == y \div m
           v == y % m
<1>1. m * k \in Nat /\ y \in Nat
  OBVIOUS
<1>2. j \in Nat /\ v \in 0 .. m - 1 /\ y = m * j + v
  <2> HIDE DEF y
  <2> QED BY <1>1
<1>3. m * k + u = m * j + v
  BY <1>2
<1> HIDE DEF j, v, y
<1>4. CASE k < j
  <2>1. PICK d \in Nat : j = k + 1 + d
    <3>1. j - k - 1 \in Nat /\ j = k + 1 + (j - k - 1)
      BY <1>2, <1>4
    <3> QED BY <3>1
  <2>2. m * j = m * k + m + m * d /\ m * d \in Nat
    BY <2>1
  <2> QED BY <1>1, <1>2, <1>3, <2>2
<1>5. CASE j < k
  <2>1. PICK d \in Nat : k = j + 1 + d
    <3>1. k - j - 1 \in Nat /\ k = j + 1 + (k - j - 1)
      BY <1>2, <1>5
    <3> QED BY <3>1
  <2>2. m * k = m * j + m + m * d /\ m * d \in Nat /\ m * j \in Nat
    BY <1>2, <2>1
  <2> QED BY <1>1, <1>2, <1>3, <2>2
<1>6. CASE j = k
  <2>1. u = v
    BY <1>1, <1>2, <1>3, <1>6
  <2> QED BY <2>1 DEF v, y
<1> QED BY <1>2, <1>4, <1>5, <1>6

\* The digits of the constants.
LEMMA Constants ==
    /\ Digits(1664525) = <<1549, 812, 0>> /\ Digits(1013904223) = <<863, 1502, 241>>
    /\ Digits(1103515245) = <<1645, 201, 263>> /\ Digits(12345) = <<57, 6, 0>>
BY SMT DEF Digits, B

\* lcg is a * seed + c in unsigned arithmetic of 32 bits, and its digits are digits.
LEMMA LcgIsUnsigned ==
    ASSUME NEW x \in Nat \X Nat \X Nat
    PROVE  /\ lcg(x) \in (0 .. 2047) \X (0 .. 2047) \X (0 .. 1023) /\ lcg(x) \in Nat \X Nat \X Nat
           /\ lcg(x)[1] = (1549 * x[1] + 863) % 2048
           /\ Value(lcg(x)) = (1664525 * Value(x) + 1013904223) % 4294967296
<1> DEFINE s1 == 1549 * x[1] + 863
           s2 == 1549 * x[2] + 812 * x[1] + 1502 + (s1 \div 2048)
           s3 == 1549 * x[3] + 812 * x[2] + 0 * x[1] + 241 + (s2 \div 2048)
           u == (s1 % 2048) + 2048 * (s2 % 2048) + 4194304 * (s3 % 1024)
           k == (s3 \div 1024) + 1624 * x[3]
<1>1. x[1] \in Nat /\ x[2] \in Nat /\ x[3] \in Nat
  OBVIOUS
<1>2. lcg(x) = <<s1 % 2048, s2 % 2048, s3 % 1024>>
  BY Constants, SMT DEF lcg, MulAdd, B
<1>3. s1 \in Nat /\ s1 \div 2048 \in Nat /\ s1 % 2048 \in 0 .. 2047 /\ s1 = 2048 * (s1 \div 2048) + (s1 % 2048)
  <2>1. s1 \in Nat
    BY <1>1, SMT
  <2> HIDE DEF s1
  <2> QED BY <2>1, DivMod, SMT
<1> HIDE DEF s1
<1>4. s2 \in Nat /\ s2 \div 2048 \in Nat /\ s2 % 2048 \in 0 .. 2047 /\ s2 = 2048 * (s2 \div 2048) + (s2 % 2048)
  <2>1. s2 \in Nat
    BY <1>1, <1>3, SMT
  <2> HIDE DEF s2
  <2> QED BY <2>1, DivMod, SMT
<1> HIDE DEF s2
<1>5. s3 \in Nat /\ s3 \div 1024 \in Nat /\ s3 % 1024 \in 0 .. 1023 /\ s3 = 1024 * (s3 \div 1024) + (s3 % 1024)
  <2>1. s3 \in Nat
    BY <1>1, <1>4, SMT
  <2> HIDE DEF s3
  <2> QED BY <2>1, DivMod, SMT
<1> HIDE DEF s3
<1>6. 1664525 * Value(x) + 1013904223 = 4294967296 * k + u /\ u < 4294967296
  <2> DEFINE x1 == x[1]
             x2 == x[2]
             x3 == x[3]
             q1 == s1 \div 2048
             r1 == s1 % 2048
             q2 == s2 \div 2048
             r2 == s2 % 2048
             q3 == s3 \div 1024
             r3 == s3 % 1024
  <2>1. /\ x1 \in Nat /\ x2 \in Nat /\ x3 \in Nat /\ q1 \in Nat /\ q2 \in Nat /\ q3 \in Nat
        /\ r1 \in 0 .. 2047 /\ r2 \in 0 .. 2047 /\ r3 \in 0 .. 1023
        /\ s1 = 2048 * q1 + r1 /\ s2 = 2048 * q2 + r2 /\ s3 = 1024 * q3 + r3
    BY <1>1, <1>3, <1>4, <1>5, SMT
  <2>2. /\ s1 = 1549 * x1 + 863
        /\ s2 = 1549 * x2 + 812 * x1 + 1502 + q1
        /\ s3 = 1549 * x3 + 812 * x2 + 0 * x1 + 241 + q2
    BY DEF s1, s2, s3
  <2>3. /\ u = r1 + 2048 * r2 + 4194304 * r3 /\ k = q3 + 1624 * x3
        /\ Value(x) = x1 + 2048 * x2 + 4194304 * x3
    BY SMT DEF Value
  <2> HIDE DEF x1, x2, x3, q1, q2, q3, r1, r2, r3, u, k
  <2>4. /\ 1549 * x1 + 863 = 2048 * q1 + r1
        /\ 1549 * x2 + 812 * x1 + 1502 + q1 = 2048 * q2 + r2
        /\ 1549 * x3 + 812 * x2 + 0 * x1 + 241 + q2 = 1024 * q3 + r3
    BY <2>1, <2>2, SMT
  <2>5. /\ 1664525 * (x1 + 2048 * x2 + 4194304 * x3) + 1013904223
             = 4294967296 * (q3 + 1624 * x3) + (r1 + 2048 * r2 + 4194304 * r3)
        /\ r1 + 2048 * r2 + 4194304 * r3 < 4294967296
    BY <2>1, <2>4, SMT
  <2> QED BY <2>3, <2>5, SMT
<1>7. u \in Nat /\ k \in Nat
  BY <1>1, <1>3, <1>4, <1>5, SMT
<1>8. Value(lcg(x)) = u
  BY <1>2, SMT DEF Value
<1> HIDE DEF u, k
<1>9. (4294967296 * k + u) % 4294967296 = u
  BY <1>6, <1>7, Remainder, SMT
<1>10. lcg(x)[1] = s1 % 2048 /\ Value(lcg(x)) = (1664525 * Value(x) + 1013904223) % 4294967296
  BY <1>2, <1>6, <1>8, <1>9, SMT
<1>11. lcg(x) \in (0 .. 2047) \X (0 .. 2047) \X (0 .. 1023) /\ lcg(x) \in Nat \X Nat \X Nat
  <2>1. s1 % 2048 \in 0 .. 2047 /\ s2 % 2048 \in 0 .. 2047 /\ s3 % 1024 \in 0 .. 1023
    BY <1>3, <1>4, <1>5, SMT
  <2>2. s1 % 2048 \in Nat /\ s2 % 2048 \in Nat /\ s3 % 1024 \in Nat
    BY <1>3, <1>4, <1>5, SMT
  <2> QED BY <1>2, <2>1, <2>2
<1> QED BY <1>10, <1>11 DEF s1

\* lcg_rand is (a * state + c) & 0x7fffffff.
LEMMA LcgRandIsUnsigned ==
    ASSUME NEW x \in Nat \X Nat \X Nat
    PROVE  /\ lcg_rand(x) \in (0 .. 2047) \X (0 .. 2047) \X (0 .. 511)
           /\ Value(lcg_rand(x)) = (1103515245 * Value(x) + 12345) % 2147483648
<1> DEFINE s1 == 1645 * x[1] + 57
           s2 == 1645 * x[2] + 201 * x[1] + 6 + (s1 \div 2048)
           s3 == 1645 * x[3] + 201 * x[2] + 263 * x[1] + 0 + (s2 \div 2048)
           u == (s1 % 2048) + 2048 * (s2 % 2048) + 4194304 * (s3 % 512)
           k == (s3 \div 512) + 4 * (201 * x[3] + 263 * x[2]) + 8192 * (263 * x[3])
<1>1. x[1] \in Nat /\ x[2] \in Nat /\ x[3] \in Nat
  OBVIOUS
<1>2. lcg_rand(x) = <<s1 % 2048, s2 % 2048, s3 % 512>>
  BY Constants, SMT DEF lcg_rand, MulAdd, B
<1>3. s1 \in Nat /\ s1 \div 2048 \in Nat /\ s1 % 2048 \in 0 .. 2047 /\ s1 = 2048 * (s1 \div 2048) + (s1 % 2048)
  <2>1. s1 \in Nat
    BY <1>1, SMT
  <2> HIDE DEF s1
  <2> QED BY <2>1, DivMod, SMT
<1> HIDE DEF s1
<1>4. s2 \in Nat /\ s2 \div 2048 \in Nat /\ s2 % 2048 \in 0 .. 2047 /\ s2 = 2048 * (s2 \div 2048) + (s2 % 2048)
  <2>1. s2 \in Nat
    BY <1>1, <1>3, SMT
  <2> HIDE DEF s2
  <2> QED BY <2>1, DivMod, SMT
<1> HIDE DEF s2
<1>5. s3 \in Nat /\ s3 \div 512 \in Nat /\ s3 % 512 \in 0 .. 511 /\ s3 = 512 * (s3 \div 512) + (s3 % 512)
  <2>1. s3 \in Nat
    BY <1>1, <1>4, SMT
  <2> HIDE DEF s3
  <2> QED BY <2>1, DivMod, SMT
<1> HIDE DEF s3
<1>6. 1103515245 * Value(x) + 12345 = 2147483648 * k + u /\ u < 2147483648
  <2> DEFINE x1 == x[1]
             x2 == x[2]
             x3 == x[3]
             q1 == s1 \div 2048
             r1 == s1 % 2048
             q2 == s2 \div 2048
             r2 == s2 % 2048
             q3 == s3 \div 512
             r3 == s3 % 512
  <2>1. /\ x1 \in Nat /\ x2 \in Nat /\ x3 \in Nat /\ q1 \in Nat /\ q2 \in Nat /\ q3 \in Nat
        /\ r1 \in 0 .. 2047 /\ r2 \in 0 .. 2047 /\ r3 \in 0 .. 511
        /\ s1 = 2048 * q1 + r1 /\ s2 = 2048 * q2 + r2 /\ s3 = 512 * q3 + r3
    BY <1>1, <1>3, <1>4, <1>5, SMT
  <2>2. /\ s1 = 1645 * x1 + 57
        /\ s2 = 1645 * x2 + 201 * x1 + 6 + q1
        /\ s3 = 1645 * x3 + 201 * x2 + 263 * x1 + 0 + q2
    BY DEF s1, s2, s3
  <2>3. /\ u = r1 + 2048 * r2 + 4194304 * r3 /\ k = q3 + 4 * (201 * x3 + 263 * x2) + 8192 * (263 * x3)
        /\ Value(x) = x1 + 2048 * x2 + 4194304 * x3
    BY SMT DEF Value
  <2> HIDE DEF x1, x2, x3, q1, q2, q3, r1, r2, r3, u, k
  <2>4. /\ 1645 * x1 + 57 = 2048 * q1 + r1
        /\ 1645 * x2 + 201 * x1 + 6 + q1 = 2048 * q2 + r2
        /\ 1645 * x3 + 201 * x2 + 263 * x1 + 0 + q2 = 512 * q3 + r3
    BY <2>1, <2>2, SMT
  <2>5. /\ 1103515245 * (x1 + 2048 * x2 + 4194304 * x3) + 12345
             = 2147483648 * (q3 + 4 * (201 * x3 + 263 * x2) + 8192 * (263 * x3))
                 + (r1 + 2048 * r2 + 4194304 * r3)
        /\ r1 + 2048 * r2 + 4194304 * r3 < 2147483648
    BY <2>1, <2>4, SMT
  <2> QED BY <2>3, <2>5, SMT
<1>7. u \in Nat /\ k \in Nat
  BY <1>1, <1>3, <1>4, <1>5, SMT
<1>8. Value(lcg_rand(x)) = u
  BY <1>2, SMT DEF Value
<1> HIDE DEF u, k
<1>9. (2147483648 * k + u) % 2147483648 = u
  BY <1>6, <1>7, Remainder, SMT
<1>10. lcg_rand(x)[1] = s1 % 2048 /\ Value(lcg_rand(x)) = (1103515245 * Value(x) + 12345) % 2147483648
  BY <1>2, <1>6, <1>8, <1>9, SMT
<1>11. lcg_rand(x) \in (0 .. 2047) \X (0 .. 2047) \X (0 .. 511)
  <2>1. s1 % 2048 \in 0 .. 2047 /\ s2 % 2048 \in 0 .. 2047 /\ s3 % 512 \in 0 .. 511
    BY <1>3, <1>4, <1>5, SMT
  <2> QED BY <1>2, <2>1
<1> QED BY <1>10, <1>11

\* Mod is the remainder of the number.
LEMMA ModIsRemainder ==
    ASSUME NEW x \in Nat \X Nat \X Nat, NEW m \in Nat \ {0}
    PROVE  Mod(x, m) = Value(x) % m /\ Mod(x, m) \in 0 .. m - 1
<1> DEFINE h == x[3] * 2048 + x[2]
           t == h % m
           y == t * 2048 + x[1]
           u == y % m
           k == 2048 * (h \div m) + (y \div m)
<1>1. x[1] \in Nat /\ x[2] \in Nat /\ x[3] \in Nat
  OBVIOUS
<1>2. Mod(x, m) = u
  BY DEF Mod, B
<1>3. h \in Nat /\ Value(x) = 2048 * h + x[1]
  BY <1>1 DEF Value
<1> HIDE DEF h
<1>4. t \in 0 .. m - 1 /\ h \div m \in Nat /\ h = m * (h \div m) + t
  BY <1>3
<1> HIDE DEF t
<1>5. y \in Nat
  BY <1>1, <1>4
<1>6. u \in 0 .. m - 1 /\ y \div m \in Nat /\ y = m * (y \div m) + u
  <2> HIDE DEF y
  <2> QED BY <1>5
<1>7. k \in Nat /\ Value(x) = m * k + u
  <2> DEFINE a == h \div m
             b == y \div m
  <2>1. a \in Nat /\ b \in Nat /\ h = m * a + t /\ y = m * b + u /\ k = 2048 * a + b
    BY <1>4, <1>6
  <2>2. Value(x) = 2048 * h + x[1] /\ y = t * 2048 + x[1]
    BY <1>3
  <2> HIDE DEF a, b, k, u, y
  <2>3. m * k = 2048 * (m * a) + m * b /\ m * a \in Nat /\ m * b \in Nat
    BY <2>1
  <2> QED BY <1>1, <1>3, <1>4, <1>6, <2>1, <2>2, <2>3
<1> HIDE DEF k, u
<1>8. (m * k + u) % m = u
  BY <1>6, <1>7, Remainder
<1> QED BY <1>2, <1>6, <1>7, <1>8

\* The generators of both programs are those of the C code at full width: 32 bits without
\* overflow into TLC's integers, 31 bits after the mask, and the range taken from them.
THEOREM GeneratorsAreExact ==
    ASSUME NEW x \in Nat \X Nat \X Nat
    PROVE  /\ Value(lcg(x)) = (1664525 * Value(x) + 1013904223) % 4294967296
           /\ Value(lcg_rand(x)) = (1103515245 * Value(x) + 12345) % 2147483648
           /\ genRand(x, 1, 10000) = (Value(x) % 10000) + 1
           /\ \A lo \in Nat, hi \in Nat : lo <= hi =>
                 lcg_rand_range(x, lo, hi) = (Value(x) % (hi - lo + 1)) + lo
<1>1. genRand(x, 1, 10000) = Mod(x, 10000) + 1
  BY DEF genRand
<1>2. Mod(x, 10000) = Value(x) % 10000
  BY ModIsRemainder
<1>3. ASSUME NEW lo \in Nat, NEW hi \in Nat, lo <= hi
      PROVE  lcg_rand_range(x, lo, hi) = (Value(x) % (hi - lo + 1)) + lo
  <2> DEFINE m == hi - lo + 1
  <2>1. m \in Nat \ {0}
    BY <1>3
  <2> HIDE DEF m
  <2>2. Mod(x, m) = Value(x) % m
    BY <2>1, ModIsRemainder
  <2> QED BY <2>2 DEF lcg_rand_range, m
<1> QED BY <1>1, <1>2, <1>3, LcgIsUnsigned, LcgRandIsUnsigned, SMT

-----------------------------------------------------------------------------
(* genrand.c                                                               *)

\* What genrand draws, and where from.
Drawn(x) == genRand(x, 1, 10000)
DrawRange == 1 .. 10000

\* The lowest bit of the generator alternates, and a number differs from it in its own.
LEMMA Parity ==
    ASSUME NEW x \in Nat \X Nat \X Nat
    PROVE  /\ lcg(x) \in Nat \X Nat \X Nat /\ lcg(x)[1] % 2 # x[1] % 2
           /\ Drawn(x) \in DrawRange /\ Drawn(x) \in Nat /\ Drawn(x) % 2 # x[1] % 2
<1>1. x[1] \in Nat /\ x[2] \in Nat /\ x[3] \in Nat
  OBVIOUS
<1>2. lcg(x) \in Nat \X Nat \X Nat
  BY LcgIsUnsigned, SMT
<1>3. lcg(x)[1] % 2 # x[1] % 2
  <2>1. lcg(x)[1] = (1549 * x[1] + 863) % 2048
    BY LcgIsUnsigned, SMT
  <2> QED BY <1>1, <2>1
<1> DEFINE t == (x[3] * 2048 + x[2]) % 10000
           y == (t * 2048 + x[1]) % 10000
           c == x[1]
<1>4. t \in Nat
  <2>1. x[3] * 2048 + x[2] \in Nat
    BY <1>1
  <2> QED BY <2>1, SMT
<1>5. Drawn(x) = y + 1
  BY SMT DEF Drawn, genRand, Mod, B
<1> HIDE DEF t
<1>6. y \in Nat /\ y < 10000 /\ y % 2 = c % 2 /\ c \in Nat
  BY <1>1, <1>4, SMT
<1> HIDE DEF y
<1>7. (y + 1) % 2 # c % 2 /\ y + 1 \in Nat /\ y + 1 \in DrawRange
  BY <1>6, SMT DEF DrawRange
<1>8. Drawn(x) \in DrawRange /\ Drawn(x) \in Nat /\ Drawn(x) % 2 # x[1] % 2
  BY <1>5, <1>7, Zenon DEF c
<1> QED BY <1>2, <1>3, <1>8

\* How much of the file was there before.
Kept == IF input.append THEN Len(OldNumbers) ELSE 0

\* The numbers after the old ones alternate, and the last one differs from the generator.
Alternates ==
    /\ output \in Seq(Int) /\ Kept <= Len(output)
    /\ \A i \in 1 .. Kept : output[i] = OldNumbers[i]
    /\ \A i \in Kept + 1 .. Len(output) : output[i] \in DrawRange
    /\ \A i \in Kept + 1 .. Len(output) - 1 : output[i] % 2 # output[i + 1] % 2
    /\ Kept < Len(output) => output[Len(output)] % 2 # seed[1] % 2

GenrandInv ==
    program = "genrand" =>
        /\ input \in [n: Int, append: BOOLEAN]
        /\ at \in {"loop", "done"} => seed \in Nat \X Nat \X Nat
        /\ at \in {"start", "failed"} => output = OldNumbers
        /\ at \in {"loop", "done"} => Alternates

LEMMA GenrandInit == Init => GenrandInv
<1> SUFFICES ASSUME Init, program = "genrand" PROVE GenrandInv
  BY DEF GenrandInv
<1>1. input \in GenrandInputs /\ output = OldNumbers /\ at = "start"
  BY DEF Init, Choose
<1> QED BY <1>1, InputsAssumption DEF GenrandInv

LEMMA GenrandStep == GenrandInv /\ [Next]_exVars => GenrandInv'
<1> SUFFICES ASSUME GenrandInv, [Next]_exVars, program' = "genrand" PROVE GenrandInv'
  BY DEF GenrandInv
<1>1. CASE UNCHANGED <<program, toolVars>>
  BY <1>1 DEF toolVars, GenrandInv, Alternates, Kept
<1>2. CASE program = "genrand" /\ genrand
  <2>1. /\ input \in [n: Int, append: BOOLEAN] /\ OldNumbers \in Seq(Int)
        /\ Len(OldNumbers) \in Nat /\ Kept \in Nat
    BY <1>2, InputsAssumption DEF GenrandInv, Kept
  <2>2. CASE GenrandOpen
    <3>1. CASE at' = "failed" /\ UNCHANGED <<input, output, seed>>
      BY <1>2, <2>1, <2>2, <3>1 DEF GenrandInv, GenrandOpen
    <3>2. CASE /\ output' = IF input.append THEN output ELSE <<>>
               /\ seed' \in TimeSeeds /\ at' = "loop" /\ UNCHANGED input
      <4>1. output = OldNumbers
        BY <1>2, <2>2 DEF GenrandInv, GenrandOpen
      <4>2. output' = (IF input.append THEN OldNumbers ELSE <<>>) /\ Kept' = Kept
        BY <3>2, <4>1 DEF Kept
      <4>3. output' \in Seq(Int) /\ Len(output') = Kept
        BY <2>1, <4>2 DEF Kept
      <4>4. \A i \in 1 .. Kept : output'[i] = OldNumbers[i]
        BY <4>2 DEF Kept
      <4>5. Alternates'
        BY <2>1, <4>2, <4>3, <4>4 DEF Alternates
      <4>6. seed' \in Nat \X Nat \X Nat
        BY <3>2, ToolsAssumption
      <4> QED BY <2>1, <3>2, <4>5, <4>6 DEF GenrandInv
    <3> QED BY <2>2, <3>1, <3>2 DEF GenrandOpen
  <2>3. CASE GenrandNumber
    <3> DEFINE y == lcg(seed)
               v == Drawn(y)
    <3>1. Alternates /\ seed \in Nat \X Nat \X Nat
      BY <1>2, <2>3 DEF GenrandInv, GenrandNumber
    <3>2. /\ seed' = y /\ output' = Append(output, v) /\ at' = "loop" /\ at = "loop"
          /\ input' = [input EXCEPT !.n = @ - 1]
      BY <2>3 DEF GenrandNumber, Drawn
    <3>3. /\ y \in Nat \X Nat \X Nat /\ y[1] % 2 # seed[1] % 2
          /\ v \in DrawRange /\ v \in Nat /\ v % 2 # y[1] % 2 /\ y[1] \in Nat /\ seed[1] \in Nat
      <4>1. y \in Nat \X Nat \X Nat /\ y[1] % 2 # seed[1] % 2
        BY <3>1, Parity
      <4> HIDE DEF y
      <4>2. v \in DrawRange /\ v \in Nat /\ v % 2 # y[1] % 2
        BY <4>1, Parity
      <4> QED BY <3>1, <4>1, <4>2
    <3> HIDE DEF y, v
    <3>4. input' \in [n: Int, append: BOOLEAN] /\ Kept' = Kept
      <4>1. input' \in [n: Int, append: BOOLEAN] /\ input'.append = input.append
        BY <2>1, <3>2
      <4> QED BY <4>1 DEF Kept
    <3> DEFINE n == Len(output)
    <3>5. /\ n \in Nat /\ output' \in Seq(Int) /\ Len(output') = n + 1 /\ output'[n + 1] = v
          /\ \A i \in 1 .. n : output'[i] = output[i] /\ output[i] \in Int
      <4>1. output \in Seq(Int) /\ v \in Int
        BY <3>1, <3>3 DEF Alternates
      <4> QED BY <3>2, <4>1
    <3>6. Kept <= n /\ \A i \in 1 .. Kept : output'[i] = OldNumbers[i]
      BY <2>1, <3>1, <3>5 DEF Alternates
    <3>7. \A i \in Kept + 1 .. n + 1 : output'[i] \in DrawRange
      <4> TAKE i \in Kept + 1 .. n + 1
      <4>1. i = n + 1 \/ (i \in Kept + 1 .. n /\ i \in 1 .. n)
        BY <2>1, <3>5
      <4>2. \A j \in Kept + 1 .. n : output[j] \in DrawRange
        BY <3>1 DEF Alternates
      <4> HIDE DEF n
      <4>3. CASE i = n + 1
        BY <3>3, <3>5, <4>3, Zenon
      <4>4. CASE i \in Kept + 1 .. n /\ i \in 1 .. n
        BY <3>5, <4>2, <4>4, Zenon
      <4> QED BY <4>1, <4>3, <4>4
    <3>8. \A i \in Kept + 1 .. n : output'[i] % 2 # output'[i + 1] % 2
      <4> TAKE i \in Kept + 1 .. n
      <4>1. CASE i = n
        <5>1. Kept < n /\ output'[i] = output[n] /\ output'[i + 1] = v /\ output[n] \in Int
          BY <2>1, <3>5, <4>1
        <5>2. output[n] % 2 # seed[1] % 2
          BY <3>1, <5>1 DEF Alternates
        <5> QED BY <3>3, <5>1, <5>2
      <4>2. CASE i # n
        <5>1. i \in Kept + 1 .. n - 1 /\ i \in 1 .. n /\ i + 1 \in 1 .. n
          BY <2>1, <3>5, <4>2
        <5>2. output[i] % 2 # output[i + 1] % 2
          BY <3>1, <5>1 DEF Alternates
        <5> QED BY <3>5, <5>1, <5>2
      <4> QED BY <4>1, <4>2
    <3> HIDE DEF n
    <3>9. Alternates'
      <4>1. output'[Len(output')] % 2 # seed'[1] % 2 /\ Len(output') - 1 = n
        BY <3>2, <3>3, <3>5
      <4>2. Kept <= Len(output')
        BY <2>1, <3>5, <3>6
      <4> QED BY <3>4, <3>5, <3>6, <3>7, <3>8, <4>1, <4>2 DEF Alternates
    <3> QED BY <3>2, <3>3, <3>4, <3>9 DEF GenrandInv
  <2>4. CASE GenrandEnd
    <3>1. at = "loop" /\ at' = "done" /\ UNCHANGED <<input, seed, output>>
      BY <2>4 DEF GenrandEnd, Finish
    <3> QED BY <1>2, <3>1 DEF GenrandInv, Alternates, Kept
  <2> QED BY <1>2, <2>2, <2>3, <2>4 DEF genrand
<1> QED BY <1>1, <1>2 DEF Next, exVars, ToolStep

\* For every seed, every count and every old file: odd and even numbers alternate
\* after what was to be kept; and a file that cannot be opened is untouched.
THEOREM NumbersAlternate == Spec => []RandomNumbersAlternate
<1>1. GenrandInv => RandomNumbersAlternate
  <2> SUFFICES ASSUME GenrandInv, program = "genrand", at = "done"
               PROVE  /\ SubSeq(output, 1, Kept) = SubSeq(OldNumbers, 1, Kept)
                      /\ \A i \in Kept + 1 .. Len(output) - 1 : output[i] % 2 # output[i + 1] % 2
    BY DEF RandomNumbersAlternate, GenrandInv, Kept
  <2>1. /\ Alternates /\ OldNumbers \in Seq(Int) /\ Kept \in Nat /\ Kept <= Len(OldNumbers)
    BY InputsAssumption DEF GenrandInv, Kept
  <2>2. SubSeq(output, 1, Kept) = SubSeq(OldNumbers, 1, Kept)
    <3>1. /\ output \in Seq(Int) /\ Kept <= Len(output)
          /\ \A i \in 1 .. Kept : output[i] = OldNumbers[i]
      BY <2>1 DEF Alternates
    <3>2. /\ SubSeq(output, 1, Kept) = [i \in 1 .. Kept |-> output[i]]
          /\ SubSeq(OldNumbers, 1, Kept) = [i \in 1 .. Kept |-> OldNumbers[i]]
      BY <2>1, <3>1
    <3> QED BY <3>1, <3>2
  <2> QED BY <2>1, <2>2 DEF Alternates
<1> QED BY <1>1, GenrandInit, GenrandStep, PTL DEF Spec

-----------------------------------------------------------------------------
(* polybius.c                                                              *)

\* The letter the square has for a letter.
InSquare(c) == IF c \in {74, 106} THEN 73 ELSE my_toupper(c)

\* The letter at the place two digits of a code name.
At(d1, d2) == Grid[5 * (d1 - 49) + (d2 - 49)]

\* A letter becomes two digits that lead back to it, anything else becomes nothing.
LEMMA LetterCode ==
    ASSUME NEW c \in Int
    PROVE  /\ EncodedLetter(c) \in Seq(Int)
           /\ ~ isalpha(c) => EncodedLetter(c) = <<>>
           /\ isalpha(c) => \E d1, d2 \in Int : EncodedLetter(c) = <<d1, d2>> /\ At(d1, d2) = InSquare(c)
<1> DEFINE g == GridLetter(c)
           k == CHOOSE k \in 0 .. 24 : Grid[k] = GridLetter(c)
           d1 == 49 + (k \div 5)
           d2 == 49 + (k % 5)
<1>1. \A j \in 0 .. 24 : Grid[j] = IF j < 9 THEN 65 + j ELSE 66 + j
  BY DEF Grid
<1>2. CASE isalpha(c)
  <2>1. g = InSquare(c) /\ g \in (65 .. 90) \ {74}
    BY <1>2 DEF GridLetter, InSquare, my_toupper, isalpha, isupper, islower
  <2>2. \E j \in 0 .. 24 : Grid[j] = g
    <3>1. CASE g < 74
      <4>1. g - 65 \in 0 .. 24 /\ Grid[g - 65] = g
        BY <1>1, <2>1, <3>1
      <4> QED BY <4>1
    <3>2. CASE g > 74
      <4>1. g - 66 \in 0 .. 24 /\ Grid[g - 66] = g
        BY <1>1, <2>1, <3>2
      <4> QED BY <4>1
    <3> QED BY <2>1, <3>1, <3>2
  <2>3. k \in 0 .. 24 /\ Grid[k] = g
    BY <2>2
  <2>4. EncodedLetter(c) = <<d1, d2>>
    BY <2>2 DEF EncodedLetter
  <2> HIDE DEF k
  <2>5. d1 \in Int /\ d2 \in Int /\ 5 * (d1 - 49) + (d2 - 49) = k
    BY <2>3
  <2> HIDE DEF d1, d2
  <2>6. At(d1, d2) = InSquare(c)
    BY <2>1, <2>3, <2>5 DEF At
  <2> QED BY <1>2, <2>4, <2>5, <2>6
<1>3. CASE ~ isalpha(c)
  <2>1. ~ \E j \in 0 .. 24 : Grid[j] = g
    <3>1. g \notin 65 .. 90 /\ g \in Int
      BY <1>3 DEF GridLetter, my_toupper, isalpha, isupper, islower
    <3> QED BY <1>1, <3>1
  <2>2. EncodedLetter(c) = <<>>
    BY <2>1 DEF EncodedLetter
  <2> QED BY <1>3, <2>2
<1> QED BY <1>2, <1>3

\* Alphas and pbEncode read their text from left to right.
Filters(text, kept) ==
    /\ kept \in [0 .. Len(text) -> Seq(Int)] /\ kept[0] = <<>>
    /\ \A k \in 1 .. Len(text) :
          kept[k] = IF isalpha(text[k]) THEN Append(kept[k - 1], text[k]) ELSE kept[k - 1]

LEMMA AlphasFilters ==
    ASSUME NEW text \in Seq(Int)
    PROVE  \E kept : Filters(text, kept) /\ Alphas(text) = kept[Len(text)]
<1> DEFINE n == Len(text)
           D == Seq(Int)
           none == <<>>
           Then(k, t) == IF isalpha(text[k]) THEN Append(t, text[k]) ELSE t
           Rhs(f) == [k \in 0 .. n |-> IF k = 0 THEN none ELSE Then(k, f[k - 1])]
           kept == CHOOSE f : f = Rhs(f)
           step == [k \in 1 .. n |-> [t \in D |-> Then(k, t)]]
<1>1. Alphas(text) = kept[n]
  BY DEF Alphas
<1>2. n \in Nat /\ none \in D /\ \A k \in 1 .. n, t \in D : Then(k, t) \in D
  OBVIOUS
<1> HIDE DEF n, D, none, Then
<1>3. \A k \in 1 .. n : k \in 0 .. n /\ k # 0 /\ k - 1 \in 0 .. n
  BY <1>2
<1>4. step \in [1 .. n -> [D -> D]]
  BY <1>2
<1>5. PICK f : Iterates(f, n, D, none, step)
  <2> HIDE DEF step
  <2> QED BY <1>2, <1>4, Recursion
<1>6. f = Rhs(f)
  <2>1. f \in [0 .. n -> D] /\ f[0] = none
    BY <1>5 DEF Iterates
  <2>2. \A k \in 1 .. n : f[k] = Then(k, f[k - 1])
    BY <1>3, <1>5, <2>1 DEF Iterates
  <2> QED BY <1>2, <1>3, <2>1, <2>2
<1>7. kept = Rhs(kept)
  BY <1>6
<1> HIDE DEF kept
<1>8. kept[0] = none /\ \A k \in 1 .. n : kept[k] = Then(k, kept[k - 1])
  BY <1>2, <1>3, <1>7
<1>9. \A k \in 0 .. n : kept[k] \in D
  BY <1>2, <1>8, Stays
<1>10. kept \in [0 .. n -> D]
  BY <1>7, <1>9
<1> QED BY <1>1, <1>8, <1>10 DEF Filters, n, none, D, Then

Encodes(text, enc) ==
    /\ enc \in [0 .. Len(text) -> Seq(Int)] /\ enc[0] = <<>>
    /\ \A k \in 1 .. Len(text) : enc[k] = enc[k - 1] \o EncodedLetter(text[k])

LEMMA EncodeEncodes ==
    ASSUME NEW text \in Seq(Int)
    PROVE  \E enc : Encodes(text, enc) /\ pbEncode(text) = enc[Len(text)]
<1> DEFINE n == Len(text)
           D == Seq(Int)
           none == <<>>
           Then(k, t) == t \o EncodedLetter(text[k])
           Rhs(f) == [k \in 0 .. n |-> IF k = 0 THEN none ELSE Then(k, f[k - 1])]
           enc == CHOOSE f : f = Rhs(f)
           step == [k \in 1 .. n |-> [t \in D |-> Then(k, t)]]
<1>1. pbEncode(text) = enc[n]
  BY DEF pbEncode
<1>2. n \in Nat /\ none \in D /\ \A k \in 1 .. n, t \in D : Then(k, t) \in D
  <2>1. ASSUME NEW k \in 1 .. n, NEW t \in D PROVE Then(k, t) \in D
    <3>0. text[k] \in Int
      OBVIOUS
    <3>1. EncodedLetter(text[k]) \in Seq(Int)
      BY <3>0, LetterCode
    <3> QED BY <3>1
  <2> QED BY <2>1
<1> HIDE DEF n, D, none, Then
<1>3. \A k \in 1 .. n : k \in 0 .. n /\ k # 0 /\ k - 1 \in 0 .. n
  BY <1>2
<1>4. step \in [1 .. n -> [D -> D]]
  BY <1>2
<1>5. PICK f : Iterates(f, n, D, none, step)
  <2> HIDE DEF step
  <2> QED BY <1>2, <1>4, Recursion
<1>6. f = Rhs(f)
  <2>1. f \in [0 .. n -> D] /\ f[0] = none
    BY <1>5 DEF Iterates
  <2>2. \A k \in 1 .. n : f[k] = Then(k, f[k - 1])
    BY <1>3, <1>5, <2>1 DEF Iterates
  <2> QED BY <1>2, <1>3, <2>1, <2>2
<1>7. enc = Rhs(enc)
  BY <1>6
<1> HIDE DEF enc
<1>8. enc[0] = none /\ \A k \in 1 .. n : enc[k] = Then(k, enc[k - 1])
  BY <1>2, <1>3, <1>7
<1>9. \A k \in 0 .. n : enc[k] \in D
  BY <1>2, <1>8, Stays
<1>10. enc \in [0 .. n -> D]
  BY <1>7, <1>9
<1> QED BY <1>1, <1>8, <1>10 DEF Encodes, n, none, D, Then

\* The code of letters: two digits for each.
Codes(code, letters) ==
    /\ code \in Seq(Int) /\ letters \in Seq(Int) /\ Len(code) = 2 * Len(letters)
    /\ \A i \in 1 .. Len(letters) : At(code[2 * i - 1], code[2 * i]) = InSquare(letters[i])

LEMMA OneMoreLetter ==
    ASSUME NEW code, NEW letters, Codes(code, letters), NEW c \in Int,
           NEW d1 \in Int, NEW d2 \in Int, At(d1, d2) = InSquare(c)
    PROVE  Codes(code \o <<d1, d2>>, Append(letters, c))
<1> DEFINE more == code \o <<d1, d2>>
           all  == Append(letters, c)
           n    == Len(letters)
<1>1. /\ code \in Seq(Int) /\ letters \in Seq(Int) /\ n \in Nat /\ Len(code) = 2 * n
      /\ \A i \in 1 .. n : At(code[2 * i - 1], code[2 * i]) = InSquare(letters[i])
  BY DEF Codes
<1>2. /\ all \in Seq(Int) /\ Len(all) = n + 1 /\ all[n + 1] = c
      /\ \A i \in 1 .. n : all[i] = letters[i]
  BY <1>1
<1> DEFINE pair == <<d1, d2>>
<1>3. pair \in Seq(Int) /\ Len(pair) = 2 /\ pair[1] = d1 /\ pair[2] = d2
  OBVIOUS
<1>4. /\ more \in Seq(Int) /\ Len(more) = 2 * n + 2
      /\ \A i \in 1 .. 2 * n : more[i] = code[i]
      /\ more[2 * n + 1] = d1 /\ more[2 * n + 2] = d2
  <2> HIDE DEF pair, n
  <2>1. more = code \o pair
    BY DEF more, pair
  <2>2. more \in Seq(Int) /\ Len(more) = 2 * n + 2
    <3>1. code \o pair \in Seq(Int) /\ Len(code \o pair) = Len(code) + Len(pair)
      BY <1>1, <1>3, ConcatProperties
    <3> HIDE DEF more
    <3> QED BY <1>1, <1>3, <2>1, <3>1
  <2>3. \A i \in 1 .. 2 * n + 2 : more[i] = IF i <= 2 * n THEN code[i] ELSE pair[i - 2 * n]
    <3>1. \A i \in 1 .. Len(code) + Len(pair) :
             (code \o pair)[i] = IF i <= Len(code) THEN code[i] ELSE pair[i - Len(code)]
      <4> HIDE DEF more
      <4> QED BY <1>1, <1>3, ConcatProperties
    <3>2. Len(code) = 2 * n /\ Len(pair) = 2
      BY <1>1, <1>3
    <3> HIDE DEF more
    <3> QED BY <2>1, <3>1, <3>2
  <2>4. 2 * n + 1 \in 1 .. 2 * n + 2 /\ 2 * n + 2 \in 1 .. 2 * n + 2
    BY <1>1
  <2> HIDE DEF more
  <2> QED BY <1>1, <1>3, <2>2, <2>3, <2>4
<1> HIDE DEF more, all, n
<1>5. ASSUME NEW i \in 1 .. n + 1
      PROVE  At(more[2 * i - 1], more[2 * i]) = InSquare(all[i])
  <2>1. CASE i \in 1 .. n
    <3>1. 2 * i - 1 \in 1 .. 2 * n /\ 2 * i \in 1 .. 2 * n
      BY <1>1, <2>1
    <3> QED BY <1>1, <1>2, <1>4, <2>1, <3>1
  <2>2. CASE i = n + 1
    <3>1. 2 * i - 1 = 2 * n + 1 /\ 2 * i = 2 * n + 2
      BY <1>1, <2>2
    <3> QED BY <1>2, <1>4, <2>2, <3>1
  <2> QED BY <1>1, <2>1, <2>2
<1>6. Len(more) = 2 * Len(all)
  BY <1>1, <1>2, <1>4
<1>7. Codes(more, all)
  BY <1>2, <1>4, <1>5, <1>6 DEF Codes
<1> QED BY <1>7 DEF more, all

LEMMA EncodedLetters ==
    ASSUME NEW text \in Seq(Int)
    PROVE  Codes(pbEncode(text), Alphas(text)) /\ Len(Alphas(text)) <= Len(text)
<1> DEFINE n == Len(text)
<1>1. n \in Nat
  OBVIOUS
<1>2. PICK kept : Filters(text, kept) /\ Alphas(text) = kept[n]
  BY AlphasFilters
<1>3. PICK enc : Encodes(text, enc) /\ pbEncode(text) = enc[n]
  BY EncodeEncodes
<1> DEFINE S == {k \in 0 .. n : Codes(enc[k], kept[k]) /\ Len(kept[k]) <= k}
<1>4. 0 \in S
  <2>1. kept[0] = <<>> /\ enc[0] = <<>>
    BY <1>2, <1>3 DEF Filters, Encodes
  <2>2. Codes(enc[0], kept[0]) /\ Len(kept[0]) <= 0
    BY <2>1 DEF Codes
  <2> QED BY <1>1, <2>2
<1>5. ASSUME NEW k \in 0 .. n - 1, k \in S
      PROVE  k + 1 \in S
  <2> DEFINE c == text[k + 1]
  <2>1. k + 1 \in 1 .. n /\ (k + 1) - 1 = k /\ c \in Int /\ k + 1 \in 0 .. n /\ k \in 0 .. n
    BY <1>1
  <2>2. kept[k + 1] = IF isalpha(c) THEN Append(kept[k], c) ELSE kept[k]
    BY <1>2, <2>1 DEF Filters
  <2>3. enc[k + 1] = enc[k] \o EncodedLetter(c)
    BY <1>3, <2>1 DEF Encodes
  <2>4. /\ Codes(enc[k], kept[k]) /\ Len(kept[k]) <= k
        /\ kept[k] \in Seq(Int) /\ enc[k] \in Seq(Int) /\ Len(kept[k]) \in Nat
    BY <1>5 DEF Codes
  <2> HIDE DEF c
  <2>5. CASE isalpha(c)
    <3>1. PICK d1 \in Int, d2 \in Int : EncodedLetter(c) = <<d1, d2>> /\ At(d1, d2) = InSquare(c)
      BY <2>1, <2>5, LetterCode
    <3>2. Codes(enc[k] \o <<d1, d2>>, Append(kept[k], c))
      BY <2>1, <2>4, <3>1, OneMoreLetter
    <3>3. Codes(enc[k + 1], kept[k + 1])
      BY <2>2, <2>3, <2>5, <3>1, <3>2
    <3>4. Len(kept[k + 1]) <= k + 1
      <4>1. Len(Append(kept[k], c)) = Len(kept[k]) + 1
        BY <2>4
      <4> QED BY <2>1, <2>2, <2>4, <2>5, <4>1
    <3> QED BY <2>1, <3>3, <3>4
  <2>6. CASE ~ isalpha(c)
    <3>1. enc[k + 1] = enc[k]
      <4>1. EncodedLetter(c) = <<>>
        BY <2>1, <2>6, LetterCode
      <4> QED BY <2>3, <2>4, <4>1
    <3>2. kept[k + 1] = kept[k]
      BY <2>2, <2>6
    <3>3. Len(kept[k + 1]) <= k + 1
      BY <2>1, <2>4, <3>2
    <3>4. Codes(enc[k + 1], kept[k + 1])
      BY <2>4, <3>1, <3>2
    <3> QED BY <2>1, <3>3, <3>4
  <2> QED BY <2>5, <2>6
<1>6. \A k \in 0 .. n : k \in S
  <2> HIDE DEF S
  <2> QED BY <1>1, <1>4, <1>5, Induction
<1>7. n \in S
  <2> HIDE DEF S
  <2> QED BY <1>1, <1>6
<1> QED BY <1>2, <1>3, <1>7

\* What polybius has done when it is done.
PolybiusInv ==
    program = "polybius" =>
        /\ input \in Seq(Int)
        /\ at = "done" => output = [code |-> pbEncode(input), text |-> pbDecode(pbEncode(input))]

LEMMA PolybiusInit == Init => PolybiusInv
<1> SUFFICES ASSUME Init, program = "polybius" PROVE PolybiusInv
  BY DEF PolybiusInv
<1>1. input \in PlainTexts /\ at = "start"
  BY DEF Init, Choose
<1> QED BY <1>1, InputsAssumption DEF PolybiusInv

LEMMA PolybiusStep == PolybiusInv /\ [Next]_exVars => PolybiusInv'
<1> SUFFICES ASSUME PolybiusInv, [Next]_exVars, program' = "polybius" PROVE PolybiusInv'
  BY DEF PolybiusInv
<1>1. CASE UNCHANGED <<program, toolVars>>
  BY <1>1 DEF toolVars, PolybiusInv
<1>2. CASE program = "polybius" /\ polybius
  BY <1>2 DEF polybius, Finish, PolybiusInv
<1> QED BY <1>1, <1>2 DEF Next, exVars, ToolStep

\* For every text: what is encoded and decoded is its letters, and the code fits.
THEOREM CipherInverts == Spec => []DecodeInvertsEncode
<1>1. PolybiusInv => DecodeInvertsEncode
  <2> DEFINE letters == Alphas(input)
             code == pbEncode(input)
             n == Len(letters)
  <2> SUFFICES ASSUME PolybiusInv, program = "polybius", at = "done"
               PROVE  /\ output.text = [i \in 1 .. n |-> IF letters[i] \in {74, 106} THEN 73
                                                         ELSE my_toupper(letters[i])]
                      /\ Len(output.code) <= 2 * Len(input)
    BY DEF DecodeInvertsEncode
  <2>1. input \in Seq(Int) /\ output.code = code /\ output.text = pbDecode(code)
    BY DEF PolybiusInv
  <2>2. /\ Len(code) = 2 * n /\ n \in Nat /\ n <= Len(input) /\ Len(input) \in Nat
        /\ \A i \in 1 .. n : At(code[2 * i - 1], code[2 * i]) = InSquare(letters[i])
    BY <2>1, EncodedLetters DEF Codes
  <2> HIDE DEF code, letters, n
  <2>3. Len(code) \div 2 = n
    BY <2>2
  <2>4. pbDecode(code) = [i \in 1 .. n |-> At(code[2 * i - 1], code[2 * i])]
    BY <2>3 DEF pbDecode, At
  <2>5. pbDecode(code) = [i \in 1 .. n |-> InSquare(letters[i])]
    BY <2>2, <2>4
  <2> QED BY <2>1, <2>2, <2>5 DEF InSquare
<1> QED BY <1>1, PolybiusInit, PolybiusStep, PTL DEF Spec

-----------------------------------------------------------------------------
(* arger.c                                                                 *)

\* my_strcmp tells -cap from the other flags.
LEMMA CapFlag ==
    my_strcmp(CAPFLAG, UFLAG) # 0 /\ my_strcmp(CAPFLAG, LFLAG) # 0 /\ my_strcmp(CAPFLAG, CAPFLAG) = 0
<1>1. /\ Len(CAPFLAG) = 4 /\ Len(UFLAG) = 2 /\ Len(LFLAG) = 2
      /\ CAPFLAG[1] = 45 /\ CAPFLAG[2] = 99 /\ UFLAG[1] = 45 /\ UFLAG[2] = 117
      /\ LFLAG[1] = 45 /\ LFLAG[2] = 108
  BY DEF CAPFLAG, UFLAG, LFLAG
<1>2. ASSUME NEW s, Byte(s, 1) = 45, Byte(s, 2) \in Int, Byte(s, 2) # 99
      PROVE  my_strcmp(CAPFLAG, s) # 0
  <2> DEFINE P(k) == /\ k = Len(CAPFLAG) + 1 \/ Byte(CAPFLAG, k) # Byte(s, k)
                     /\ \A j \in 1 .. k - 1 : Byte(CAPFLAG, j) = Byte(s, j)
             stop == CHOOSE k \in 1 .. Len(CAPFLAG) + 1 : P(k)
  <2>1. Byte(CAPFLAG, 1) = 45 /\ Byte(CAPFLAG, 2) = 99
    BY <1>1 DEF Byte
  <2>2. 2 \in 1 .. Len(CAPFLAG) + 1 /\ P(2)
    BY <1>1, <1>2, <2>1
  <2>3. stop \in 1 .. Len(CAPFLAG) + 1 /\ P(stop)
    BY <2>2
  <2>4. stop = 2
    <3> HIDE DEF stop
    <3>1. CASE stop = 1
      BY <1>1, <1>2, <2>1, <2>3, <3>1
    <3>2. CASE stop > 2
      <4>1. 2 \in 1 .. stop - 1
        BY <1>1, <2>3, <3>2
      <4> QED BY <1>2, <2>1, <2>3, <4>1
    <3> QED BY <1>1, <2>3, <3>1, <3>2
  <2>5. StrcmpStop(CAPFLAG, s) = 2
    BY <2>4 DEF StrcmpStop
  <2> QED BY <1>2, <2>1, <2>5 DEF my_strcmp
<1>3. my_strcmp(CAPFLAG, UFLAG) # 0 /\ my_strcmp(CAPFLAG, LFLAG) # 0
  <2>1. /\ Byte(UFLAG, 1) = 45 /\ Byte(UFLAG, 2) = 117
        /\ Byte(LFLAG, 1) = 45 /\ Byte(LFLAG, 2) = 108
    BY <1>1 DEF Byte
  <2> QED BY <1>2, <2>1
<1>4. my_strcmp(CAPFLAG, CAPFLAG) = 0
  <2> DEFINE P(k) == /\ k = Len(CAPFLAG) + 1 \/ Byte(CAPFLAG, k) # Byte(CAPFLAG, k)
                     /\ \A j \in 1 .. k - 1 : Byte(CAPFLAG, j) = Byte(CAPFLAG, j)
             stop == CHOOSE k \in 1 .. Len(CAPFLAG) + 1 : P(k)
  <2>1. 5 \in 1 .. Len(CAPFLAG) + 1 /\ P(5)
    BY <1>1
  <2>2. stop \in 1 .. Len(CAPFLAG) + 1 /\ P(stop)
    BY <2>1
  <2>3. stop = 5
    BY <1>1, <2>2
  <2>4. StrcmpStop(CAPFLAG, CAPFLAG) = 5
    BY <2>3 DEF StrcmpStop
  <2>5. Byte(CAPFLAG, 5) = 0
    BY <1>1 DEF Byte
  <2> QED BY <2>4, <2>5 DEF my_strcmp
<1> QED BY <1>3, <1>4

\* The arguments put together are a text, and at least one blank.
LEMMA ConcatenatedTyped ==
    ASSUME NEW args \in Seq(Seq(Int)), args # <<>>
    PROVE  Concatenated(args) \in Seq(Int) /\ Len(Concatenated(args)) \in Nat \ {0}
<1> DEFINE n == Len(args)
           D == Seq(Int)
           none == <<>>
           Then(k, t) == t \o args[k] \o <<SPACE>>
           Rhs(f) == [k \in 0 .. n |-> IF k = 0 THEN none ELSE Then(k, f[k - 1])]
           cat == CHOOSE f : f = Rhs(f)
           step == [k \in 1 .. n |-> [t \in D |-> Then(k, t)]]
<1>1. Concatenated(args) = cat[n]
  BY DEF Concatenated
<1>2. /\ n \in Nat \ {0} /\ none \in D
      /\ \A k \in 1 .. n, t \in D : Then(k, t) \in D /\ Len(Then(k, t)) \in Nat \ {0}
  <2>1. ASSUME NEW k \in 1 .. n, NEW t \in D
        PROVE  Then(k, t) \in D /\ Len(Then(k, t)) \in Nat \ {0}
    <3> DEFINE blank == <<SPACE>>
               both == t \o args[k]
    <3>1. args[k] \in Seq(Int) /\ t \in Seq(Int) /\ blank \in Seq(Int) /\ Len(blank) = 1
      BY DEF SPACE
    <3>2. both \in Seq(Int) /\ Len(both) \in Nat
      BY <3>1
    <3> HIDE DEF blank, both
    <3>3. both \o blank \in Seq(Int) /\ Len(both \o blank) = Len(both) + Len(blank)
      BY <3>1, <3>2, ConcatProperties
    <3>4. Len(both \o blank) \in Nat \ {0}
      BY <3>1, <3>2, <3>3
    <3> QED BY <3>3, <3>4 DEF blank, both
  <2>2. n \in Nat \ {0} /\ none \in D
    BY EmptySeq
  <2> QED BY <2>1, <2>2
<1> HIDE DEF n, D, none, Then
<1>3. n \in Nat /\ \A k \in 1 .. n : k \in 0 .. n /\ k # 0 /\ k - 1 \in 0 .. n
  BY <1>2
<1>4. step \in [1 .. n -> [D -> D]]
  BY <1>2
<1>5. PICK f : Iterates(f, n, D, none, step)
  <2> HIDE DEF step
  <2> QED BY <1>2, <1>3, <1>4, Recursion
<1>6. f = Rhs(f)
  <2>1. f \in [0 .. n -> D] /\ f[0] = none
    BY <1>5 DEF Iterates
  <2>2. \A k \in 1 .. n : f[k] = Then(k, f[k - 1])
    BY <1>3, <1>5, <2>1 DEF Iterates
  <2> QED BY <1>2, <1>3, <2>1, <2>2
<1>7. cat = Rhs(cat)
  BY <1>6
<1> HIDE DEF cat
<1>8. cat[0] = none /\ \A k \in 1 .. n : cat[k] = Then(k, cat[k - 1])
  BY <1>2, <1>3, <1>7
<1>9. \A k \in 0 .. n : cat[k] \in D
  <2>1. \A k \in 1 .. n : cat[k - 1] \in D => cat[k] \in D
    BY <1>2, <1>8
  <2>2. cat[0] \in D
    BY <1>2, <1>8
  <2> QED BY <1>3, <2>1, <2>2, Stays
<1>10. n \in 1 .. n /\ n - 1 \in 0 .. n /\ n \in 0 .. n
  BY <1>2
<1>11. cat[n] \in D /\ Len(cat[n]) \in Nat \ {0}
  BY <1>2, <1>8, <1>9, <1>10
<1> QED BY <1>1, <1>11 DEF D

\* No letter up to m without a blank after it: the next letter is the first of its word.
Fresh(str, m) == \A j \in 1 .. m : isalpha(str[j]) => \E k \in j .. m : str[k] = SPACE

\* The flag newWord of to_capitalized says just that.
LEMMA NewWordIsFresh ==
    ASSUME NEW str \in Seq(Int)
    PROVE  \A m \in 0 .. Len(str) : NewWord(str)[m] = Fresh(str, m)
<1> DEFINE n == Len(str)
           Then(k, b) == str[k] = SPACE \/ (b /\ ~ isalpha(str[k]))
           Rhs(f) == [i \in 0 .. n |-> i = 0 \/ str[i] = SPACE \/ (f[i - 1] /\ ~ isalpha(str[i]))]
           nw == CHOOSE f : f = Rhs(f)
           step == [k \in 1 .. n |-> [b \in BOOLEAN |-> Then(k, b)]]
<1>1. NewWord(str) = nw
  BY DEF NewWord
<1>2. n \in Nat /\ \A k \in 1 .. n : k \in 0 .. n /\ k # 0 /\ k - 1 \in 0 .. n
  OBVIOUS
<1>3. step \in [1 .. n -> [BOOLEAN -> BOOLEAN]]
  OBVIOUS
<1>4. PICK f : Iterates(f, n, BOOLEAN, TRUE, step)
  <2> HIDE DEF step, n
  <2> QED BY <1>2, <1>3, Recursion
<1>5. f = Rhs(f)
  <2>1. f \in [0 .. n -> BOOLEAN] /\ f[0] = TRUE
    BY <1>4 DEF Iterates
  <2>2. \A k \in 1 .. n : f[k] = Then(k, f[k - 1])
    BY <1>2, <1>4, <2>1 DEF Iterates
  <2> HIDE DEF n
  <2>3. ASSUME NEW i \in 0 .. n
        PROVE  f[i] = (i = 0 \/ str[i] = SPACE \/ (f[i - 1] /\ ~ isalpha(str[i])))
    <3>1. i = 0 \/ i \in 1 .. n
      BY <1>2
    <3> QED BY <2>1, <2>2, <3>1
  <2> QED BY <2>1, <2>3
<1>6. nw = Rhs(nw)
  BY <1>5
<1> HIDE DEF nw
<1> DEFINE S == {k \in 0 .. n : nw[k] = Fresh(str, k)}
<1>7. 0 \in S
  <2>1. nw[0] = TRUE
    BY <1>2, <1>6
  <2>2. Fresh(str, 0) = TRUE
    BY DEF Fresh
  <2>3. nw[0] = Fresh(str, 0)
    BY <2>1, <2>2, Zenon
  <2>4. 0 \in 0 .. n
    BY <1>2
  <2> QED BY <2>3, <2>4, Zenon
<1>8. ASSUME NEW k \in 0 .. n - 1, k \in S
      PROVE  k + 1 \in S
  <2> DEFINE c == str[k + 1]
  <2>1. k + 1 \in 1 .. n /\ k + 1 \in 0 .. n /\ (k + 1) - 1 = k /\ k + 1 # 0 /\ k \in Nat
    BY <1>2
  <2>2. nw[k + 1] = (c = SPACE \/ (nw[k] /\ ~ isalpha(c)))
    <3>1. nw[k + 1] = (k + 1 = 0 \/ c = SPACE \/ (nw[(k + 1) - 1] /\ ~ isalpha(c)))
      BY <1>6, <2>1
    <3> QED BY <2>1, <3>1
  <2>3. nw[k] = Fresh(str, k)
    BY <1>8
  <2>4. CASE c = SPACE
    <3>1. Fresh(str, k + 1)
      BY <2>1, <2>4 DEF Fresh
    <3>2. nw[k + 1] = TRUE
      BY <2>2, <2>4
    <3>3. Fresh(str, k + 1) = TRUE
      BY <3>1 DEF Fresh
    <3> QED BY <2>1, <3>2, <3>3
  <2>5. CASE c # SPACE /\ isalpha(c)
    <3>1. ~ Fresh(str, k + 1)
      <4>1. k + 1 \in 1 .. k + 1 /\ \A j \in k + 1 .. k + 1 : j = k + 1
        BY <2>1
      <4> QED BY <2>5, <4>1 DEF Fresh
    <3>2. nw[k + 1] = FALSE
      BY <2>2, <2>5
    <3>3. Fresh(str, k + 1) = FALSE
      BY <3>1 DEF Fresh
    <3> QED BY <2>1, <3>2, <3>3
  <2>6. CASE c # SPACE /\ ~ isalpha(c)
    <3>1. Fresh(str, k + 1) = Fresh(str, k)
      <4>1. ASSUME Fresh(str, k) PROVE Fresh(str, k + 1)
        <5> SUFFICES ASSUME NEW j \in 1 .. k + 1, isalpha(str[j])
                     PROVE  \E i \in j .. k + 1 : str[i] = SPACE
          BY DEF Fresh
        <5>1. j \in 1 .. k
          BY <2>1, <2>6
        <5>2. PICK i \in j .. k : str[i] = SPACE
          BY <4>1, <5>1 DEF Fresh
        <5>3. i \in j .. k + 1
          BY <2>1, <5>1, <5>2
        <5> QED BY <5>2, <5>3
      <4>2. ASSUME Fresh(str, k + 1) PROVE Fresh(str, k)
        <5> SUFFICES ASSUME NEW j \in 1 .. k, isalpha(str[j])
                     PROVE  \E i \in j .. k : str[i] = SPACE
          BY DEF Fresh
        <5>1. j \in 1 .. k + 1
          BY <2>1
        <5>2. PICK i \in j .. k + 1 : str[i] = SPACE
          BY <4>2, <5>1 DEF Fresh
        <5>3. i \in j .. k
          BY <2>1, <2>6, <5>1, <5>2
        <5> QED BY <5>2, <5>3
      <4> QED BY <4>1, <4>2 DEF Fresh
    <3>2. nw[k + 1] = nw[k]
      <4>1. nw[k] \in BOOLEAN
        BY <2>3 DEF Fresh
      <4> QED BY <2>2, <2>6, <4>1
    <3> QED BY <2>1, <2>3, <3>1, <3>2
  <2> QED BY <2>4, <2>5, <2>6
<1>9. \A k \in 0 .. n : k \in S
  <2> HIDE DEF S, n
  <2> QED BY <1>2, <1>7, <1>8, Induction
<1> QED BY <1>1, <1>9

\* What arger has done when it is done.
ArgerInv ==
    program = "arger" =>
        /\ input \in [flag: Seq(Int), args: Seq(Seq(Int))]
        /\ at = "done" /\ input.args # <<>> => output = Converted(input.flag, input.args)

LEMMA ArgerInit == Init => ArgerInv
<1> SUFFICES ASSUME Init, program = "arger" PROVE ArgerInv
  BY DEF ArgerInv
<1>1. input \in ArgerInputs /\ at = "start"
  BY DEF Init, Choose
<1> QED BY <1>1, InputsAssumption DEF ArgerInv

LEMMA ArgerStep == ArgerInv /\ [Next]_exVars => ArgerInv'
<1> SUFFICES ASSUME ArgerInv, [Next]_exVars, program' = "arger" PROVE ArgerInv'
  BY DEF ArgerInv
<1>1. CASE UNCHANGED <<program, toolVars>>
  BY <1>1 DEF toolVars, ArgerInv
<1>2. CASE program = "arger" /\ arger
  BY <1>2 DEF arger, Finish, ArgerInv
<1> QED BY <1>1, <1>2 DEF Next, exVars, ToolStep

\* For every number of arguments and all their characters: -cap gives a capital to the
\* first letter of each word, to no other, and changes nothing else but case.
THEOREM WordsCapitalized == Spec => []FirstLettersCapitalized
<1>1. ASSUME ArgerInv, program = "arger", at = "done", input.flag = CAPFLAG, input.args # <<>>
      PROVE  LET all == Concatenated(input.args)
                 first(i) == \A j \in 1 .. i - 1 :
                                 isalpha(all[j]) => \E k \in j .. i : all[k] = SPACE
             IN  /\ Len(output.text) = Len(all) - 1
                 /\ \A i \in 1 .. Len(all) - 1 :
                       /\ isalpha(all[i]) => isupper(output.text[i]) = first(i)
                       /\ my_tolower(output.text[i]) = my_tolower(all[i])
  <2> DEFINE all == Concatenated(input.args)
             n == Len(all) - 1
             str == SubSeq(all, 1, n)
             first(i) == \A j \in 1 .. i - 1 : isalpha(all[j]) => \E k \in j .. i : all[k] = SPACE
  <2>1. all \in Seq(Int) /\ Len(all) \in Nat \ {0} /\ n \in Nat
    BY <1>1, ConcatenatedTyped DEF ArgerInv
  <2>2. output.text = to_capitalized(str)
    <3>1. output = Converted(CAPFLAG, input.args)
      BY <1>1 DEF ArgerInv
    <3>2. Converted(CAPFLAG, input.args) = [status |-> 0, text |-> to_capitalized(str)]
      BY CapFlag DEF Converted
    <3> QED BY <3>1, <3>2
  <2> HIDE DEF all
  <2>3. str \in Seq(Int) /\ Len(str) = n /\ \A i \in 1 .. n : str[i] = all[i] /\ all[i] \in Int
    <3>1. n \in Int /\ n = Len(all) - 1 /\ \A i \in 1 .. n : i \in 1 .. Len(all)
      BY <2>1
    <3> HIDE DEF n
    <3>2. \A i \in 1 .. n : all[i] \in Int
      BY <2>1, <3>1
    <3>3. /\ SubSeq(all, 1, n) \in Seq(Int)
          /\ Len(SubSeq(all, 1, n)) = IF 1 <= n THEN n - 1 + 1 ELSE 0
          /\ \A i \in 1 .. n - 1 + 1 : SubSeq(all, 1, n)[i] = all[1 + i - 1]
      BY <3>1, <3>2, SubSeqProperties
    <3>4. Len(str) = n
      BY <2>1, <3>1, <3>3
    <3>5. \A i \in 1 .. n : str[i] = all[i]
      BY <2>1, <3>1, <3>3
    <3> QED BY <3>2, <3>3, <3>4, <3>5
  <2> HIDE DEF str
  <2>4. ASSUME NEW i \in 1 .. n
        PROVE  output.text[i] = IF Fresh(str, i - 1) /\ isalpha(str[i]) THEN my_toupper(str[i])
                                                                        ELSE my_tolower(str[i])
    <3>1. i - 1 \in 0 .. Len(str) /\ i \in 1 .. Len(str)
      BY <2>1, <2>3
    <3>2. NewWord(str)[i - 1] = Fresh(str, i - 1)
      BY <2>3, <3>1, NewWordIsFresh
    <3> QED BY <2>2, <3>1, <3>2 DEF to_capitalized
  <2>5. Len(output.text) = n
    BY <2>1, <2>2, <2>3 DEF to_capitalized
  <2> HIDE DEF n
  <2>6. ASSUME NEW i \in 1 .. n, isalpha(all[i])
        PROVE  Fresh(str, i - 1) = first(i)
    <3>1. all[i] # SPACE
      BY <2>6 DEF isalpha, isupper, islower, SPACE
    <3>2. ASSUME Fresh(str, i - 1) PROVE first(i)
      <4> SUFFICES ASSUME NEW j \in 1 .. i - 1, isalpha(all[j])
                   PROVE  \E k \in j .. i : all[k] = SPACE
        OBVIOUS
      <4>1. j \in 1 .. n /\ isalpha(str[j])
        BY <2>1, <2>3
      <4>2. PICK k \in j .. i - 1 : str[k] = SPACE
        BY <3>2, <4>1 DEF Fresh
      <4>3. k \in j .. i /\ k \in 1 .. n
        BY <2>1, <4>1, <4>2
      <4> QED BY <2>3, <4>2, <4>3
    <3>3. ASSUME first(i) PROVE Fresh(str, i - 1)
      <4> SUFFICES ASSUME NEW j \in 1 .. i - 1, isalpha(str[j])
                   PROVE  \E k \in j .. i - 1 : str[k] = SPACE
        BY DEF Fresh
      <4>1. j \in 1 .. n /\ isalpha(all[j])
        BY <2>1, <2>3
      <4>2. PICK k \in j .. i : all[k] = SPACE
        BY <3>3, <4>1
      <4>3. k \in j .. i - 1 /\ k \in 1 .. n
        BY <2>1, <3>1, <4>1, <4>2
      <4> QED BY <2>3, <4>2, <4>3
    <3> QED BY <3>2, <3>3 DEF Fresh
  <2>7. ASSUME NEW i \in 1 .. n
        PROVE  /\ isalpha(all[i]) => isupper(output.text[i]) = first(i)
               /\ my_tolower(output.text[i]) = my_tolower(all[i])
    <3> DEFINE c == all[i]
    <3>1. c \in Int /\ str[i] = c
      BY <2>3
    <3>2. \/ isalpha(c) /\ Fresh(str, i - 1) /\ output.text[i] = my_toupper(c)
          \/ ~ (isalpha(c) /\ Fresh(str, i - 1)) /\ output.text[i] = my_tolower(c)
      BY <2>4, <3>1
    <3>3. my_tolower(output.text[i]) = my_tolower(c)
      <4> HIDE DEF c
      <4> QED BY <3>1, <3>2 DEF my_tolower, my_toupper, isalpha, isupper, islower
    <3>4. ASSUME isalpha(c) PROVE isupper(output.text[i]) = first(i)
      <4>1. Fresh(str, i - 1) = first(i)
        BY <2>6, <3>4
      <4>2. CASE Fresh(str, i - 1)
        <5>1. output.text[i] = my_toupper(c)
          BY <3>2, <3>4, <4>2
        <5>2. isupper(output.text[i]) = TRUE
          BY <3>1, <3>4, <5>1 DEF my_toupper, isalpha, isupper, islower
        <5> QED BY <4>1, <4>2, <5>2
      <4>3. CASE ~ Fresh(str, i - 1)
        <5>1. output.text[i] = my_tolower(c)
          BY <3>2, <4>3
        <5>2. isupper(output.text[i]) = FALSE
          BY <3>1, <3>4, <5>1 DEF my_tolower, isalpha, isupper, islower
        <5> QED BY <4>1, <4>3, <5>2
      <4> QED BY <4>2, <4>3
    <3> QED BY <3>3, <3>4
  <2> QED BY <2>5, <2>7 DEF n, all
<1>2. ArgerInv => FirstLettersCapitalized
  BY <1>1 DEF FirstLettersCapitalized
<1> QED BY <1>2, ArgerInit, ArgerStep, PTL DEF Spec

-----------------------------------------------------------------------------
(* loadmem.c                                                               *)

\* The next blank, or the end of the line.
LEMMA FromSpace ==
    ASSUME NEW line, Len(line) \in Nat, NEW p \in 1 .. Len(line) + 1
    PROVE  LET k == From(line, p, LAMBDA c : c = SPACE)
           IN  /\ k \in p .. Len(line) + 1
               /\ k = Len(line) + 1 \/ line[k] = SPACE
               /\ \A j \in p .. k - 1 : line[j] # SPACE
<1> DEFINE n == Len(line) + 1
           S == {j \in p .. n : line[j] = SPACE}
           P(k) == (k = n \/ line[k] = SPACE) /\ \A j \in p .. k - 1 : ~ (line[j] = SPACE)
<1>1. p \in Nat /\ n \in Nat /\ p <= n
  OBVIOUS
<1>2. PICK k \in p .. n : (k = n \/ k \in S) /\ \A j \in p .. k - 1 : j \notin S
  <2> HIDE DEF S, n
  <2> QED BY <1>1, First
<1>3. \A j \in p .. k - 1 : j \in p .. n
  BY <1>1
<1>4. P(k)
  BY <1>2, <1>3
<1>5. From(line, p, LAMBDA c : c = SPACE) = CHOOSE i \in p .. n : P(i)
  BY DEF From
<1> HIDE DEF P
<1>6. From(line, p, LAMBDA c : c = SPACE) \in p .. n /\ P(From(line, p, LAMBDA c : c = SPACE))
  BY <1>2, <1>4, <1>5
<1> QED BY <1>6 DEF P

\* The next character that is no blank.
LEMMA FromOther ==
    ASSUME NEW line, Len(line) \in Nat, NEW p \in 1 .. Len(line) + 1
    PROVE  LET k == From(line, p, LAMBDA c : c # SPACE)
           IN  /\ k \in p .. Len(line) + 1
               /\ k = Len(line) + 1 \/ line[k] # SPACE
               /\ \A j \in p .. k - 1 : line[j] = SPACE
<1> DEFINE n == Len(line) + 1
           S == {j \in p .. n : line[j] # SPACE}
           P(k) == (k = n \/ line[k] # SPACE) /\ \A j \in p .. k - 1 : ~ (line[j] # SPACE)
<1>1. p \in Nat /\ n \in Nat /\ p <= n
  OBVIOUS
<1>2. PICK k \in p .. n : (k = n \/ k \in S) /\ \A j \in p .. k - 1 : j \notin S
  <2> HIDE DEF S, n
  <2> QED BY <1>1, First
<1>3. \A j \in p .. k - 1 : j \in p .. n
  BY <1>1
<1>4. P(k)
  BY <1>2, <1>3
<1>5. From(line, p, LAMBDA c : c # SPACE) = CHOOSE i \in p .. n : P(i)
  BY DEF From
<1> HIDE DEF P
<1>6. From(line, p, LAMBDA c : c # SPACE) \in p .. n /\ P(From(line, p, LAMBDA c : c # SPACE))
  BY <1>2, <1>4, <1>5
<1> QED BY <1>6 DEF P

\* The next character that is no white space.
LEMMA FromInk ==
    ASSUME NEW line, Len(line) \in Nat, NEW p \in 1 .. Len(line) + 1
    PROVE  LET k == From(line, p, LAMBDA c : c \notin {SPACE, TAB, NL})
           IN  /\ k \in p .. Len(line) + 1
               /\ k = Len(line) + 1 \/ line[k] \notin {SPACE, TAB, NL}
               /\ \A j \in p .. k - 1 : line[j] \in {SPACE, TAB, NL}
<1> DEFINE n == Len(line) + 1
           S == {j \in p .. n : line[j] \notin {SPACE, TAB, NL}}
           P(k) == (k = n \/ line[k] \notin {SPACE, TAB, NL}) /\ \A j \in p .. k - 1 : ~ (line[j] \notin {SPACE, TAB, NL})
<1>1. p \in Nat /\ n \in Nat /\ p <= n
  OBVIOUS
<1>2. PICK k \in p .. n : (k = n \/ k \in S) /\ \A j \in p .. k - 1 : j \notin S
  <2> HIDE DEF S, n
  <2> QED BY <1>1, First
<1>3. \A j \in p .. k - 1 : j \in p .. n
  BY <1>1
<1>4. P(k)
  BY <1>2, <1>3
<1>5. From(line, p, LAMBDA c : c \notin {SPACE, TAB, NL}) = CHOOSE i \in p .. n : P(i)
  BY DEF From
<1> HIDE DEF P
<1>6. From(line, p, LAMBDA c : c \notin {SPACE, TAB, NL}) \in p .. n /\ P(From(line, p, LAMBDA c : c \notin {SPACE, TAB, NL}))
  BY <1>2, <1>4, <1>5
<1> QED BY <1>6 DEF P

\* The next character that is no digit.
LEMMA FromNoDigit ==
    ASSUME NEW line, Len(line) \in Nat, NEW p \in 1 .. Len(line) + 1
    PROVE  LET k == From(line, p, LAMBDA c : ~ isdigit(c))
           IN  /\ k \in p .. Len(line) + 1
               /\ k = Len(line) + 1 \/ ~ isdigit(line[k])
               /\ \A j \in p .. k - 1 : isdigit(line[j])
<1> DEFINE n == Len(line) + 1
           S == {j \in p .. n : ~ isdigit(line[j])}
           P(k) == (k = n \/ ~ isdigit(line[k])) /\ \A j \in p .. k - 1 : ~ (~ isdigit(line[j]))
<1>1. p \in Nat /\ n \in Nat /\ p <= n
  OBVIOUS
<1>2. PICK k \in p .. n : (k = n \/ k \in S) /\ \A j \in p .. k - 1 : j \notin S
  <2> HIDE DEF S, n
  <2> QED BY <1>1, First
<1>3. \A j \in p .. k - 1 : j \in p .. n
  BY <1>1
<1>4. P(k)
  BY <1>2, <1>3
<1>5. From(line, p, LAMBDA c : ~ isdigit(c)) = CHOOSE i \in p .. n : P(i)
  BY DEF From
<1> HIDE DEF P
<1>6. From(line, p, LAMBDA c : ~ isdigit(c)) \in p .. n /\ P(From(line, p, LAMBDA c : ~ isdigit(c)))
  BY <1>2, <1>4, <1>5
<1> QED BY <1>6 DEF P

\* A line of numbers: digits and blanks, and a newline at most at its end.
NumberLine(line) ==
    /\ line \in Seq(Int)
    /\ \A i \in 1 .. Len(line) : line[i] \in {SPACE, NL} \cup 48 .. 57
    /\ \A i \in 1 .. Len(line) - 1 : line[i] # NL

\* sscanf takes the number at a digit; it fails where only white space is left.
LEMMA ScanAtDigit ==
    ASSUME NEW line, Len(line) \in Nat, NEW p \in 1 .. Len(line), isdigit(line[p])
    PROVE  sscanf(line, p) = Integer(line, p) /\ sscanf(line, p) # <<>>
<1>1. p \in 1 .. Len(line) + 1 /\ p # Len(line) + 1 /\ p <= Len(line)
  OBVIOUS
<1>2. line[p] \notin {SPACE, TAB, NL} /\ line[p] \notin {43, 45}
  BY DEF isdigit, SPACE, TAB, NL
<1>3. From(line, p, LAMBDA c : c \notin {SPACE, TAB, NL}) = p
  <2> DEFINE k == From(line, p, LAMBDA c : c \notin {SPACE, TAB, NL})
  <2>1. k \in p .. Len(line) + 1 /\ \A j \in p .. k - 1 : line[j] \in {SPACE, TAB, NL}
    BY <1>1, FromInk
  <2> HIDE DEF k
  <2>2. SUFFICES ASSUME k # p PROVE FALSE
    BY DEF k
  <2>3. p \in p .. k - 1
    BY <2>1, <2>2
  <2> QED BY <1>2, <2>1, <2>3
<1>4. From(line, p, LAMBDA c : ~ isdigit(c)) # p
  <2>1. LET k == From(line, p, LAMBDA c : ~ isdigit(c)) IN k = Len(line) + 1 \/ ~ isdigit(line[k])
    BY <1>1, FromNoDigit
  <2> QED BY <1>1, <2>1
<1>5. Integer(line, p) # <<>>
  BY <1>2, <1>4 DEF Integer
<1> QED BY <1>3, <1>5 DEF sscanf

LEMMA ScanAtEnd ==
    ASSUME NEW line, Len(line) \in Nat, NEW p \in 1 .. Len(line) + 1,
           p = Len(line) + 1 \/ (p = Len(line) /\ line[p] = NL)
    PROVE  sscanf(line, p) = <<>>
<1> DEFINE n == Len(line) + 1
<1>1. From(line, p, LAMBDA c : c \notin {SPACE, TAB, NL}) = n
  <2> DEFINE k == From(line, p, LAMBDA c : c \notin {SPACE, TAB, NL})
  <2>1. k \in p .. n /\ (k = n \/ line[k] \notin {SPACE, TAB, NL})
    BY FromInk
  <2> HIDE DEF k
  <2>2. k = n
    BY <2>1
  <2> QED BY <2>2 DEF k
<1>2. From(line, n, LAMBDA c : ~ isdigit(c)) = n
  <2>1. n \in 1 .. Len(line) + 1
    OBVIOUS
  <2>2. From(line, n, LAMBDA c : ~ isdigit(c)) \in n .. Len(line) + 1
    BY <2>1, FromNoDigit
  <2> QED BY <2>1, <2>2
<1>3. ~ (n <= Len(line))
  OBVIOUS
<1> HIDE DEF n
<1>4. Integer(line, n) = <<>>
  BY <1>2, <1>3 DEF Integer
<1> QED BY <1>1, <1>4 DEF sscanf

\* From a number, NextNumber leads to the next one: to a later start with none between, or
\* to a place behind the last start where sscanf fails.
LEMMA NextStart ==
    ASSUME NEW line, NumberLine(line), NEW p \in Starts(line)
    PROVE  LET q == NextNumber(line, p)
           IN  /\ q \in p + 1 .. Len(line) + 1
               /\ \A i \in Starts(line) : ~ (p < i /\ i < q)
               /\ q \in Starts(line) \/ (sscanf(line, q) = <<>> /\ \A i \in Starts(line) : i <= p)
<1> DEFINE n == Len(line)
           s == From(line, p, LAMBDA c : c = SPACE)
           q == From(line, s, LAMBDA c : c # SPACE)
<1>1. n \in Nat /\ p \in 1 .. n /\ p \in 1 .. n + 1 /\ isdigit(line[p])
  BY DEF NumberLine, Starts
<1>2. /\ s \in p .. n + 1 /\ (s = n + 1 \/ line[s] = SPACE)
      /\ \A j \in p .. s - 1 : line[j] # SPACE
  BY <1>1, FromSpace
<1> HIDE DEF s
<1>3. s \in 1 .. n + 1
  BY <1>1, <1>2
<1>4. /\ q \in s .. n + 1 /\ (q = n + 1 \/ line[q] # SPACE)
      /\ \A j \in s .. q - 1 : line[j] = SPACE
  BY <1>1, <1>3, FromOther
<1>5. q = NextNumber(line, p)
  BY DEF NextNumber, s
<1> HIDE DEF q
<1>6. line[p] # SPACE /\ line[p] # NL
  BY <1>1 DEF isdigit, SPACE, NL
<1>7. s # p
  BY <1>1, <1>2, <1>6
<1>8. q \in p + 1 .. n + 1
  BY <1>1, <1>2, <1>4, <1>7
<1>9. \A i \in 1 .. n : line[i] = SPACE \/ line[i] = NL \/ isdigit(line[i])
  BY DEF NumberLine, isdigit
<1>10. \A i \in 1 .. n - 1 : line[i] # NL
  BY DEF NumberLine
<1>11. ~ isdigit(SPACE) /\ ~ isdigit(NL)
  BY DEF isdigit, SPACE, NL
<1>12. ASSUME NEW i \in Starts(line), p < i, i < q
       PROVE  FALSE
  <2>1. i \in 1 .. n /\ isdigit(line[i]) /\ (i = 1 \/ ~ isdigit(line[i - 1]))
    BY DEF Starts
  <2>2. i < s
    BY <1>3, <1>4, <1>8, <1>11, <1>12, <2>1
  <2>3. i - 1 \in 1 .. n - 1 /\ i - 1 \in 1 .. n /\ i - 1 \in p .. s - 1 /\ i # 1
    BY <1>1, <1>3, <1>12, <2>1, <2>2
  <2> QED BY <1>2, <1>9, <1>10, <2>1, <2>3
<1>13. CASE q = n + 1
  <2>1. sscanf(line, q) = <<>>
    BY <1>1, <1>13, ScanAtEnd
  <2>2. ASSUME NEW i \in Starts(line) PROVE i <= p
    <3>1. i \in 1 .. n
      BY DEF Starts
    <3> QED BY <1>1, <1>12, <1>13, <3>1
  <2> QED BY <1>5, <1>8, <1>12, <2>1, <2>2
<1>14. CASE q # n + 1 /\ line[q] = NL
  <2>1. q = n
    BY <1>1, <1>8, <1>10, <1>14
  <2>2. sscanf(line, q) = <<>>
    BY <1>1, <1>14, <2>1, ScanAtEnd
  <2>3. ASSUME NEW i \in Starts(line) PROVE i <= p
    <3>1. i \in 1 .. n /\ isdigit(line[i])
      BY DEF Starts
    <3>2. i # q
      BY <1>11, <1>14, <3>1
    <3> QED BY <1>1, <1>12, <2>1, <3>1, <3>2
  <2> QED BY <1>5, <1>8, <1>12, <2>2, <2>3
<1>15. CASE q # n + 1 /\ line[q] # NL
  <2>1. q \in 1 .. n /\ line[q] # SPACE /\ isdigit(line[q])
    BY <1>1, <1>4, <1>8, <1>9, <1>15
  <2>2. ~ isdigit(line[q - 1])
    <3>1. q # s
      BY <1>1, <1>2, <2>1
    <3>2. q - 1 \in s .. q - 1
      BY <1>3, <1>4, <3>1
    <3> QED BY <1>4, <1>11, <3>2
  <2>3. q \in Starts(line)
    BY <2>1, <2>2 DEF Starts
  <2> QED BY <1>5, <1>8, <1>12, <2>3
<1> QED BY <1>13, <1>14, <1>15

\* How many numbers start up to i.
Rank(line, i) == Cardinality({j \in Starts(line) : j <= i})

\* The numbers of a line are finitely many, and each has its rank.
LEMMA Ranks ==
    ASSUME NEW line, Len(line) \in Nat
    PROVE  /\ IsFiniteSet(Starts(line)) /\ Cardinality(Starts(line)) \in 0 .. Len(line)
           /\ \A i \in Starts(line) : Rank(line, i) \in 1 .. Cardinality(Starts(line))
           /\ \A i, k \in Starts(line) : Rank(line, i) = Rank(line, k) => i = k
<1> DEFINE T == Starts(line)
           Upto(i) == {j \in T : j <= i}
<1>1. T \subseteq 1 .. Len(line)
  BY DEF Starts
<1>2. IsFiniteSet(1 .. Len(line)) /\ Cardinality(1 .. Len(line)) = Len(line)
  BY FS_Interval
<1> HIDE DEF T
<1>3. IsFiniteSet(T) /\ Cardinality(T) \in Nat /\ Cardinality(T) <= Len(line)
  BY <1>1, <1>2, FS_Subset, FS_CardinalityType
<1>4. \A i : Upto(i) \in SUBSET T /\ IsFiniteSet(Upto(i))
  BY <1>3, FS_Subset
<1>5. \A i : Cardinality(Upto(i)) \in Nat /\ Cardinality(Upto(i)) <= Cardinality(T)
  <2> TAKE i
  <2> DEFINE U == Upto(i)
  <2>1. U \in SUBSET T /\ IsFiniteSet(U)
    BY <1>4
  <2> HIDE DEF U
  <2>2. Cardinality(U) \in Nat /\ Cardinality(U) <= Cardinality(T)
    BY <1>3, <2>1, FS_Subset, FS_CardinalityType
  <2> QED BY <2>2 DEF U
<1>6. ASSUME NEW i \in T PROVE Cardinality(Upto(i)) # 0
  <2>1. i \in Upto(i)
    BY <1>1
  <2>2. Upto(i) # {}
    BY <2>1
  <2> HIDE DEF Upto
  <2> QED BY <1>4, <2>2, FS_EmptySet
<1>7. ASSUME NEW i \in T, NEW k \in T, i < k
      PROVE  Cardinality(Upto(i)) # Cardinality(Upto(k))
  <2>1. i \in Int /\ k \in Int
    BY <1>1
  <2>2. Upto(i) \subseteq Upto(k)
    <3> SUFFICES ASSUME NEW j \in T, j <= i PROVE j <= k
      OBVIOUS
    <3>1. j \in Int
      BY <1>1
    <3> QED BY <1>7, <2>1, <3>1
  <2>3. k \in Upto(k) /\ k \notin Upto(i)
    BY <1>7, <2>1
  <2>4. Upto(k) # Upto(i)
    BY <2>3
  <2> HIDE DEF Upto
  <2> QED BY <1>4, <2>2, <2>4, FS_Subset
<1>8. \A i \in T, k \in T : Cardinality(Upto(i)) = Cardinality(Upto(k)) => i = k
  <2> TAKE i \in T, k \in T
  <2>1. i < k \/ k < i \/ i = k
    BY <1>1
  <2> HIDE DEF Upto
  <2> QED BY <1>7, <2>1
<1>9. \A i : Rank(line, i) = Cardinality(Upto(i))
  BY DEF Rank, T
<1> HIDE DEF Upto
<1>10. \A i \in T : Rank(line, i) \in 1 .. Cardinality(T)
  BY <1>3, <1>5, <1>6, <1>9
<1>11. \A i, k \in T : Rank(line, i) = Rank(line, k) => i = k
  BY <1>8, <1>9
<1> QED BY <1>3, <1>10, <1>11 DEF T

\* Numbers counts by rank.
LEMMA NumberAt ==
    ASSUME NEW line, Len(line) \in Nat, NEW i \in Starts(line)
    PROVE  Numbers(line)[Rank(line, i)] = Integer(line, i)[1]
<1> DEFINE k == Rank(line, i)
           P(j) == Rank(line, j) = k
           c == CHOOSE j \in Starts(line) : P(j)
<1>1. k \in 1 .. Cardinality(Starts(line))
  BY Ranks
<1>2. c \in Starts(line) /\ P(c)
  OBVIOUS
<1>3. c = i
  <2> HIDE DEF c
  <2> QED BY <1>2, Ranks
<1>4. Numbers(line)[k] = Integer(line, c)[1]
  <2> HIDE DEF k
  <2> QED BY <1>1 DEF Numbers, Rank
<1> QED BY <1>3, <1>4

\* NextNumber goes from one rank to the next.
LEMMA NextRank ==
    ASSUME NEW line, NumberLine(line), NEW p \in Starts(line)
    PROVE  LET q == NextNumber(line, p)
               N == Cardinality(Starts(line))
           IN  IF Rank(line, p) < N THEN q \in Starts(line) /\ Rank(line, q) = Rank(line, p) + 1
                                    ELSE sscanf(line, q) = <<>>
<1> DEFINE q == NextNumber(line, p)
           T == Starts(line)
           N == Cardinality(T)
           upto == {j \in T : j <= p}
<1>1. Len(line) \in Nat
  BY DEF NumberLine
<1>2. /\ q \in p + 1 .. Len(line) + 1
      /\ \A i \in T : ~ (p < i /\ i < q)
      /\ q \in T \/ (sscanf(line, q) = <<>> /\ \A i \in T : i <= p)
  BY NextStart
<1>3. /\ IsFiniteSet(T) /\ N \in Nat /\ Rank(line, p) \in 1 .. N
      /\ \A i \in T : Rank(line, i) \in 1 .. N
  BY <1>1, Ranks
<1>4. T \subseteq Int
  BY DEF Starts
<1>5. Rank(line, p) = Cardinality(upto)
  BY DEF Rank
<1> HIDE DEF q, T
<1>6. CASE q \in T
  <2> DEFINE next == {j \in T : j <= q}
  <2>1. next = upto \cup {q}
    <3>1. ASSUME NEW j \in T PROVE j <= q <=> j <= p \/ j = q
      <4>1. j \in Int /\ q \in Int /\ p \in Int /\ p < q
        BY <1>2, <1>4, <1>6 DEF T
      <4> QED BY <1>2, <4>1
    <3> QED BY <1>6, <3>1
  <2>2. q \notin upto /\ IsFiniteSet(upto)
    <3>1. ~ (q <= p)
      BY <1>2, <1>4, <1>6 DEF T
    <3>2. upto \in SUBSET T
      OBVIOUS
    <3>3. IsFiniteSet(upto)
      BY <1>3, <3>2, FS_Subset
    <3> QED BY <3>1, <3>3
  <2>3. Rank(line, q) = Cardinality(next)
    BY DEF Rank, T
  <2> HIDE DEF upto, next
  <2>4. Cardinality(next) = Cardinality(upto) + 1
    BY <2>1, <2>2, FS_AddElement
  <2>5. Rank(line, q) = Rank(line, p) + 1
    BY <1>5, <2>3, <2>4
  <2>6. Rank(line, p) < N
    BY <1>3, <1>6, <2>5
  <2> QED BY <1>6, <2>5, <2>6 DEF q, T
<1>7. CASE q \notin T
  <2>1. upto = T
    BY <1>2, <1>7
  <2>2. ~ (Rank(line, p) < N)
    BY <1>3, <1>5, <2>1
  <2> QED BY <1>2, <1>7, <2>2 DEF q, T
<1> QED BY <1>6, <1>7

\* The pointer of loadBlock goes over the line in steps of NextNumber.
LEMMA PointerSteps ==
    ASSUME NEW line, Len(line) \in Nat
    PROVE  /\ Pointer(line)[0] = 1
           /\ \A k \in 1 .. Len(line) + 1 : Pointer(line)[k] = NextNumber(line, Pointer(line)[k - 1])
<1> DEFINE n == Len(line) + 1
           D == 1 .. n
           Rhs(f) == [k \in 0 .. n |-> IF k = 0 THEN 1 ELSE NextNumber(line, f[k - 1])]
           ptr == CHOOSE f : f = Rhs(f)
           step == [k \in 1 .. n |-> [p \in D |-> NextNumber(line, p)]]
<1>1. Pointer(line) = ptr
  BY DEF Pointer
<1>2. n \in Nat /\ 1 \in D /\ \A k \in 1 .. n : k \in 0 .. n /\ k # 0 /\ k - 1 \in 0 .. n
  OBVIOUS
<1>3. \A p \in D : NextNumber(line, p) \in D
  <2> TAKE p \in D
  <2> DEFINE s == From(line, p, LAMBDA c : c = SPACE)
             q == From(line, s, LAMBDA c : c # SPACE)
  <2>1. s \in p .. n
    BY FromSpace
  <2> HIDE DEF s
  <2>2. s \in 1 .. Len(line) + 1
    BY <2>1
  <2>3. q \in s .. n
    BY <2>2, FromOther
  <2>4. q = NextNumber(line, p)
    BY DEF NextNumber, s
  <2> HIDE DEF q
  <2> QED BY <2>2, <2>3, <2>4
<1> HIDE DEF D, n
<1>4. step \in [1 .. n -> [D -> D]]
  BY <1>3
<1>5. PICK f : Iterates(f, n, D, 1, step)
  <2> HIDE DEF step
  <2> QED BY <1>2, <1>4, Recursion
<1>6. f = Rhs(f)
  <2>1. f \in [0 .. n -> D] /\ f[0] = 1
    BY <1>5 DEF Iterates
  <2>2. \A k \in 1 .. n : f[k] = NextNumber(line, f[k - 1])
    BY <1>2, <1>5, <2>1 DEF Iterates
  <2>3. ASSUME NEW k \in 0 .. n
        PROVE  f[k] = IF k = 0 THEN 1 ELSE NextNumber(line, f[k - 1])
    <3>1. k = 0 \/ k \in 1 .. n
      BY <1>2
    <3> QED BY <2>1, <2>2, <3>1
  <2> QED BY <2>1, <2>3
<1>7. ptr = Rhs(ptr)
  BY <1>6
<1> HIDE DEF ptr
<1>8. ptr[0] = 1 /\ \A k \in 1 .. n : ptr[k] = NextNumber(line, ptr[k - 1])
  BY <1>2, <1>7
<1> QED BY <1>1, <1>8 DEF n

\* A blank in front: the first number is found from there, and again at its own place.
Ahead(line) == IF line[1] = SPACE THEN 1 ELSE 0

LEMMA FirstNumber ==
    ASSUME NEW line, NumberLine(line), Starts(line) # {}
    PROVE  /\ Pointer(line)[Ahead(line)] \in Starts(line)
           /\ Rank(line, Pointer(line)[Ahead(line)]) = 1
           /\ line[1] = SPACE => sscanf(line, 1) = sscanf(line, Pointer(line)[1])
<1> DEFINE n == Len(line)
<1>1. n \in Nat /\ n # 0 /\ Starts(line) \subseteq 1 .. n
  BY DEF NumberLine, Starts
<1>2. \A i \in 1 .. n : line[i] = SPACE \/ line[i] = NL \/ isdigit(line[i])
  BY DEF NumberLine, isdigit
<1>3. \A i \in 1 .. n - 1 : line[i] # NL
  BY DEF NumberLine
<1>4. ~ isdigit(SPACE) /\ ~ isdigit(NL) /\ SPACE # NL
  BY DEF isdigit, SPACE, NL
<1>5. Pointer(line)[0] = 1 /\ Pointer(line)[1] = NextNumber(line, 1)
  <2>1. 1 \in 1 .. n + 1
    BY <1>1
  <2>2. /\ Pointer(line)[0] = 1
        /\ \A k \in 1 .. n + 1 : Pointer(line)[k] = NextNumber(line, Pointer(line)[k - 1])
    BY <1>1, PointerSteps
  <2>3. Pointer(line)[1] = NextNumber(line, Pointer(line)[1 - 1])
    BY <2>1, <2>2
  <2> QED BY <2>2, <2>3
<1>6. ASSUME NEW p \in Starts(line), \A i \in Starts(line) : ~ (i < p)
      PROVE  Rank(line, p) = 1
  <2>1. {j \in Starts(line) : j <= p} = {p}
    BY <1>1, <1>6
  <2> QED BY <2>1, FS_Singleton DEF Rank
<1>7. CASE isdigit(line[1])
  <2>1. 1 \in Starts(line)
    BY <1>1, <1>7 DEF Starts
  <2>2. Rank(line, 1) = 1
    BY <1>1, <1>6, <2>1
  <2>3. line[1] # SPACE
    BY <1>4, <1>7
  <2> QED BY <1>5, <2>1, <2>2, <2>3 DEF Ahead
<1>8. line[1] # NL
  <2> SUFFICES ASSUME line[1] = NL PROVE FALSE
    OBVIOUS
  <2>1. PICK i \in Starts(line) : TRUE
    OBVIOUS
  <2>2. n = 1
    <3>1. 1 \notin 1 .. n - 1
      BY <1>3
    <3> HIDE DEF n
    <3> QED BY <1>1, <3>1
  <2>3. i = 1 /\ isdigit(line[i])
    BY <1>1, <2>1, <2>2 DEF Starts
  <2> QED BY <1>4, <2>3
<1>9. CASE line[1] = SPACE
  <2> DEFINE s == From(line, 1, LAMBDA c : c = SPACE)
             q == From(line, 1, LAMBDA c : c # SPACE)
             k == From(line, 1, LAMBDA c : c \notin {SPACE, TAB, NL})
  <2>1. 1 \in 1 .. n + 1 /\ 1 \in 1 .. n
    BY <1>1
  <2>2. s \in 1 .. n + 1 /\ \A j \in 1 .. s - 1 : line[j] # SPACE
    BY <1>1, <2>1, FromSpace
  <2>3. /\ q \in 1 .. n + 1 /\ (q = n + 1 \/ line[q] # SPACE)
        /\ \A j \in 1 .. q - 1 : line[j] = SPACE
    BY <1>1, <2>1, FromOther
  <2>4. /\ k \in 1 .. n + 1 /\ (k = n + 1 \/ line[k] \notin {SPACE, TAB, NL})
        /\ \A j \in 1 .. k - 1 : line[j] \in {SPACE, TAB, NL}
    BY <1>1, <2>1, FromInk
  <2>5. sscanf(line, 1) = Integer(line, k)
    BY DEF sscanf
  <2>6. s = 1
    <3> HIDE DEF s
    <3> QED BY <1>9, <2>2
  <2>7. q = NextNumber(line, 1)
    BY <2>6 DEF NextNumber
  <2> HIDE DEF s, q, k
  <2>8. PICK i \in Starts(line) : TRUE
    OBVIOUS
  <2>9. i \in 1 .. n /\ isdigit(line[i])
    BY <2>8 DEF Starts
  <2>10. q <= i
    BY <1>1, <1>4, <2>3, <2>9
  <2>11. q \in 1 .. n
    BY <1>1, <2>3, <2>9, <2>10
  <2>12. line[q] # NL
    <3> SUFFICES ASSUME line[q] = NL PROVE FALSE
      OBVIOUS
    <3>1. q = n
      BY <1>1, <1>3, <2>11
    <3>2. i = q
      BY <1>1, <2>9, <2>10, <3>1
    <3> QED BY <1>4, <2>9, <3>2
  <2>13. isdigit(line[q])
    BY <1>1, <1>2, <2>3, <2>11, <2>12
  <2>14. q # 1 /\ q - 1 \in 1 .. q - 1
    BY <1>4, <1>9, <2>11, <2>13
  <2>15. q \in Starts(line)
    <3>1. ~ isdigit(line[q - 1])
      BY <1>4, <2>3, <2>14
    <3> QED BY <2>11, <2>13, <3>1 DEF Starts
  <2>16. \A j \in Starts(line) : ~ (j < q)
    <3> SUFFICES ASSUME NEW j \in Starts(line), j < q PROVE FALSE
      OBVIOUS
    <3>1. j \in 1 .. q - 1 /\ isdigit(line[j])
      BY <2>11 DEF Starts
    <3> QED BY <1>4, <2>3, <3>1
  <2>17. k = q
    <3>1. line[q] \notin {SPACE, TAB, NL}
      BY <2>13 DEF isdigit, SPACE, TAB, NL
    <3>2. ~ (q < k)
      BY <2>4, <2>11, <3>1
    <3>3. ~ (k < q)
      BY <2>3, <2>4, <2>11
    <3> QED BY <2>3, <2>4, <3>2, <3>3
  <2>18. sscanf(line, q) = Integer(line, q)
    BY <1>1, <2>11, <2>13, ScanAtDigit
  <2> QED BY <1>5, <1>6, <1>9, <2>5, <2>7, <2>15, <2>16, <2>17, <2>18 DEF Ahead
<1> QED BY <1>1, <1>2, <1>7, <1>8, <1>9

\* From there on the pointer meets every number, in order, and then sscanf fails.
LEMMA PointerRank ==
    ASSUME NEW line, NumberLine(line), Starts(line) # {}
    PROVE  LET N == Cardinality(Starts(line))
               o == Ahead(line)
           IN  /\ \A k \in 0 .. N - 1 : /\ Pointer(line)[o + k] \in Starts(line)
                                        /\ Rank(line, Pointer(line)[o + k]) = k + 1
               /\ sscanf(line, Pointer(line)[o + N]) = <<>>
<1> DEFINE n == Len(line)
           T == Starts(line)
           N == Cardinality(T)
           o == Ahead(line)
           ptr == Pointer(line)
           S == {k \in 0 .. N - 1 : ptr[o + k] \in T /\ Rank(line, ptr[o + k]) = k + 1}
<1>1. n \in Nat
  BY DEF NumberLine
<1>2. IsFiniteSet(T) /\ N \in 0 .. n
  BY <1>1, Ranks
<1>3. N # 0 /\ N - 1 \in Nat
  <2> HIDE DEF T
  <2>1. T # {}
    BY DEF T
  <2> QED BY <1>1, <1>2, <2>1, FS_EmptySet
<1>4. o \in {0, 1}
  BY DEF Ahead
<1>5. \A k \in 1 .. n + 1 : ptr[k] = NextNumber(line, ptr[k - 1])
  BY <1>1, PointerSteps
<1>6. ptr[o] \in T /\ Rank(line, ptr[o]) = 1
  BY FirstNumber
<1>7. \A p \in T : IF Rank(line, p) < N THEN /\ NextNumber(line, p) \in T
                                             /\ Rank(line, NextNumber(line, p)) = Rank(line, p) + 1
                                        ELSE sscanf(line, NextNumber(line, p)) = <<>>
  BY NextRank
<1>8. ASSUME NEW k \in 0 .. N - 1
      PROVE  ptr[o + k + 1] = NextNumber(line, ptr[o + k])
  <2>1. o + k + 1 \in 1 .. n + 1 /\ (o + k + 1) - 1 = o + k
    BY <1>1, <1>2, <1>4
  <2> HIDE DEF o, ptr
  <2>2. ptr[o + k + 1] = NextNumber(line, ptr[(o + k + 1) - 1])
    BY <1>5, <2>1
  <2> QED BY <2>1, <2>2
<1> HIDE DEF N, o, T, ptr
<1>9. 0 \in S
  <2>1. o + 0 = o /\ 0 \in 0 .. N - 1 /\ 0 + 1 = 1
    BY <1>3, <1>4
  <2> QED BY <1>6, <2>1
<1>10. ASSUME NEW k \in 0 .. (N - 1) - 1, k \in S
       PROVE  k + 1 \in S
  <2>1. k \in 0 .. N - 1 /\ k + 1 \in 0 .. N - 1 /\ k + 1 < N /\ o + (k + 1) = o + k + 1
    BY <1>2, <1>3, <1>4
  <2>2. ptr[o + k] \in T /\ Rank(line, ptr[o + k]) = k + 1
    BY <1>10
  <2>3. ptr[o + k + 1] \in T /\ Rank(line, ptr[o + k + 1]) = (k + 1) + 1
    BY <1>7, <1>8, <2>1, <2>2
  <2> QED BY <2>1, <2>3
<1>11. \A k \in 0 .. N - 1 : k \in S
  <2> HIDE DEF S
  <2> QED BY <1>3, <1>9, <1>10, Induction
<1>12. sscanf(line, ptr[o + N]) = <<>>
  <2>1. N - 1 \in 0 .. N - 1 /\ (N - 1) + 1 = N /\ ~ (N < N) /\ o + (N - 1) + 1 = o + N
    BY <1>2, <1>3, <1>4
  <2>2. ptr[o + (N - 1)] \in T /\ Rank(line, ptr[o + (N - 1)]) = N
    BY <1>11, <2>1
  <2> QED BY <1>7, <1>8, <2>1, <2>2
<1> QED BY <1>11, <1>12 DEF N, o, T, ptr

\* The block of a line holds its numbers, and the first of them twice if a blank is in front.
LEMMA BlockIsNumbers ==
    ASSUME NEW line, NumberLine(line), Starts(line) # {}
    PROVE  Block(line) = IF line[1] = SPACE THEN <<Numbers(line)[1]>> \o Numbers(line)
                                            ELSE Numbers(line)
<1> DEFINE n == Len(line)
           N == Cardinality(Starts(line))
           o == Ahead(line)
           ptr == Pointer(line)
           num == Numbers(line)
           block == Block(line)
<1>1. n \in Nat /\ N \in 1 .. n /\ o \in {0, 1}
  <2>1. n \in Nat
    BY DEF NumberLine
  <2>2. IsFiniteSet(Starts(line)) /\ N \in 0 .. n
    BY <2>1, Ranks
  <2>3. N # 0
    BY <2>2, FS_EmptySet
  <2> QED BY <2>1, <2>2, <2>3 DEF Ahead
<1>2. ASSUME NEW k \in 0 .. N - 1
      PROVE  sscanf(line, ptr[o + k]) # <<>> /\ sscanf(line, ptr[o + k])[1] = num[k + 1]
  <2> DEFINE p == ptr[o + k]
  <2>1. p \in Starts(line) /\ Rank(line, p) = k + 1
    BY PointerRank
  <2> HIDE DEF p
  <2>2. p \in 1 .. n /\ isdigit(line[p])
    BY <2>1 DEF Starts
  <2>3. sscanf(line, p) = Integer(line, p) /\ sscanf(line, p) # <<>>
    BY <1>1, <2>2, ScanAtDigit
  <2>4. num[k + 1] = Integer(line, p)[1]
    BY <1>1, <2>1, NumberAt
  <2> QED BY <2>3, <2>4 DEF p
<1>3. sscanf(line, ptr[o + N]) = <<>>
  BY PointerRank
<1>4. ptr[0] = 1
  BY <1>1, PointerSteps
<1>5. o = 1 => sscanf(line, ptr[0]) = sscanf(line, ptr[1])
  BY <1>4, FirstNumber DEF Ahead
<1>6. num = [k \in 1 .. N |-> num[k]]
  BY DEF Numbers
<1>7. line[1] = SPACE <=> o = 1
  BY DEF Ahead
<1> HIDE DEF N, o, ptr, num
<1>8. \A k \in 0 .. (o + N) - 1 : sscanf(line, ptr[k]) # <<>>
  <2> TAKE k \in 0 .. (o + N) - 1
  <2>1. CASE k < o
    <3>1. k = 0 /\ o = 1 /\ 0 \in 0 .. N - 1 /\ o + 0 = 1
      BY <1>1, <2>1
    <3>2. sscanf(line, ptr[o + 0]) # <<>>
      BY <1>2, <3>1
    <3> QED BY <1>5, <3>1, <3>2
  <2>2. CASE ~ (k < o)
    <3>1. k - o \in 0 .. N - 1 /\ o + (k - o) = k
      BY <1>1, <2>2
    <3>2. sscanf(line, ptr[o + (k - o)]) # <<>>
      BY <1>2, <3>1
    <3> QED BY <3>1, <3>2
  <2> QED BY <2>1, <2>2
<1>9. Count(line) = o + N
  <2> DEFINE P(k) == /\ sscanf(line, ptr[k]) = <<>>
                     /\ \A j \in 0 .. k - 1 : sscanf(line, ptr[j]) # <<>>
             c == CHOOSE k \in 0 .. n + 1 : P(k)
  <2>1. o + N \in 0 .. n + 1 /\ P(o + N)
    BY <1>1, <1>3, <1>8
  <2>2. c \in 0 .. n + 1 /\ P(c)
    <3> HIDE DEF P
    <3> QED BY <2>1
  <2>3. Count(line) = c
    BY DEF Count, ptr
  <2> HIDE DEF c
  <2>4. c = o + N
    <3>1. ~ (c < o + N)
      BY <1>1, <1>8, <2>2
    <3>2. ~ (o + N < c)
      BY <1>1, <1>3, <2>2
    <3> QED BY <1>1, <2>2, <3>1, <3>2
  <2> QED BY <2>3, <2>4
<1>10. block = [i \in 1 .. o + N |-> sscanf(line, ptr[i - 1])[1]]
  BY <1>9 DEF Block, ptr
<1> HIDE DEF block
<1>11. CASE o = 0
  <2>1. o + N = N
    BY <1>1, <1>11
  <2>2. \A i \in 1 .. N : sscanf(line, ptr[i - 1])[1] = num[i]
    <3> TAKE i \in 1 .. N
    <3>1. i - 1 \in 0 .. N - 1 /\ o + (i - 1) = i - 1 /\ (i - 1) + 1 = i
      BY <1>1, <1>11
    <3>2. sscanf(line, ptr[o + (i - 1)])[1] = num[(i - 1) + 1]
      BY <1>2, <3>1
    <3> QED BY <3>1, <3>2
  <2>3. block = [i \in 1 .. N |-> num[i]]
    BY <1>10, <2>1, <2>2
  <2>4. block = num
    BY <1>6, <2>3
  <2>5. line[1] # SPACE
    BY <1>7, <1>11
  <2> QED BY <2>4, <2>5 DEF block, num
<1>12. CASE o = 1
  <2> DEFINE D == {num[i] : i \in 1 .. N}
             one == <<num[1]>>
  <2>1. num \in Seq(D) /\ Len(num) = N /\ one \in Seq(D) /\ Len(one) = 1 /\ one[1] = num[1]
    <3>1. 1 \in 1 .. N /\ N \in Nat
      BY <1>1
    <3>2. num[1] \in D /\ num \in [1 .. N -> D]
      BY <1>6, <3>1
    <3> HIDE DEF D
    <3> QED BY <3>1, <3>2
  <2>2. \A i \in 1 .. N + 1 : block[i] = IF i <= 1 THEN one[i] ELSE num[i - 1]
    <3> TAKE i \in 1 .. N + 1
    <3>1. block[i] = sscanf(line, ptr[i - 1])[1]
      BY <1>1, <1>10, <1>12
    <3>2. CASE i = 1
      <4>1. 0 \in 0 .. N - 1 /\ o + 0 = 1 /\ 0 + 1 = 1 /\ i - 1 = 0
        BY <1>1, <1>12, <3>2
      <4>2. sscanf(line, ptr[o + 0])[1] = num[0 + 1]
        BY <1>2, <4>1
      <4> QED BY <1>5, <1>12, <2>1, <3>1, <3>2, <4>1, <4>2
    <3>3. CASE i # 1
      <4>1. i - 2 \in 0 .. N - 1 /\ o + (i - 2) = i - 1 /\ (i - 2) + 1 = i - 1 /\ ~ (i <= 1)
        BY <1>1, <1>12, <3>3
      <4>2. sscanf(line, ptr[o + (i - 2)])[1] = num[(i - 2) + 1]
        BY <1>2, <4>1
      <4> QED BY <3>1, <4>1, <4>2
    <3> QED BY <3>2, <3>3
  <2> HIDE DEF D, one
  <2>3. /\ one \o num \in Seq(D) /\ Len(one \o num) = N + 1
        /\ \A i \in 1 .. N + 1 : (one \o num)[i] = IF i <= 1 THEN one[i] ELSE num[i - 1]
    <3>1. /\ one \o num \in Seq(D) /\ Len(one \o num) = Len(one) + Len(num)
          /\ \A i \in 1 .. Len(one) + Len(num) :
                (one \o num)[i] = IF i <= Len(one) THEN one[i] ELSE num[i - Len(one)]
      BY <2>1, ConcatProperties
    <3>2. Len(one) + Len(num) = N + 1
      BY <1>1, <2>1
    <3> QED BY <2>1, <3>1, <3>2
  <2>4. one \o num = [i \in 1 .. N + 1 |-> (one \o num)[i]]
    <3> DEFINE both == one \o num
    <3>1. both \in Seq(D) /\ Len(both) = N + 1
      BY <2>3
    <3> HIDE DEF both
    <3>2. both = [i \in 1 .. N + 1 |-> both[i]]
      BY <3>1
    <3> QED BY <3>2 DEF both
  <2>5. block = [i \in 1 .. N + 1 |-> block[i]]
    BY <1>1, <1>10, <1>12
  <2>6. block = one \o num
    BY <2>2, <2>3, <2>4, <2>5
  <2> QED BY <1>7, <1>12, <2>6 DEF block, num, one
<1> QED BY <1>1, <1>11, <1>12

\* What fgets takes has a newline at most at its end.
Pieces == {line \in Seq(Int) : \A i \in 1 .. Len(line) - 1 : line[i] # NL}

LEMMA PieceTaken ==
    ASSUME NEW text \in Seq(Int), text # <<>>
    PROVE  fgets(text, BLOCK_LINE) \in Pieces /\ Rest(text, BLOCK_LINE) \in Seq(Int)
<1> DEFINE n == Len(text)
           S == {k \in 1 .. n : text[k] = NL \/ k = BLOCK_LINE}
           P(k) == /\ text[k] = NL \/ k = BLOCK_LINE \/ k = n
                   /\ \A j \in 1 .. k - 1 : text[j] # NL /\ j # BLOCK_LINE
           m == PieceLength(text, BLOCK_LINE)
<1>1. n \in Nat /\ 1 <= n /\ \A i \in 1 .. n : text[i] \in Int
  BY EmptySeq
<1>2. \E k \in 1 .. n : P(k)
  <2>1. PICK k \in 1 .. n : (k = n \/ k \in S) /\ \A j \in 1 .. k - 1 : j \notin S
    <3> HIDE DEF n, S
    <3> QED BY <1>1, First
  <2>2. \A j \in 1 .. k - 1 : j \in 1 .. n
    BY <1>1
  <2>3. P(k)
    BY <2>1, <2>2
  <2> QED BY <2>3
<1>3. m = CHOOSE k \in 1 .. n : P(k)
  BY DEF PieceLength
<1> HIDE DEF P
<1>4. m \in 1 .. n /\ P(m)
  BY <1>2, <1>3
<1> HIDE DEF m, n
<1>5. \A j \in 1 .. m - 1 : text[j] # NL
  BY <1>4 DEF P
<1>6. m \in Nat /\ m <= n /\ 1 <= m
  BY <1>1, <1>4
<1>7. SubSeq(text, 1, m) \in Pieces
  <2> DEFINE line == SubSeq(text, 1, m)
  <2>1. m \in Int /\ \A i \in 1 .. m : text[i] \in Int
    BY <1>1, <1>6
  <2>2. /\ line \in Seq(Int)
        /\ Len(line) = IF 1 <= m THEN m - 1 + 1 ELSE 0
        /\ \A i \in 1 .. m - 1 + 1 : line[i] = text[1 + i - 1]
    BY <2>1, SubSeqProperties
  <2>3. Len(line) = m /\ \A i \in 1 .. m - 1 : line[i] = text[i]
    BY <1>6, <2>2
  <2> HIDE DEF line
  <2>4. line \in Pieces
    BY <1>5, <2>2, <2>3 DEF Pieces
  <2> QED BY <2>4 DEF line
<1>8. SubSeq(text, m + 1, n) \in Seq(Int)
  <2>1. m + 1 \in Int /\ n \in Int /\ \A i \in m + 1 .. n : text[i] \in Int
    BY <1>1, <1>6
  <2> QED BY <2>1, SubSeqProperties
<1> QED BY <1>7, <1>8 DEF fgets, Rest, m, n

\* Every entry of the result is a piece and its block.
LoadmemInv ==
    program = "loadmem" =>
        /\ input \in Seq(Int)
        /\ output \in Seq({[line |-> line, block |-> Block(line)] : line \in Pieces})

LEMMA LoadmemInit == Init => LoadmemInv
<1> SUFFICES ASSUME Init, program = "loadmem" PROVE LoadmemInv
  BY DEF LoadmemInv
<1>1. input \in BlockFiles /\ output = <<>>
  BY DEF Init, Choose
<1> QED BY <1>1, InputsAssumption DEF LoadmemInv

LEMMA LoadmemStep == LoadmemInv /\ [Next]_exVars => LoadmemInv'
<1> SUFFICES ASSUME LoadmemInv, [Next]_exVars, program' = "loadmem" PROVE LoadmemInv'
  BY DEF LoadmemInv
<1>1. CASE UNCHANGED <<program, toolVars>>
  BY <1>1 DEF toolVars, LoadmemInv
<1>2. CASE program = "loadmem" /\ LoadBlock
  <2> DEFINE line == fgets(input, BLOCK_LINE)
             entry == [line |-> line, block |-> Block(line)]
             E == {[line |-> l, block |-> Block(l)] : l \in Pieces}
  <2>1. input \in Seq(Int) /\ input # <<>> /\ output \in Seq(E)
    BY <1>2 DEF LoadmemInv, LoadBlock
  <2>2. line \in Pieces /\ Rest(input, BLOCK_LINE) \in Seq(Int)
    BY <2>1, PieceTaken
  <2>3. output' = Append(output, entry) /\ input' = Rest(input, BLOCK_LINE)
    BY <1>2 DEF LoadBlock
  <2>4. entry \in E
    BY <2>2
  <2> HIDE DEF entry, E
  <2>5. output' \in Seq(E)
    BY <2>1, <2>3, <2>4
  <2> QED BY <2>2, <2>3, <2>5 DEF LoadmemInv, E
<1>3. CASE program = "loadmem" /\ LoadmemEnd
  BY <1>3 DEF LoadmemEnd, Finish, LoadmemInv
<1> QED BY <1>1, <1>2, <1>3 DEF Next, exVars, ToolStep, loadmem

\* For every file and every length of the buffer: the block of a line of numbers that does
\* not begin with a blank holds exactly its numbers, in their order.
THEOREM BlocksAreComplete == Spec => []BlocksHoldNumbers
<1>1. LoadmemInv => BlocksHoldNumbers
  <2> SUFFICES ASSUME LoadmemInv, program = "loadmem", NEW b \in 1 .. Len(output),
                      OfNumbers(output[b].line), output[b].line[1] # SPACE
               PROVE  output[b].block = Numbers(output[b].line)
    BY DEF BlocksHoldNumbers
  <2> DEFINE E == {[line |-> l, block |-> Block(l)] : l \in Pieces}
  <2>1. output[b] \in E
    <3>1. output \in Seq(E)
      BY DEF LoadmemInv
    <3> HIDE DEF E
    <3> QED BY <3>1
  <2>2. PICK line \in Pieces : output[b] = [line |-> line, block |-> Block(line)]
    BY <2>1
  <2>3. output[b].line = line /\ output[b].block = Block(line)
    BY <2>2
  <2>4. NumberLine(line)
    BY <2>2, <2>3 DEF Pieces, NumberLine, OfNumbers
  <2>5. Starts(line) # {}
    <3> SUFFICES ASSUME Starts(line) = {} PROVE Numbers(line) = <<>>
      BY <2>3 DEF OfNumbers
    <3>1. 1 .. Cardinality(Starts(line)) = {}
      BY FS_EmptySet
    <3> QED BY <3>1 DEF Numbers
  <2> QED BY <2>3, <2>4, <2>5, BlockIsNumbers
<1> QED BY <1>1, LoadmemInit, LoadmemStep, PTL DEF Spec
=============================================================================
